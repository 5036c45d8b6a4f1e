--------------------------- MODULE RoomDirectory ---------------------------
(***************************************************************************)
(* What the rooms of the server promise, without slots, descriptors or     *)
(* messages: rooms are opened in order, hold a set of clients with a host  *)
(* among them, and close for good when the last client leaves.             *)
(***************************************************************************)
EXTENDS Integers, FiniteSets

CONSTANTS Clients, Nobody, MaxRooms, Capacity

VARIABLES
    opened,    \* how many rooms were ever opened
    members,   \* room -> clients in it; {} for a room not open
    host       \* room -> its host; Nobody for a room not open

vars == <<opened, members, host>>

Rooms == 1 .. MaxRooms
Homeless(c) == \A r \in Rooms : c \notin members[r]

Init ==
    /\ opened = 0
    /\ members = [r \in Rooms |-> {}]
    /\ host = [r \in Rooms |-> Nobody]

\* A client opens a room of its own and is its host.
Open(c) ==
    /\ Homeless(c)
    /\ opened < MaxRooms
    /\ opened' = opened + 1
    /\ members' = [members EXCEPT ![opened'] = {c}]
    /\ host' = [host EXCEPT ![opened'] = c]

\* A client enters an open room that is not full; the host stays.  (Not so in
\* NETWORK_PROTOCOL.md:576, where the host is always the lowest occupied slot; the
\* code changes the host only when somebody leaves, room.cpp:39 and :63.)
Enter(c, r) ==
    /\ Homeless(c)
    /\ members[r] # {}
    /\ Cardinality(members[r]) < Capacity
    /\ members' = [members EXCEPT ![r] = @ \cup {c}]
    /\ UNCHANGED <<opened, host>>

\* A client leaves; the host is then one of those who stay, if any.
Leave(c, r) ==
    /\ c \in members[r]
    /\ members' = [members EXCEPT ![r] = @ \ {c}]
    /\ \E h \in members'[r] \cup {Nobody} :
          /\ h = Nobody <=> members'[r] = {}
          /\ host' = [host EXCEPT ![r] = h]
    /\ UNCHANGED opened

Next ==
    \E c \in Clients :
        \/ Open(c)
        \/ \E r \in Rooms : Enter(c, r) \/ Leave(c, r)

Spec == Init /\ [][Next]_vars
=============================================================================
