-------------------------------- MODULE Room --------------------------------
(***************************************************************************)
(* The class Room of backend/room/room.cpp: a fixed array of slots, a host *)
(* slot, the privacy flag, the "game started" flag and the metrics map.    *)
(* Every operator is one method; it takes a room and returns the room the  *)
(* method leaves behind (or the value the method returns).                 *)
(*                                                                         *)
(* Abstractions.  Of a player's PlayerMetrics only word_idx is kept: it is *)
(* the only field a decision of the server depends on.  The start time and *)
(* the duration are used for one comparison, "has the deadline passed",    *)
(* whose outcome is the argument `late` of IsGameEnded.  NumSlots is 8 in  *)
(* the code.                                                               *)
(***************************************************************************)
EXTENDS Integers, FiniteSets, FiniteSetsExt

CONSTANTS
    Fds,          \* the socket descriptors the process can hand out
    NoFd,         \* client_fd of a free slot (-1 in the code)
    Names,        \* display names
    NoName,       \* the cleared display name of a free slot
    NumSlots,     \* size of slots_
    TotalWords    \* total_words_ of the paragraph

ASSUME RoomAssumption ==
    /\ NoFd \notin Fds
    /\ NoName \notin Names
    /\ NumSlots \in Nat \ {0}
    /\ TotalWords \in Nat \ {0}

SlotIdx == 0 .. NumSlots - 1
NoHost == -1

\* word_idx of a player, or NoEntry when player_metrics_ has no entry for it.
NoEntry == -1
Progress == Nat \cup {NoEntry}

Slot == [fd : Fds \cup {NoFd}, cid : Nat, name : Names \cup {NoName}, ready : BOOLEAN]
FreeSlot == [fd |-> NoFd, cid |-> 0, name |-> NoName, ready |-> FALSE]

RoomType == [slots   : [SlotIdx -> Slot],
             host    : SlotIdx \cup {NoHost},
             private : BOOLEAN,
             started : BOOLEAN,
             metrics : [Fds -> Progress]]

NewRoom == [slots   |-> [i \in SlotIdx |-> FreeSlot],
            host    |-> NoHost,
            private |-> FALSE,
            started |-> FALSE,
            metrics |-> [f \in Fds |-> NoEntry]]

-----------------------------------------------------------------------------
(* Reading a room. *)

Occupied(rm) == {i \in SlotIdx : rm.slots[i].fd # NoFd}
Free(rm) == SlotIdx \ Occupied(rm)
SlotsOf(rm, fd) == {i \in SlotIdx : rm.slots[i].fd = fd}
Members(rm) == {fd \in Fds : SlotsOf(rm, fd) # {}}

\* find_slot_by_fd: the lowest slot that holds fd.
SlotOf(rm, fd) == Min(SlotsOf(rm, fd))

PlayerCount(rm) == Cardinality(Occupied(rm))

IsHost(rm, fd) == rm.host # NoHost /\ rm.slots[rm.host].fd = fd

AllReady(rm) ==
    /\ Occupied(rm) # {}
    /\ \A i \in Occupied(rm) : rm.slots[i].ready

CanStart(rm) == rm.host # NoHost /\ PlayerCount(rm) >= 2 /\ AllReady(rm)

\* A seated player without a metrics entry has not finished.
AllFinished(rm) ==
    \A i \in Occupied(rm) : rm.metrics[rm.slots[i].fd] >= TotalWords

\* Mutant: only the clock ends a game.
IsGameEnded_OnTime(rm, late) == rm.started /\ late

\* `late`: the game's duration has elapsed.
IsGameEnded(rm, late) == rm.started /\ (late \/ AllFinished(rm))

\* The payload of room_state (all_ready and can_start follow from the slots).
RoomState(r, rm) ==
    [id |-> r, private |-> rm.private, host |-> rm.host, slots |-> rm.slots]

-----------------------------------------------------------------------------
(* Changing a room. *)

\* The caller has found Free(rm) # {}; otherwise add_player returns false.  The host
\* stays who it is, also when the newcomer's slot is a lower one.
AddPlayer(rm, fd, cid, name) ==
    LET i == Min(Free(rm))
    IN  [rm EXCEPT !.slots[i] = [fd |-> fd, cid |-> cid, name |-> name, ready |-> FALSE],
                   !.host = IF @ = NoHost THEN i ELSE @]

RecalculateHost(rm) ==
    [rm EXCEPT !.host = IF Occupied(rm) = {} THEN NoHost ELSE Min(Occupied(rm))]

\* Mutant: remove_player does not recalculate the host.
RemovePlayer_KeepsHost(rm, fd) ==
    IF fd \notin Members(rm) THEN rm
    ELSE [rm EXCEPT !.slots[SlotOf(rm, fd)] = FreeSlot, !.metrics[fd] = NoEntry]

\* Mutant: remove_player forgets player_metrics_.erase.
RemovePlayer_KeepsMetrics(rm, fd) ==
    IF fd \notin Members(rm) THEN rm
    ELSE RecalculateHost([rm EXCEPT !.slots[SlotOf(rm, fd)] = FreeSlot])

\* Mutant: remove_player clears the whole metrics map.
RemovePlayer_ClearsMetrics(rm, fd) ==
    IF fd \notin Members(rm) THEN rm
    ELSE RecalculateHost([rm EXCEPT !.slots[SlotOf(rm, fd)] = FreeSlot,
                                    !.metrics = [f \in Fds |-> NoEntry]])

RemovePlayer(rm, fd) ==
    IF fd \notin Members(rm) THEN rm
    ELSE RecalculateHost([rm EXCEPT !.slots[SlotOf(rm, fd)] = FreeSlot,
                                    !.metrics[fd] = NoEntry])

SetReady(rm, fd, ready) ==
    IF fd \notin Members(rm) THEN rm
    ELSE [rm EXCEPT !.slots[SlotOf(rm, fd)].ready = ready]

UpdateDisplayName(rm, fd, name) ==
    IF fd \notin Members(rm) THEN rm
    ELSE [rm EXCEPT !.slots[SlotOf(rm, fd)].name = name]

SetPrivate(rm, private) == [rm EXCEPT !.private = private]

\* Every seated player restarts from word 0; other entries are left alone.
StartGame(rm) ==
    [rm EXCEPT !.started = TRUE,
               !.metrics = [f \in Fds |-> IF f \in Members(rm) THEN 0 ELSE @[f]]]

EndGame(rm) ==
    [rm EXCEPT !.started = FALSE,
               !.slots = [i \in SlotIdx |-> [@[i] EXCEPT !.ready = FALSE]]]

\* Mutant: takes the index of every input, also of one that is behind.
NextWord_Unguarded(progress, w) == w + 1

\* Mutant: a word counts only when it is beyond the current one.
NextWord_Beyond(progress, w) ==
    LET current == IF progress = NoEntry THEN 0 ELSE progress
    IN  IF w > current THEN w + 1 ELSE current

\* The word_idx after an input that names word w, which may be any int: nobody asks
\* whether the paragraph has such a word.  The map default-constructs an entry.
\* The largest int, whose successor is undefined, is left out.
NextWord(progress, w) ==
    LET current == IF progress = NoEntry THEN 0 ELSE progress
    IN  IF w >= current THEN w + 1 ELSE current

ProcessInput(rm, fd, w) == [rm EXCEPT !.metrics[fd] = NextWord(@, w)]
=============================================================================
