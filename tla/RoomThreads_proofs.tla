-------------------------- MODULE RoomThreads_proofs --------------------------
(***************************************************************************)
(* Theorems about RoomThreads, for every number of connections, rooms and  *)
(* slots.  However the threads interleave, a connection reads and erases   *)
(* its own entry of clients_, and fd_to_room_ has entries of connections   *)
(* that stay.  In a room whose slots two threads never write at once,      *)
(* seats belong to connections that run, a client in the room has one      *)
(* seat, there is a host among the players, and an empty room is still to  *)
(* be deleted by somebody.                                                 *)
(*                                                                         *)
(* What carries the seats is where a thread knows its room from: from its  *)
(* local Room* between the writing of the slot and the index on the way in *)
(* and between the index and the slot on the way out, and from fd_to_room_ *)
(* otherwise (Holder).  A thread that writes the slots knows what the      *)
(* others will find only because it writes alone.                          *)
(***************************************************************************)
EXTENDS RoomThreads, TLAPS

\* The connections that have a descriptor.
Active(c) == thread[c].at \notin {"none", "done"}

\* An open descriptor is that of one connection, which clients_ has as long as it
\* runs; the next id is that of nobody.
Descriptors ==
    /\ \A c \in Conns : Active(c) => c < nextClientId /\ Fd(c) \in open
    /\ \A c, d \in Conns : Active(c) /\ Active(d) /\ Fd(c) = Fd(d) => c = d
    /\ ClientKnown

\* A thread that is hanging up has erased its entry of fd_to_room_ and sits nowhere
\* else than in remove_fd.
Quitting ==
    \A c \in Conns : thread[c].quitting =>
        /\ thread[c].at \in {"leaving", "counting", "deleting", "sending"} \cup Clearing
        /\ roomOf[Fd(c)] = NoRoom

\* Nobody knows a room whose id has not been given out.
NewIds ==
    /\ \A r \in live : r < roomCounter
    /\ \A c \in Conns : thread[c].room < roomCounter
    /\ \A fd \in Fds : roomOf[fd] < roomCounter

\* The rooms two threads are writing are among those two threads have written.
Recorded == Contended \subseteq contended

\* The thread of c is at one of the statements S, with r as its room.
Doing(c, r, S) == thread[c].at \in S /\ thread[c].room = r

Indexed(c, r) == thread[c].at \in {"idle", "sending"} /\ roomOf[Fd(c)] = r

\* The statements at which a thread has a slot and no entry in fd_to_room_.
Seated == {"writingFd", "writingId", "testingHost", "takingHost", "indexing", "vacating"}

Holder(c, r) == Indexed(c, r) \/ Doing(c, r, Seated \cup {"leaving"})

\* Slot i of room r is that of c, as far as c has filled it and has searched for it.
Sits(c, r, i) ==
    /\ Holder(c, r)
    /\ Doing(c, r, Seated) => thread[c].slot = i
    /\ Doing(c, r, {"leaving"}) => thread[c].slot <= i
    /\ rooms[r].slots[i].fd = IF Doing(c, r, {"writingFd"}) THEN NoFd ELSE Fd(c)
    /\ Doing(c, r, {"writingFd", "writingId"}) \/ rooms[r].slots[i].cid = c

\* Each occupied slot is somebody's, and each holder has one.
Seats(r) ==
    /\ \A i \in Occupied(rooms[r]) : \E c \in Conns : Sits(c, r, i)
    /\ \A c \in Conns : Holder(c, r) =>
           \E i \in Occupied(rooms[r]) :
               Sits(c, r, i) /\ \A j \in Occupied(rooms[r]) : Sits(c, r, j) => j = i

\* A free slot has no descriptor, unless it is just being cleared; who is to fill or
\* clears a slot does it to a free one.
FreeSlots(r) ==
    /\ \A i \in SlotIdx \ Occupied(rooms[r]) :
           \/ rooms[r].slots[i].fd = NoFd
           \/ \E c \in Conns : Doing(c, r, {"clearingFd"}) /\ thread[c].slot = i
    /\ \A c \in Conns : Doing(c, r, {"occupying", "clearingFd", "clearingId"}) =>
           thread[c].slot \notin Occupied(rooms[r])

HostOK(rm) == rm.host \in Occupied(rm) \/ (rm.host = NoHost /\ Occupied(rm) = {})

\* What the host slot is while a thread is on its way to setting it.
Host(r) ==
    /\ (\A c \in Conns : ~Doing(c, r, Writing \ {"occupying", "vacating"})) => HostOK(rooms[r])
    /\ \A c \in Conns : Doing(c, r, {"writingFd", "writingId", "testingHost"}) =>
           rooms[r].host \in Occupied(rooms[r]) \cup {NoHost}
    /\ \A c \in Conns : Doing(c, r, {"electing"}) =>
           /\ rooms[r].host = NoHost
           /\ \A i \in Occupied(rooms[r]) : thread[c].slot <= i

\* The statements that lead to the deletion of the room if nobody joins it.
Deleting == {"clearingFd", "clearingId", "unhosting", "electing", "counting", "deleting"}

Leak(r) == Occupied(rooms[r]) = {} => \E c \in Conns : Doing(c, r, Deleting)

Fine(r) == Seats(r) /\ FreeSlots(r) /\ Host(r) /\ Leak(r)

Inv ==
    /\ TypeOK
    /\ Descriptors
    /\ IndexOwned
    /\ Quitting
    /\ NewIds
    /\ Recorded
    /\ \A r \in Ordered : Fine(r)


-----------------------------------------------------------------------------
(* Where the threads are.                                                    *)

LEMMA StepSets ==
    /\ Conns \subseteq Nat \ {0} /\ RoomIds \subseteq Nat \ {0}
    /\ 0 \in SlotIdx /\ SlotIdx \subseteq Nat
    /\ NoThread \in Thread /\ NewRoom \in Room /\ Occupied(NewRoom) = {}
<1>1. /\ Conns \subseteq Nat \ {0} /\ RoomIds \subseteq Nat \ {0}
      /\ 0 \in SlotIdx /\ SlotIdx \subseteq Nat
  BY ThreadsAssumption DEF Conns, RoomIds, SlotIdx
<1>2. FreeSlot \in Slot
  BY DEF FreeSlot, Slot
<1>3. NewRoom \in Room /\ Occupied(NewRoom) = {}
  BY <1>2 DEF NewRoom, Room, Occupied, FreeSlot
<1>4. NoThread \in Thread
  BY <1>1 DEF NoThread, Thread, Steps
<1> QED BY <1>1, <1>3, <1>4

\* The step records the rooms two threads are writing after it.
Tracked == contended' = contended \cup Contended'

\* The thread of c goes to t, and the others stay where they are.
Moves(c, t) == t \in Thread /\ thread' = [thread EXCEPT ![c] = t]

RunningAt(t) == t.at \notin {"none", "accepted", "closing", "done"}

LEMMA MovesProperties ==
    ASSUME TypeOK, NEW c \in Conns, NEW t, Moves(c, t)
    PROVE  /\ thread' \in [Conns -> Thread]
           /\ thread'[c] = t
           /\ \A d \in Conns \ {c} : thread'[d] = thread[d]
BY DEF Moves, TypeOK

\* Where an enabled statement finds the locals of its thread.
LEMMA Locals ==
    ASSUME Inv, NEW c \in Conns
    PROVE  /\ thread[c] \in Thread
           /\ Active(c) => /\ Fd(c) \in Fds /\ Fd(c) # NoFd /\ Fd(c) \in open
                           /\ roomOf[Fd(c)] \in RoomIds \cup {NoRoom}
           /\ Running(c) => clients[Fd(c)] = c /\ Active(c)
BY ThreadsAssumption DEF Inv, TypeOK, Descriptors, Active, ClientKnown, Running

\* Between two handlers and while it sends a thread may be in a room, and at no
\* other statement.
LEMMA NotIndexed ==
    ASSUME Inv, NEW c \in Conns, Active(c), thread[c].at \notin {"idle", "sending"}
    PROVE  roomOf[Fd(c)] = NoRoom
<1>1. Fd(c) \in Fds
  BY Locals
<1>2. ASSUME roomOf[Fd(c)] # NoRoom PROVE FALSE
  <2>1. PICK d \in Conns : Fd(d) = Fd(c) /\ thread[d].at \in {"idle", "sending"}
    BY <1>1, <1>2 DEF Inv, IndexOwned
  <2> QED BY <2>1 DEF Inv, Descriptors, Active
<1> QED BY <1>2

\* Other threads have other descriptors, so an entry of fd_to_room_ is that of one.
LEMMA OthersIndexed ==
    ASSUME Inv, NEW c \in Conns, Active(c), NEW t, Moves(c, t),
           NEW x, roomOf' = [roomOf EXCEPT ![Fd(c)] = x]
    PROVE  \A d \in Conns \ {c} : \A r : Indexed(d, r)' <=> Indexed(d, r)
<1> SUFFICES ASSUME NEW d \in Conns \ {c}, NEW r PROVE Indexed(d, r)' <=> Indexed(d, r)
  OBVIOUS
<1>1. thread'[d] = thread[d]
  BY MovesProperties DEF Inv
<1>2. ASSUME thread[d].at \in {"idle", "sending"} PROVE roomOf'[Fd(d)] = roomOf[Fd(d)]
  <2>1. Active(d)
    BY <1>2 DEF Active
  <2>2. Fd(d) # Fd(c) /\ Fd(d) \in Fds
    BY <2>1, Locals DEF Inv, Descriptors
  <2> QED BY <2>2 DEF Inv, TypeOK
<1> QED BY <1>1, <1>2 DEF Indexed, Fd

\* What a statement of a running thread keeps whatever it does to the rooms.
LEMMA Frame ==
    ASSUME Inv, Tracked, NEW c \in Conns, Running(c), NEW t, Moves(c, t), RunningAt(t),
           t.fd = Fd(c), UNCHANGED <<open, clients, nextClientId, corrupted>>,
           NEW x \in RoomIds \cup {NoRoom}, roomOf' = [roomOf EXCEPT ![Fd(c)] = x],
           x # NoRoom => t.at \in {"idle", "sending"} /\ ~t.quitting,
           t.quitting => t.at \in {"leaving", "counting", "deleting", "sending"} \cup Clearing,
           roomCounter' \in 1 .. MaxRooms + 1, roomCounter <= roomCounter',
           t.room < roomCounter', x < roomCounter',
           live' \subseteq RoomIds, \A r \in live' : r < roomCounter',
           rooms' \in [RoomIds -> Room],
           \A r \in Ordered' : Fine(r)'
    PROVE  Inv'
<1>1. /\ thread' \in [Conns -> Thread]
      /\ thread'[c] = t
      /\ \A d \in Conns \ {c} : thread'[d] = thread[d]
  BY MovesProperties DEF Inv
<1>2. \A d \in Conns : Fd(d)' = Fd(d) /\ (Active(d)' <=> Active(d)) /\ (Running(d)' <=> Running(d))
  BY <1>1 DEF Fd, Active, Running, RunningAt
<1>3. Descriptors'
  BY <1>2 DEF Inv, Descriptors, ClientKnown
<1>4. /\ roomOf \in [Fds -> RoomIds \cup {NoRoom}] /\ Fd(c) \in Fds /\ Active(c)
      /\ roomOf' \in [Fds -> RoomIds \cup {NoRoom}]
      /\ roomOf'[Fd(c)] = x /\ \A fd \in Fds \ {Fd(c)} : roomOf'[fd] = roomOf[fd]
  BY Locals DEF Inv, TypeOK
<1>5. TypeOK'
  <2>1. contended' \subseteq RoomIds
    BY DEF Tracked, Contended, Inv, TypeOK
  <2> QED BY <1>1, <1>4, <2>1 DEF Inv, TypeOK
<1>6. IndexOwned'
  <2> SUFFICES ASSUME NEW fd \in Fds, roomOf'[fd] # NoRoom
               PROVE  \E d \in Conns : Fd(d)' = fd /\ thread'[d].at \in {"idle", "sending"}
    BY DEF IndexOwned
  <2>1. CASE fd = Fd(c)
    BY <1>1, <1>2, <1>4, <2>1
  <2>2. CASE fd # Fd(c)
    <3>1. PICK d \in Conns : Fd(d) = fd /\ thread[d].at \in {"idle", "sending"}
      BY <1>4, <2>2 DEF Inv, IndexOwned
    <3> QED BY <1>1, <1>2, <2>2, <3>1
  <2> QED BY <2>1, <2>2
<1>7. Quitting'
  <2> SUFFICES ASSUME NEW d \in Conns, thread'[d].quitting
               PROVE  /\ thread'[d].at \in {"leaving", "counting", "deleting", "sending"} \cup Clearing
                      /\ roomOf'[Fd(d)'] = NoRoom
    BY DEF Quitting
  <2>1. CASE d = c
    BY <1>1, <1>2, <1>4, <2>1
  <2>2. CASE d # c
    <3>1. /\ thread[d].at \in {"leaving", "counting", "deleting", "sending"} \cup Clearing
          /\ roomOf[Fd(d)] = NoRoom
      BY <1>1, <2>2 DEF Inv, Quitting
    <3>2. Active(d)
      BY <3>1 DEF Active, Clearing
    <3>3. Fd(d) # Fd(c) /\ Fd(d) \in Fds
      BY <1>4, <2>2, <3>2, Locals DEF Inv, Descriptors
    <3> QED BY <1>1, <1>2, <1>4, <2>2, <3>1, <3>3
  <2> QED BY <2>1, <2>2
<1>8. NewIds'
  <2>1. \A d \in Conns : thread'[d].room < roomCounter'
    BY <1>1, StepSets DEF Inv, NewIds, TypeOK, Thread, NoRoom
  <2>2. \A fd \in Fds : roomOf'[fd] < roomCounter'
    <3> SUFFICES ASSUME NEW fd \in Fds, fd # Fd(c) PROVE roomOf[fd] < roomCounter'
      BY <1>4
    <3>1. roomOf[fd] \in Nat /\ roomOf[fd] < roomCounter
      BY <1>4, StepSets DEF Inv, NewIds, NoRoom
    <3>2. roomCounter \in Nat /\ roomCounter' \in Nat
      BY DEF Inv, TypeOK
    <3> QED BY <3>1, <3>2
  <2> QED BY <2>1, <2>2 DEF NewIds
<1>9. Recorded'
  BY DEF Tracked, Recorded
<1> QED BY <1>3, <1>5, <1>6, <1>7, <1>8, <1>9 DEF Inv
-----------------------------------------------------------------------------
(* A room and the threads in it.                                             *)

\* The statements at which a thread counts for Fine.
Inside == Seated \cup {"occupying", "leaving"} \cup Deleting

\* The step leaves the place of thread d in room r as it is.
Same(d, r) ==
    /\ Indexed(d, r)' <=> Indexed(d, r)
    /\ Indexed(d, r) => Fd(d)' = Fd(d)
    /\ \/ thread'[d] = thread[d]
       \/ ~Doing(d, r, Inside) /\ ~Doing(d, r, Inside)'

LEMMA SitsKept ==
    ASSUME NEW d \in Conns, NEW r, NEW i, Same(d, r), rooms'[r].slots[i] = rooms[r].slots[i]
    PROVE  /\ Sits(d, r, i)' <=> Sits(d, r, i)
           /\ Holder(d, r)' <=> Holder(d, r)
BY DEF Same, Sits, Holder, Doing, Fd, Inside, Seated, Indexed

\* A step elsewhere: the room and the places of all threads in it are as before.
LEMMA FineKept ==
    ASSUME NEW r, Fine(r), rooms'[r] = rooms[r], \A d \in Conns : Same(d, r)
    PROVE  Fine(r)'
<1>1. \A d \in Conns : \A i \in SlotIdx :
          (Sits(d, r, i)' <=> Sits(d, r, i)) /\ (Holder(d, r)' <=> Holder(d, r))
  BY SitsKept
<1>2. Occupied(rooms[r])' = Occupied(rooms[r]) /\ Occupied(rooms[r]) \subseteq SlotIdx
  BY DEF Occupied
<1>3. Seats(r)'
  <2>1. \A i \in Occupied(rooms[r])' : \E c \in Conns : Sits(c, r, i)'
    BY <1>1, <1>2 DEF Fine, Seats
  <2>2. \A c \in Conns : Holder(c, r)' =>
           \E i \in Occupied(rooms[r])' :
               Sits(c, r, i)' /\ \A j \in Occupied(rooms[r])' : Sits(c, r, j)' => j = i
    <3> SUFFICES ASSUME NEW c \in Conns, Holder(c, r)'
                 PROVE  \E i \in Occupied(rooms[r])' :
                           Sits(c, r, i)' /\ \A j \in Occupied(rooms[r])' : Sits(c, r, j)' => j = i
      OBVIOUS
    <3>1. Holder(c, r)
      <4>1. 0 \in SlotIdx
        BY StepSets
      <4> QED BY <1>1, <4>1
    <3>2. PICK i \in Occupied(rooms[r]) :
              Sits(c, r, i) /\ \A j \in Occupied(rooms[r]) : Sits(c, r, j) => j = i
      BY <3>1 DEF Fine, Seats
    <3> QED BY <1>1, <1>2, <3>2
  <2> QED BY <2>1, <2>2 DEF Seats
<1>4. \A d \in Conns : \A S \in SUBSET Inside :
          /\ Doing(d, r, S)' <=> Doing(d, r, S)
          /\ Doing(d, r, S) => thread'[d] = thread[d]
  BY DEF Same, Doing
<1>5. FreeSlots(r)'
  <2>1. {"clearingFd"} \in SUBSET Inside /\ {"occupying", "clearingFd", "clearingId"} \in SUBSET Inside
    BY DEF Inside, Deleting
  <2> QED BY <1>2, <1>4, <2>1 DEF Fine, FreeSlots
<1>6. Host(r)'
  <2>1. /\ Writing \ {"occupying", "vacating"} \in SUBSET Inside
        /\ {"writingFd", "writingId", "testingHost"} \in SUBSET Inside
        /\ {"electing"} \in SUBSET Inside
    BY DEF Inside, Deleting, Seated, Writing, Filling, Clearing
  <2> QED BY <1>2, <1>4, <2>1 DEF Fine, Host, HostOK
<1>7. Leak(r)'
  <2>1. Deleting \in SUBSET Inside
    BY DEF Inside
  <2> QED BY <1>2, <1>4, <2>1 DEF Fine, Leak
<1> QED BY <1>3, <1>5, <1>6, <1>7 DEF Fine

\* While two threads never write an ordered room at once, a writer is alone.
LEMMA Alone ==
    ASSUME Inv, NEW r \in Ordered, NEW c \in Conns, Writes(c, r)
    PROVE  \A d \in Conns \ {c} : ~Doing(d, r, Writing)
BY DEF Inv, Recorded, Contended, Ordered, Writes, Doing, TypeOK

LEMMA AloneNext ==
    ASSUME Tracked, NEW r \in Ordered', r \in RoomIds, NEW c \in Conns, Writes(c, r)'
    PROVE  \A d \in Conns \ {c} : ~Doing(d, r, Writing)'
BY DEF Tracked, Contended, Ordered, Writes, Doing

\* A slot is of one thread.
LEMMA OneOwner ==
    ASSUME Inv, NEW r \in Ordered, NEW c \in Conns, NEW d \in Conns, NEW i,
           Sits(c, r, i), Sits(d, r, i)
    PROVE  c = d
<1>1. Active(c) /\ Active(d)
  BY DEF Sits, Holder, Indexed, Doing, Seated, Active
<1>2. CASE Doing(c, r, {"writingFd"}) /\ Doing(d, r, {"writingFd"})
  <2>1. Writes(c, r) /\ Doing(d, r, Writing)
    BY <1>2 DEF Doing, Writes, Writing, Filling
  <2> QED BY <2>1, Alone
<1>3. CASE ~(Doing(c, r, {"writingFd"}) /\ Doing(d, r, {"writingFd"}))
  <2>1. Fd(c) = Fd(d)
    BY <1>1, <1>3, Locals DEF Sits
  <2> QED BY <1>1, <2>1 DEF Inv, Descriptors
<1> QED BY <1>2, <1>3

\* A slot that is not that of c does not show its descriptor.
LEMMA OthersSlots ==
    ASSUME Inv, NEW r \in Ordered, NEW c \in Conns, Active(c),
           NEW i \in Occupied(rooms[r]), ~Sits(c, r, i)
    PROVE  rooms[r].slots[i].fd # Fd(c)
<1>1. PICK d \in Conns : Sits(d, r, i)
  BY DEF Inv, Fine, Seats
<1>2. Active(d) /\ c # d
  BY <1>1 DEF Sits, Holder, Indexed, Doing, Seated, Active
<1>3. Fd(d) # Fd(c) /\ Fd(c) # NoFd
  BY <1>2, Locals DEF Inv, Descriptors
<1> QED BY <1>1, <1>3 DEF Sits

\* A step of c that changes at most slot k, which was free or its own: the others
\* keep their seats, and c has slot k or none.
LEMMA SeatsStep ==
    ASSUME Inv, NEW r \in Ordered, NEW c \in Conns, NEW k \in SlotIdx, Active(c), Fd(c)' = Fd(c),
           \A d \in Conns \ {c} : Same(d, r),
           \A i \in SlotIdx \ {k} : rooms'[r].slots[i] = rooms[r].slots[i],
           k \in Occupied(rooms[r]) => Sits(c, r, k),
           \A i \in Occupied(rooms[r]) \ {k} : ~Sits(c, r, i),
           k \in Occupied(rooms[r])' <=> Holder(c, r)',
           Holder(c, r)' => Sits(c, r, k)'
    PROVE  Seats(r)'
<1> DEFINE Occ == Occupied(rooms[r])
<1>1. Occ \subseteq SlotIdx /\ Occ' \subseteq SlotIdx /\ \A i \in SlotIdx \ {k} : i \in Occ' <=> i \in Occ
  BY DEF Occupied
<1>2. \A d \in Conns \ {c} : \A i \in SlotIdx \ {k} :
          (Sits(d, r, i)' <=> Sits(d, r, i)) /\ (Holder(d, r)' <=> Holder(d, r))
  BY SitsKept
<1>3. \A i \in Occ' \ {k} : ~Sits(c, r, i)'
  <2> SUFFICES ASSUME NEW i \in Occ', i # k PROVE ~Sits(c, r, i)'
    OBVIOUS
  <2>1. i \in Occ /\ rooms'[r].slots[i] = rooms[r].slots[i]
    BY <1>1
  <2> HIDE DEF Occ
  <2>2. rooms'[r].slots[i].fd # Fd(c)'
    BY <2>1, OthersSlots DEF Occ
  <2>3. CASE Doing(c, r, {"writingFd"})'
    <3>1. thread'[c].slot = k
      BY <2>3 DEF Holder, Doing, Sits, Seated
    <3> QED BY <2>3, <3>1 DEF Sits, Doing, Seated
  <2>4. CASE ~Doing(c, r, {"writingFd"})'
    BY <2>2, <2>4 DEF Sits
  <2> QED BY <2>3, <2>4
<1> HIDE DEF Occ
<1>4. ASSUME NEW i \in Occ' PROVE \E d \in Conns : Sits(d, r, i)'
  <2>1. CASE i = k
    BY <1>4, <2>1 DEF Occ
  <2>2. CASE i # k
    <3>1. i \in Occ /\ i \in SlotIdx
      BY <1>1, <1>4, <2>2
    <3>2. PICK d \in Conns : Sits(d, r, i)
      BY <3>1 DEF Inv, Fine, Seats, Occ
    <3>3. d # c
      BY <2>2, <3>1, <3>2 DEF Occ
    <3> QED BY <1>2, <2>2, <3>1, <3>2, <3>3
  <2> QED BY <2>1, <2>2
<1>5. ASSUME NEW d \in Conns, Holder(d, r)'
      PROVE  \E i \in Occ' : Sits(d, r, i)' /\ \A j \in Occ' : Sits(d, r, j)' => j = i
  <2>1. CASE d = c
    BY <1>3, <1>5, <2>1 DEF Occ
  <2>2. CASE d # c
    <3>1. Holder(d, r)
      BY <1>5, <2>2, SitsKept, StepSets DEF Same, Holder, Doing, Inside, Seated
    <3>2. PICK i \in Occ : Sits(d, r, i) /\ \A j \in Occ : Sits(d, r, j) => j = i
      BY <3>1 DEF Inv, Fine, Seats, Occ
    <3>3. i # k
      BY <2>2, <3>2, OneOwner DEF Occ
    <3>4. Active(d) /\ Fd(d)' = Fd(d) /\ Fd(d) # Fd(c) /\ Fd(d) # NoFd
      <4>1. Active(d) /\ Fd(d)' = Fd(d)
        BY <2>2, <3>1 DEF Same, Holder, Indexed, Doing, Active, Seated, Inside, Fd
      <4> QED BY <2>2, <4>1, Locals DEF Inv, Descriptors, Same
    <3>5. ASSUME k \in Occ', Sits(d, r, k)' PROVE FALSE
      <4>1. Sits(c, r, k)'
        BY <3>5 DEF Occ
      <4>2. CASE Doing(d, r, {"writingFd"})'
        <5>1. thread'[d].slot = k
          BY <3>5, <4>2 DEF Sits, Doing, Seated
        <5>2. thread'[d] = thread[d]
          BY <2>2, <4>2 DEF Same, Doing, Inside, Seated
        <5>3. thread[d].slot = i
          BY <3>2, <4>2, <5>2 DEF Sits, Doing, Seated
        <5> QED BY <3>3, <5>1, <5>2, <5>3
      <4>3. CASE ~Doing(d, r, {"writingFd"})'
        <5>1. rooms'[r].slots[k].fd = Fd(d)
          BY <3>4, <3>5, <4>3 DEF Sits
        <5>2. rooms'[r].slots[k].fd \in {Fd(c), NoFd}
          BY <4>1 DEF Sits
        <5> QED BY <3>4, <5>1, <5>2
      <4> QED BY <4>2, <4>3
    <3> QED BY <1>1, <1>2, <2>2, <3>2, <3>3, <3>5
  <2> QED BY <2>1, <2>2
<1> QED BY <1>4, <1>5 DEF Seats, Occ

\* In a room in which c has no place before and after its step, nothing changes.
LEMMA Elsewhere ==
    ASSUME Inv, NEW c \in Conns, Active(c), NEW t, Moves(c, t), t.fd = Fd(c),
           NEW x \in RoomIds \cup {NoRoom}, roomOf' = [roomOf EXCEPT ![Fd(c)] = x],
           NEW r \in Ordered, rooms'[r] = rooms[r],
           ~Doing(c, r, Inside), ~(t.at \in Inside /\ t.room = r),
           Indexed(c, r) <=> t.at \in {"idle", "sending"} /\ x = r
    PROVE  Fine(r)'
<1>1. thread'[c] = t /\ \A d \in Conns \ {c} : thread'[d] = thread[d] /\ Fd(d)' = Fd(d)
  BY MovesProperties DEF Inv, Fd
<1>2. \A d \in Conns \ {c} : Same(d, r)
  BY <1>1, OthersIndexed DEF Same
<1>3. roomOf'[Fd(c)] = x /\ Fd(c)' = Fd(c)
  BY <1>1, Locals DEF Inv, TypeOK, Fd
<1>4. Same(c, r)
  BY <1>1, <1>3 DEF Same, Doing, Indexed
<1> QED BY <1>2, <1>4, FineKept DEF Inv

LEMMA OrderedKept ==
    ASSUME Inv, Tracked, live' \subseteq live
    PROVE  /\ Ordered' \subseteq Ordered /\ Ordered \subseteq RoomIds
           /\ live' \subseteq RoomIds /\ \A r \in live' : r < roomCounter
BY DEF Inv, Tracked, Ordered, TypeOK, NewIds

\* A statement that changes nothing but the thread's locals, and is not one of those
\* that bind the thread to a room.
LEMMA OutsideStep ==
    ASSUME Inv, Tracked, NEW c \in Conns, Running(c), NEW t, Moves(c, t), RunningAt(t),
           t.fd = Fd(c), UNCHANGED <<maps, rooms>>,
           thread[c].at \notin Inside, t.at \notin Inside,
           roomOf[Fd(c)] # NoRoom => t.at \in {"idle", "sending"} /\ ~t.quitting,
           t.quitting => t.at = "sending",
           t.room < roomCounter
    PROVE  Inv'
<1> DEFINE x == roomOf[Fd(c)]
<1>1. Active(c) /\ Fd(c) \in Fds /\ x \in RoomIds \cup {NoRoom} /\ x < roomCounter
  BY Locals DEF Inv, NewIds
<1>2. /\ UNCHANGED <<open, clients, nextClientId, live, roomCounter, corrupted>>
      /\ roomOf' = [roomOf EXCEPT ![Fd(c)] = x]
      /\ roomCounter \in 1 .. MaxRooms + 1 /\ rooms' \in [RoomIds -> Room]
      /\ rooms' = rooms
  BY DEF maps, Inv, TypeOK
<1>3. \A r \in Ordered' : Fine(r)'
  <2> SUFFICES ASSUME NEW r \in Ordered' PROVE Fine(r)'
    OBVIOUS
  <2>1. r \in Ordered /\ r \in RoomIds
    BY <1>2, OrderedKept
  <2>2. Indexed(c, r) <=> x = r
    <3>1. x = r => thread[c].at \in {"idle", "sending"}
      BY <1>1, <2>1, NotIndexed, StepSets DEF NoRoom
    <3> QED BY <3>1 DEF Indexed
  <2>3. Indexed(c, r) <=> t.at \in {"idle", "sending"} /\ x = r
    BY <2>1, <2>2, StepSets DEF NoRoom
  <2>4. ~Doing(c, r, Inside)
    BY DEF Doing
  <2> HIDE DEF x
  <2> QED BY <1>1, <1>2, <2>1, <2>3, <2>4, Elsewhere
<1> HIDE DEF x
<1>4. live' \subseteq RoomIds /\ \A r \in live' : r < roomCounter'
  BY <1>2, OrderedKept
<1>5. /\ roomCounter <= roomCounter' /\ roomCounter' \in 1 .. MaxRooms + 1
      /\ t.room < roomCounter' /\ x < roomCounter'
      /\ x # NoRoom => t.at \in {"idle", "sending"} /\ ~t.quitting
      /\ t.quitting => t.at \in {"leaving", "counting", "deleting", "sending"} \cup Clearing
  BY <1>1, <1>2 DEF x
<1> QED BY <1>1, <1>2, <1>3, <1>4, <1>5, Frame

\* A statement of a thread in its room, without an entry in fd_to_room_.
LEMMA RoomStep ==
    ASSUME Inv, Tracked, NEW c \in Conns, Running(c), NEW t, Moves(c, t), RunningAt(t),
           NEW r \in live, r = thread[c].room,
           t.fd = Fd(c), t.room = r, t.quitting = thread[c].quitting,
           thread[c].at \notin {"idle", "sending"},
           t.quitting => t.at \in {"leaving", "counting", "deleting", "sending"} \cup Clearing,
           UNCHANGED maps, NEW new \in Room, rooms' = [rooms EXCEPT ![r] = new],
           r \in Ordered' => Fine(r)'
    PROVE  Inv'
<1>1. Active(c) /\ Fd(c) \in Fds /\ roomOf[Fd(c)] = NoRoom
  BY Locals, NotIndexed
<1>2. /\ UNCHANGED <<open, clients, nextClientId, live, roomCounter, corrupted>>
      /\ roomOf' = [roomOf EXCEPT ![Fd(c)] = NoRoom] /\ NoRoom \in RoomIds \cup {NoRoom}
      /\ roomCounter \in 1 .. MaxRooms + 1 /\ NoRoom < roomCounter
      /\ r < roomCounter /\ r \in RoomIds
      /\ rooms' \in [RoomIds -> Room]
      /\ \A s \in RoomIds \ {r} : rooms'[s] = rooms[s]
  BY <1>1 DEF maps, Inv, TypeOK, NewIds, NoRoom
<1>3. \A s \in Ordered' : Fine(s)'
  <2> SUFFICES ASSUME NEW s \in Ordered', s # r PROVE Fine(s)'
    OBVIOUS
  <2>1. s \in Ordered /\ s \in RoomIds
    BY <1>2, OrderedKept
  <2>2. ~Indexed(c, s) /\ ~Doing(c, s, Inside) /\ rooms'[s] = rooms[s] /\ NoRoom # s
    BY <1>2, <2>1, StepSets DEF Indexed, Doing, NoRoom
  <2> QED BY <1>1, <1>2, <2>1, <2>2, Elsewhere
<1>4. live' \subseteq RoomIds /\ \A s \in live' : s < roomCounter'
  BY <1>2, OrderedKept
<1>5. roomCounter <= roomCounter' /\ roomCounter' \in 1 .. MaxRooms + 1
      /\ t.room < roomCounter' /\ NoRoom < roomCounter'
  BY <1>2
<1> QED BY <1>1, <1>2, <1>3, <1>4, <1>5, Frame

\* What a statement of a thread in its room finds there, when the room is ordered.
LEMMA InsideStep ==
    ASSUME Inv, Tracked, NEW c \in Conns, Running(c), NEW t, Moves(c, t), RunningAt(t),
           t.fd = Fd(c), thread[c].at \notin {"idle", "sending"},
           NEW r \in Ordered', live' = live, roomOf' = roomOf, rooms' \in [RoomIds -> Room]
    PROVE  /\ r \in Ordered /\ r \in RoomIds /\ Fine(r)
           /\ rooms[r] \in Room /\ rooms'[r] \in Room
           /\ Active(c) /\ Fd(c)' = Fd(c) /\ thread'[c] = t
           /\ ~Indexed(c, r) /\ ~Indexed(c, r)'
           /\ \A d \in Conns \ {c} : Same(d, r) /\ thread'[d] = thread[d]
           /\ Writes(c, r) \/ Writes(c, r)' => \A d \in Conns \ {c} : ~Doing(d, r, Writing)
<1>1. r \in Ordered /\ r \in RoomIds /\ Fine(r) /\ rooms[r] \in Room /\ rooms'[r] \in Room
  BY OrderedKept DEF Inv, TypeOK
<1>2. /\ thread'[c] = t /\ Fd(c)' = Fd(c)
      /\ \A d \in Conns \ {c} : thread'[d] = thread[d] /\ Fd(d)' = Fd(d)
  BY MovesProperties DEF Inv, Fd
<1>3. Active(c) /\ roomOf[Fd(c)] = NoRoom /\ NoRoom # r
  BY <1>1, Locals, NotIndexed, StepSets DEF NoRoom
<1>4. \A d \in Conns \ {c} : Same(d, r)
  BY <1>2 DEF Same, Indexed
<1>5. Writes(c, r) \/ Writes(c, r)' => \A d \in Conns \ {c} : ~Doing(d, r, Writing)
  <2>1. CASE Writes(c, r)
    BY <1>1, <2>1, Alone
  <2>2. CASE Writes(c, r)'
    BY <1>1, <1>2, <2>2, AloneNext DEF Doing
  <2> QED BY <2>1, <2>2
<1> QED BY <1>1, <1>2, <1>3, <1>4, <1>5 DEF Indexed

\* What a thread at statement step, with slot k, finds in its room when it writes
\* alone: Fine, for one thread.
RoomFor(step, k, rm) ==
    /\ \A i \in SlotIdx \ Occupied(rm) :
           rm.slots[i].fd = NoFd \/ (step = "clearingFd" /\ k = i)
    /\ step \in {"occupying", "clearingFd", "clearingId"} => k \notin Occupied(rm)
    /\ step \notin Writing \ {"occupying", "vacating"} => HostOK(rm)
    /\ step \in {"writingFd", "writingId", "testingHost"} => rm.host \in Occupied(rm) \cup {NoHost}
    /\ step = "electing" => rm.host = NoHost /\ \A i \in Occupied(rm) : k <= i

LEMMA WriterFinds ==
    ASSUME NEW r, Fine(r), NEW c \in Conns, thread[c].room = r,
           \A d \in Conns \ {c} : ~Doing(d, r, Writing)
    PROVE  RoomFor(thread[c].at, thread[c].slot, rooms[r])
<1>1. \A d \in Conns : \A S \in SUBSET Writing : Doing(d, r, S) => d = c /\ thread[c].at \in S
  BY DEF Doing
<1>2. /\ {"clearingFd"} \in SUBSET Writing
      /\ Writing \ {"occupying", "vacating"} \in SUBSET Writing
  BY DEF Writing, Clearing
<1>3. \A i \in SlotIdx \ Occupied(rooms[r]) :
          rooms[r].slots[i].fd = NoFd \/ (thread[c].at = "clearingFd" /\ thread[c].slot = i)
  BY <1>1, <1>2 DEF Fine, FreeSlots
<1>4. thread[c].at \notin Writing \ {"occupying", "vacating"} => HostOK(rooms[r])
  BY <1>1, <1>2 DEF Fine, Host
<1>5. \A S : thread[c].at \in S => Doing(c, r, S)
  BY DEF Doing
<1> QED BY <1>3, <1>4, <1>5 DEF RoomFor, Fine, Host, FreeSlots

LEMMA WriterLeaves ==
    ASSUME NEW r, NEW c \in Conns, NEW t, thread'[c] = t, t.room = r,
           Fine(r), Seats(r)', RoomFor(t.at, t.slot, rooms'[r]),
           \A d \in Conns \ {c} : ~Doing(d, r, Writing) /\ thread'[d] = thread[d],
           Occupied(rooms'[r]) = {} =>
               t.at \in Deleting \/ (Occupied(rooms[r]) = {} /\ thread[c].at \notin Deleting)
    PROVE  Fine(r)'
<1>1. \A d \in Conns : \A S \in SUBSET Writing : Doing(d, r, S)' => d = c /\ t.at \in S
  BY DEF Doing
<1>2. \A S : t.at \in S => Doing(c, r, S)'
  BY DEF Doing
<1>3. Occupied(rooms[r])' = Occupied(rooms'[r])
  BY DEF Occupied
<1>4. FreeSlots(r)'
  <2>1. {"clearingFd"} \in SUBSET Writing /\ {"occupying", "clearingFd", "clearingId"} \in SUBSET Writing
    BY DEF Writing, Clearing, Filling
  <2>2. \A d \in Conns : Doing(d, r, {"occupying", "clearingFd", "clearingId"})' =>
            thread'[d].slot \notin Occupied(rooms'[r])
    BY <1>1, <2>1 DEF RoomFor
  <2>3. \A i \in SlotIdx \ Occupied(rooms'[r]) :
           \/ rooms'[r].slots[i].fd = NoFd
           \/ \E d \in Conns : Doing(d, r, {"clearingFd"})' /\ thread'[d].slot = i
    BY <1>2 DEF RoomFor
  <2> QED BY <1>3, <2>2, <2>3 DEF FreeSlots
<1>5. Host(r)'
  <2>1. /\ {"writingFd", "writingId", "testingHost"} \in SUBSET Writing
        /\ {"electing"} \in SUBSET Writing
    BY DEF Writing, Clearing, Filling
  <2>2. (\A d \in Conns : ~Doing(d, r, Writing \ {"occupying", "vacating"})') => HostOK(rooms'[r])
    BY <1>2 DEF RoomFor
  <2> QED BY <1>1, <1>3, <2>1, <2>2 DEF Host, RoomFor, HostOK
<1>6. Leak(r)'
  <2> SUFFICES ASSUME Occupied(rooms'[r]) = {} PROVE \E d \in Conns : Doing(d, r, Deleting)'
    BY <1>3 DEF Leak
  <2>1. CASE t.at \in Deleting
    BY <1>2, <2>1
  <2>2. CASE Occupied(rooms[r]) = {} /\ thread[c].at \notin Deleting
    <3>1. PICK d \in Conns : Doing(d, r, Deleting)
      BY <2>2 DEF Fine, Leak
    <3> QED BY <2>2, <3>1 DEF Doing
  <2> QED BY <2>1, <2>2
<1> QED BY <1>4, <1>5, <1>6 DEF Fine

LEMMA OwnSeat ==
    ASSUME Inv, NEW r \in Ordered, NEW c \in Conns, Holder(c, r)
    PROVE  \E k \in Occupied(rooms[r]) :
               /\ Sits(c, r, k)
               /\ \A i \in Occupied(rooms[r]) \ {k} : ~Sits(c, r, i)
               /\ Doing(c, r, Seated) => k = thread[c].slot
BY DEF Inv, Fine, Seats, Sits

-----------------------------------------------------------------------------
(* Statements that bind no thread to a room.                                 *)

LEMMA Returns ==
    ASSUME Inv, NEW c \in Conns, Active(c), Return(c)
    PROVE  \E t : /\ Moves(c, t)
                  /\ t.fd = Fd(c) /\ t.room = NoRoom /\ ~t.quitting
                  /\ t.at = IF thread[c].quitting THEN "erasing" ELSE "idle"
<1> DEFINE t == [NoThread EXCEPT !.fd = Fd(c), !.at = IF thread[c].quitting THEN "erasing" ELSE "idle"]
<1>1. Moves(c, t)
  BY Locals, StepSets DEF Return, Moves, Thread, Steps
<1>2. /\ t.fd = Fd(c) /\ t.room = NoRoom /\ ~t.quitting
      /\ t.at = IF thread[c].quitting THEN "erasing" ELSE "idle"
  BY DEF NoThread
<1> HIDE DEF t
<1> QED BY <1>1, <1>2

\* A thread that goes on to statement step, with slot i.
Goes(c, step, i) == thread' = [thread EXCEPT ![c].at = step, ![c].slot = i]

Arrives(c, t, step, i) ==
    /\ Moves(c, t)
    /\ t.fd = Fd(c) /\ t.room = thread[c].room /\ t.quitting = thread[c].quitting
    /\ t.at = step /\ t.slot = i

LEMMA GoesArrives ==
    ASSUME Inv, NEW c \in Conns, NEW step \in Steps, NEW i \in SlotIdx, Goes(c, step, i)
    PROVE  \E t : Arrives(c, t, step, i)
<1> DEFINE t == [thread[c] EXCEPT !.at = step, !.slot = i]
<1>1. thread[c] \in Thread /\ thread \in [Conns -> Thread]
  BY DEF Inv, TypeOK
<1>2. t \in Thread /\ thread' = [thread EXCEPT ![c] = t]
  BY <1>1 DEF Thread, Goes
<1>3. /\ t.fd = Fd(c) /\ t.room = thread[c].room /\ t.quitting = thread[c].quitting
      /\ t.at = step /\ t.slot = i
  BY <1>1 DEF Thread, Fd
<1> HIDE DEF t
<1> QED BY <1>2, <1>3 DEF Moves, Arrives

LEMMA GoGoes ==
    ASSUME Inv, NEW c \in Conns, NEW step, Go(c, step)
    PROVE  Goes(c, step, thread[c].slot) /\ thread[c].slot \in SlotIdx
<1>1. thread[c] \in Thread /\ thread \in [Conns -> Thread]
  BY DEF Inv, TypeOK
<1> QED BY <1>1 DEF Go, Goes, Thread

LEMMA LoopGoes ==
    ASSUME NEW c \in Conns, NEW step, Loop(c, step)
    PROVE  Goes(c, step, 0) /\ 0 \in SlotIdx
BY StepSets DEF Loop, Goes

LEMMA NextSlotGoes ==
    ASSUME Inv, NEW c \in Conns, NextSlot(c)
    PROVE  /\ Goes(c, thread[c].at, thread[c].slot + 1)
           /\ thread[c].slot + 1 \in SlotIdx /\ thread[c].at \in Steps
<1>1. thread[c] \in Thread /\ thread \in [Conns -> Thread]
  BY DEF Inv, TypeOK
<1>2. thread[c].slot + 1 \in SlotIdx
  <2>1. thread[c].slot \in 0 .. NumSlots - 1 /\ thread[c].slot # NumSlots - 1
    BY <1>1 DEF NextSlot, LastSlot, Thread, SlotIdx
  <2> QED BY <2>1, ThreadsAssumption DEF SlotIdx
<1>3. thread[c].at \in Steps
  BY <1>1 DEF Thread
<1>4. [thread[c] EXCEPT !.slot = thread[c].slot + 1]
        = [thread[c] EXCEPT !.at = thread[c].at, !.slot = thread[c].slot + 1]
  BY <1>1 DEF Thread
<1> QED BY <1>1, <1>2, <1>3, <1>4 DEF NextSlot, Goes

LEMMA JoinRoomStep ==
    ASSUME Inv, Tracked, NEW c \in Conns, NEW r \in RoomIds, JoinRoom(c, r)
    PROVE  Inv'
<1> DEFINE t == [thread[c] EXCEPT !.at = "joining", !.room = r, !.slot = 0]
<1>1. Running(c) /\ Active(c) /\ thread[c].at = "idle" /\ thread[c] \in Thread
  BY Locals DEF JoinRoom, Running, Active, At
<1>2. ~thread[c].quitting
  BY <1>1 DEF Inv, Quitting, Clearing
<1>3. t \in Thread /\ t.at = "joining" /\ t.fd = Fd(c) /\ t.room = r /\ ~t.quitting
  BY <1>1, <1>2, StepSets DEF Thread, Steps, UsesRoom, Fd
<1>4. Moves(c, t)
  BY <1>3 DEF JoinRoom, Moves, Inv, TypeOK
<1>5. r < roomCounter /\ roomOf[Fd(c)] = NoRoom
  BY DEF JoinRoom, Inv, NewIds
<1>6. "joining" \notin Inside /\ "idle" \notin Inside
  BY DEF Inside, Seated, Deleting
<1> HIDE DEF t
<1> QED BY <1>1, <1>3, <1>4, <1>5, <1>6, OutsideStep DEF JoinRoom, RunningAt

\* The room is looked up in fd_to_room_, and stays there.
LEMMA LookUpRoomStep ==
    ASSUME Inv, Tracked, NEW c \in Conns, LookUpRoom(c)
    PROVE  Inv'
<1> DEFINE t == [thread[c] EXCEPT !.at = "sending", !.room = roomOf[Fd(c)]]
<1>1. Running(c) /\ Active(c) /\ thread[c].at = "idle" /\ thread[c] \in Thread
      /\ roomOf[Fd(c)] \in RoomIds \cup {NoRoom} /\ Fd(c) \in Fds
  BY Locals DEF LookUpRoom, Running, Active, At
<1>2. ~thread[c].quitting
  BY <1>1 DEF Inv, Quitting, Clearing
<1>3. t \in Thread /\ t.at = "sending" /\ t.fd = Fd(c) /\ t.room = roomOf[Fd(c)] /\ ~t.quitting
  BY <1>1, <1>2 DEF Thread, Steps, UsesRoom, Fd
<1>4. Moves(c, t)
  BY <1>3 DEF LookUpRoom, Moves, Inv, TypeOK
<1>5. roomOf[Fd(c)] < roomCounter
  BY <1>1 DEF Inv, NewIds
<1>6. "sending" \notin Inside /\ "idle" \notin Inside
  BY DEF Inside, Seated, Deleting
<1> HIDE DEF t
<1> QED BY <1>1, <1>3, <1>4, <1>5, <1>6, OutsideStep DEF LookUpRoom, RunningAt

LEMMA ReturnStep ==
    ASSUME Inv, Tracked, NEW c \in Conns, Running(c), thread[c].at \in {"joining", "sending"},
           Return(c), UNCHANGED <<maps, rooms>>
    PROVE  Inv'
<1>1. Active(c)
  BY Locals
<1>2. PICK t : /\ Moves(c, t)
               /\ t.fd = Fd(c) /\ t.room = NoRoom /\ ~t.quitting
               /\ t.at = IF thread[c].quitting THEN "erasing" ELSE "idle"
  BY <1>1, Returns
<1>3. thread[c].quitting => roomOf[Fd(c)] = NoRoom
  BY DEF Inv, Quitting
<1>4. NoRoom < roomCounter
  BY DEF Inv, TypeOK, NoRoom
<1>5. /\ thread[c].at \notin Inside /\ t.at \notin Inside /\ RunningAt(t)
      /\ roomOf[Fd(c)] # NoRoom => t.at \in {"idle", "sending"} /\ ~t.quitting
  BY <1>2, <1>3 DEF Inside, Seated, Deleting, RunningAt
<1> QED BY <1>2, <1>4, <1>5, OutsideStep

LEMMA SendStateStep ==
    ASSUME Inv, Tracked, NEW c \in Conns, SendState(c)
    PROVE  Inv'
BY ReturnStep DEF SendState, InRoom, At, Running

\* A loop of a thread that is in no room goes on, or the thread ends.
LEMMA SearchStep ==
    ASSUME Inv, Tracked, NEW c \in Conns, Running(c), NEW step \in Steps, NEW i \in SlotIdx,
           Goes(c, step, i), thread[c].at \notin Inside, step \in {"joining", "erasing"},
           roomOf[Fd(c)] = NoRoom, ~thread[c].quitting, UNCHANGED <<maps, rooms>>
    PROVE  Inv'
<1>1. PICK t : Arrives(c, t, step, i)
  BY GoesArrives
<1>2. t.at \notin Inside /\ RunningAt(t) /\ t.room < roomCounter /\ ~t.quitting
  BY <1>1 DEF Arrives, Inside, Seated, Deleting, RunningAt, Inv, NewIds
<1> QED BY <1>1, <1>2, OutsideStep DEF Arrives

-----------------------------------------------------------------------------
(* Writing a room.                                                           *)

\* The seat of c in slot k, as far as it is filled when c is at step.
SeatAt(c, step, k, rm) ==
    /\ rm.slots[k].fd = IF step = "writingFd" THEN NoFd ELSE Fd(c)
    /\ step \in {"writingFd", "writingId"} \/ rm.slots[k].cid = c

\* A writer, or a thread that becomes one, in an ordered room.
LEMMA WriterContext ==
    ASSUME Inv, Tracked, NEW c \in Conns, NEW r \in live, NEW k \in SlotIdx, NEW t,
           thread[c].room = r, thread[c].slot = k, Running(c),
           thread[c].at \notin {"idle", "sending"}, RunningAt(t),
           Moves(c, t), t.fd = Fd(c), t.room = r,
           thread[c].at \in Writing \/ t.at \in Writing, UNCHANGED maps,
           rooms' \in [RoomIds -> Room], r \in Ordered'
    PROVE  /\ r \in Ordered /\ r \in RoomIds /\ Fine(r) /\ rooms[r] \in Room
           /\ Active(c) /\ Fd(c) # NoFd /\ clients[Fd(c)] = c
           /\ Fd(c)' = Fd(c) /\ thread'[c] = t
           /\ ~Indexed(c, r) /\ ~Indexed(c, r)'
           /\ \A d \in Conns \ {c} : Same(d, r) /\ thread'[d] = thread[d] /\ ~Doing(d, r, Writing)
           /\ RoomFor(thread[c].at, k, rooms[r])
           /\ thread[c].at \in Seated =>
                  k \in Occupied(rooms[r]) /\ Sits(c, r, k) /\ SeatAt(c, thread[c].at, k, rooms[r])
<1>1. live' = live /\ roomOf' = roomOf
  BY DEF maps
<1>2. /\ r \in Ordered /\ r \in RoomIds /\ Fine(r) /\ rooms[r] \in Room
      /\ Active(c) /\ Fd(c)' = Fd(c) /\ thread'[c] = t
      /\ ~Indexed(c, r) /\ ~Indexed(c, r)'
      /\ \A d \in Conns \ {c} : Same(d, r) /\ thread'[d] = thread[d]
      /\ Writes(c, r) \/ Writes(c, r)' => \A d \in Conns \ {c} : ~Doing(d, r, Writing)
  BY <1>1, InsideStep
<1>3. \A d \in Conns \ {c} : ~Doing(d, r, Writing)
  BY <1>2 DEF Writes
<1>4. RoomFor(thread[c].at, k, rooms[r])
  BY <1>2, <1>3, WriterFinds
<1>5. ASSUME thread[c].at \in Seated
      PROVE  k \in Occupied(rooms[r]) /\ Sits(c, r, k) /\ SeatAt(c, thread[c].at, k, rooms[r])
  <2>1. Holder(c, r) /\ Doing(c, r, Seated)
    BY <1>5 DEF Holder, Doing
  <2>2. k \in Occupied(rooms[r]) /\ Sits(c, r, k)
    BY <1>2, <2>1, OwnSeat
  <2> QED BY <2>2 DEF Sits, SeatAt, Doing
<1> QED BY <1>2, <1>3, <1>4, <1>5, Locals

\* A thread that has slot k or nothing, and goes to t, leaves new as its room.
Leaves(c, r, k, t, new) ==
    /\ RoomFor(t.at, t.slot, new)
    /\ k \in Occupied(rooms[r]) => Sits(c, r, k)
    /\ \A i \in Occupied(rooms[r]) \ {k} : ~Sits(c, r, i)
    /\ k \in Occupied(new) <=> t.at \in Seated
    /\ t.at \in Seated => t.slot = k /\ SeatAt(c, t.at, k, new)
    /\ Occupied(new) = {} =>
           t.at \in Deleting \/ (Occupied(rooms[r]) = {} /\ thread[c].at \notin Deleting)

\* A writer, or a thread that becomes one, changes at most slot k of its room and goes to t.
WritesRoom(c, r, k, t, new) ==
    /\ r \in live /\ k \in SlotIdx /\ thread[c].room = r /\ thread[c].slot = k
    /\ Running(c) /\ thread[c].at \notin {"idle", "sending"}
    /\ RunningAt(t) /\ t.at \notin {"idle", "sending", "leaving"}
    /\ Moves(c, t) /\ t.fd = Fd(c) /\ t.room = r /\ t.quitting = thread[c].quitting
    /\ t.quitting => t.at \in {"counting", "deleting"} \cup Clearing
    /\ thread[c].at \in Writing \/ t.at \in Writing
    /\ UNCHANGED maps
    /\ new \in Room /\ rooms' = [rooms EXCEPT ![r] = new]
    /\ \A i \in SlotIdx \ {k} : new.slots[i] = rooms[r].slots[i]
    /\ r \in Ordered' => Leaves(c, r, k, t, new)

\* A writer that has slot k, or nothing, before and after.
LEMMA WriterStep ==
    ASSUME Inv, Tracked, NEW c \in Conns, NEW r, NEW k, NEW t, NEW new, WritesRoom(c, r, k, t, new)
    PROVE  Inv'
<1>0. /\ r \in live /\ k \in SlotIdx /\ thread[c].room = r /\ thread[c].slot = k
      /\ Running(c) /\ thread[c].at \notin {"idle", "sending"}
      /\ RunningAt(t) /\ t.at \notin {"idle", "sending", "leaving"}
      /\ Moves(c, t) /\ t.fd = Fd(c) /\ t.room = r /\ t.quitting = thread[c].quitting
      /\ t.quitting => t.at \in {"leaving", "counting", "deleting", "sending"} \cup Clearing
      /\ thread[c].at \in Writing \/ t.at \in Writing
      /\ UNCHANGED maps
      /\ new \in Room /\ rooms' = [rooms EXCEPT ![r] = new]
      /\ \A i \in SlotIdx \ {k} : new.slots[i] = rooms[r].slots[i]
      /\ r \in Ordered' => Leaves(c, r, k, t, new)
  BY DEF WritesRoom
<1>1. rooms' \in [RoomIds -> Room] /\ rooms'[r] = new
  BY <1>0 DEF Inv, TypeOK
<1>2. ASSUME r \in Ordered' PROVE Fine(r)'
  <2>1. /\ r \in Ordered /\ Fine(r) /\ rooms[r] \in Room /\ Active(c)
        /\ Fd(c)' = Fd(c) /\ thread'[c] = t
        /\ ~Indexed(c, r) /\ ~Indexed(c, r)'
        /\ \A d \in Conns \ {c} : Same(d, r) /\ thread'[d] = thread[d] /\ ~Doing(d, r, Writing)
    BY <1>0, <1>1, <1>2, WriterContext
  <2>2. Occupied(rooms[r])' = Occupied(new)
    BY <1>1 DEF Occupied
  <2>3. Holder(c, r)' <=> t.at \in Seated
    BY <1>0, <2>1 DEF Holder, Doing, Seated
  <2>4. Holder(c, r)' => Sits(c, r, k)'
    BY <1>0, <1>1, <1>2, <2>1, <2>3 DEF Sits, SeatAt, Doing, Seated, Leaves
  <2>5. Seats(r)'
    BY <1>0, <1>1, <1>2, <2>1, <2>2, <2>3, <2>4, SeatsStep DEF Leaves
  <2> QED BY <1>0, <1>1, <1>2, <2>1, <2>5, WriterLeaves DEF Leaves
<1> QED BY <1>0, <1>2, RoomStep

-----------------------------------------------------------------------------
(* add_player.                                                               *)

\* What a thread that follows its Room* has in its hands.
LEMMA Pointer ==
    ASSUME Inv, NEW c \in Conns, thread[c].at \in UsesRoom \ {"sending"}, thread[c].room \in live
    PROVE  /\ Running(c) /\ Active(c) /\ thread[c].at \notin {"idle", "sending"}
           /\ thread[c].room \in RoomIds /\ thread[c].slot \in SlotIdx
           /\ rooms \in [RoomIds -> Room] /\ rooms[thread[c].room] \in Room
           /\ rooms[thread[c].room].slots \in [SlotIdx -> Slot]
           /\ rooms' = rooms => rooms' = [rooms EXCEPT ![thread[c].room] = rooms[thread[c].room]]
           /\ thread[c].at \in Filling => ~thread[c].quitting
           /\ roomOf[Fd(c)] = NoRoom /\ Fd(c) \in Fds
<1>1. Running(c) /\ Active(c) /\ thread[c].at \notin {"idle", "sending"}
  BY DEF UsesRoom, Writing, Filling, Clearing, Running, Active
<1>2. thread[c].room \in RoomIds /\ thread[c].slot \in SlotIdx /\ rooms \in [RoomIds -> Room]
  BY DEF Inv, TypeOK, Thread
<1>3. thread[c].at \in Filling => ~thread[c].quitting
  BY DEF Inv, Quitting, Clearing, Filling
<1> QED BY <1>1, <1>2, <1>3, NotIndexed, Locals DEF Room

\* The slot that is found is free, and nobody else writes the room.
LEMMA FoundFreeSlot ==
    ASSUME Inv, Tracked, NEW c \in Conns, InRoom(c, "joining"), ~MySlot(c).occupied,
           Go(c, "occupying"), UNCHANGED <<maps, rooms>>,
           NEW r, r = thread[c].room, NEW k, k = thread[c].slot
    PROVE  Inv'
<1>1. thread[c].at = "joining" /\ r \in live /\ "joining" \in UsesRoom \ {"sending"}
  BY DEF InRoom, At, UsesRoom
<1>2. Running(c) /\ k \in SlotIdx /\ rooms[r] \in Room /\ rooms' = [rooms EXCEPT ![r] = rooms[r]]
      /\ rooms' \in [RoomIds -> Room]
  BY <1>1, Pointer
<1>3. ~thread[c].quitting
  BY <1>1 DEF Inv, Quitting, Clearing
<1>4. PICK t : Arrives(c, t, "occupying", k)
  BY GoGoes, GoesArrives DEF Steps, UsesRoom, Writing, Filling
<1>5. RunningAt(t) /\ t.at = "occupying" /\ t.at \in Writing
  BY <1>4 DEF Arrives, RunningAt, Writing, Filling
<1>6. k \notin Occupied(rooms[r])
  BY DEF MySlot, MyRoom, Occupied
<1>7. /\ t.at \notin {"idle", "sending", "leaving"} /\ t.at \notin Seated
      /\ thread[c].at \notin {"idle", "sending"} /\ thread[c].at \notin Deleting
  BY <1>1, <1>5 DEF Seated, Deleting
<1>8. ASSUME r \in Ordered' PROVE Leaves(c, r, k, t, rooms[r])
  <2>1. ~Indexed(c, r) /\ RoomFor(thread[c].at, k, rooms[r])
    BY <1>1, <1>2, <1>4, <1>5, <1>8, WriterContext DEF Arrives
  <2>2. \A i : ~Sits(c, r, i)
    BY <1>1, <2>1 DEF Sits, Holder, Doing, Seated
  <2>3. RoomFor(t.at, t.slot, rooms[r])
    BY <1>1, <1>4, <1>6, <2>1 DEF RoomFor, Arrives, Writing, Filling, Clearing
  <2> QED BY <1>6, <1>7, <2>2, <2>3 DEF Leaves
<1>9. WritesRoom(c, r, k, t, rooms[r])
  BY <1>1, <1>2, <1>3, <1>4, <1>5, <1>7, <1>8 DEF WritesRoom, Arrives
<1> QED BY <1>9, WriterStep

LEMMA FindFreeSlotStep ==
    ASSUME Inv, Tracked, NEW c \in Conns, FindFreeSlot(c)
    PROVE  Inv'
<1>1. /\ Running(c) /\ Active(c) /\ thread[c].at = "joining" /\ thread[c].at \notin Inside
      /\ thread[c].at \notin {"idle", "sending"}
  BY DEF FindFreeSlot, InRoom, Running, Active, At, Inside, Seated, Deleting
<1>2. CASE ~MySlot(c).occupied /\ Go(c, "occupying")
  BY <1>2, FoundFreeSlot DEF FindFreeSlot
<1>3. CASE NextSlot(c)
  <2>1. ~thread[c].quitting
    BY <1>1 DEF Inv, Quitting, Clearing
  <2> QED BY <1>1, <1>3, <2>1, NotIndexed, NextSlotGoes, SearchStep DEF FindFreeSlot
<1>4. CASE Return(c)
  BY <1>1, <1>4, ReturnStep DEF FindFreeSlot
<1> QED BY <1>2, <1>3, <1>4 DEF FindFreeSlot

\* At statement from the slot old becomes slot, and statement next follows.
Fills(c, from, old, slot, next) ==
    \/ from = "occupying" /\ next = "writingFd" /\ slot = [old EXCEPT !.occupied = TRUE]
    \/ from = "writingFd" /\ next = "writingId" /\ slot = [old EXCEPT !.fd = Fd(c)]
    \/ from = "writingId" /\ next = "testingHost" /\ slot = [old EXCEPT !.cid = clients[Fd(c)]]

\* The write of one field of the thread's own slot, or of one it fills.
LEMMA FillStep ==
    ASSUME Inv, Tracked, NEW c \in Conns, NEW from \in {"occupying", "writingFd", "writingId"},
           NEW r, r = thread[c].room, NEW k, k = thread[c].slot,
           NEW slot, NEW next \in {"writingFd", "writingId", "testingHost"},
           WriteSlot(c, from, slot, next), Fills(c, from, rooms[r].slots[k], slot, next)
    PROVE  Inv'
<1>0. PICK new : new = [rooms[r] EXCEPT !.slots[k] = slot]
  OBVIOUS
<1>1. /\ thread[c].at = from /\ r \in live /\ from \in UsesRoom \ {"sending"} /\ from \in Filling
      /\ from \in Writing
  BY DEF WriteSlot, InRoom, At, UsesRoom, Writing, Filling
<1>2. /\ Running(c) /\ Active(c) /\ k \in SlotIdx /\ rooms[r] \in Room /\ ~thread[c].quitting
      /\ rooms[r].slots \in [SlotIdx -> Slot] /\ Fd(c) \in Fds
      /\ rooms \in [RoomIds -> Room] /\ r \in RoomIds /\ clients[Fd(c)] = c
  BY <1>1, Pointer, Locals
<1>3. PICK t : Arrives(c, t, next, k)
  BY GoGoes, GoesArrives DEF WriteSlot, Steps, UsesRoom, Writing, Filling
<1>4. /\ RunningAt(t) /\ t.at = next /\ t.at \in Seated /\ t.slot = k
      /\ t.at \notin {"idle", "sending", "leaving"} /\ thread[c].at \notin {"idle", "sending"}
  BY <1>1, <1>3 DEF Arrives, RunningAt, Seated
<1>5. slot \in Slot
  <2>1. rooms[r].slots[k] \in Slot /\ clients[Fd(c)] \in Conns /\ Fd(c) \in Fds
    BY <1>2
  <2> QED BY <2>1 DEF Slot, Fills
<1>6. /\ new \in Room /\ new.host = rooms[r].host /\ new.slots[k] = slot
      /\ \A i \in SlotIdx \ {k} : new.slots[i] = rooms[r].slots[i]
  BY <1>0, <1>2, <1>5 DEF Room
<1>7. rooms' = [rooms EXCEPT ![r] = new] /\ UNCHANGED maps
  BY <1>0, <1>2 DEF WriteSlot
<1>8. rooms' \in [RoomIds -> Room]
  BY <1>2, <1>6, <1>7
<1>9. ASSUME r \in Ordered'
      PROVE  /\ RoomFor(t.at, t.slot, new)
             /\ k \in Occupied(rooms[r]) => Sits(c, r, k)
             /\ \A i \in Occupied(rooms[r]) \ {k} : ~Sits(c, r, i)
             /\ k \in Occupied(new)
             /\ SeatAt(c, t.at, k, new)
  <2>1. /\ ~Indexed(c, r) /\ RoomFor(from, k, rooms[r])
        /\ from \in Seated =>
               k \in Occupied(rooms[r]) /\ Sits(c, r, k) /\ SeatAt(c, from, k, rooms[r])
    BY <1>1, <1>2, <1>3, <1>4, <1>7, <1>8, <1>9, WriterContext DEF Arrives
  <2>2. \A i \in Occupied(rooms[r]) \ {k} : ~Sits(c, r, i)
    BY <1>1, <2>1 DEF Sits, Holder, Doing, Seated
  <2>3. from = "occupying" => k \notin Occupied(rooms[r]) /\ rooms[r].slots[k].fd = NoFd
    BY <1>2, <2>1 DEF RoomFor
  <2>4. from \in {"writingFd", "writingId"} =>
            k \in Occupied(rooms[r]) /\ Sits(c, r, k) /\ SeatAt(c, from, k, rooms[r])
    BY <2>1 DEF Seated
  <2>5. slot.occupied /\ SeatAt(c, next, k, new)
    <3>1. rooms[r].slots[k] \in Slot /\ Fd(c) \in Fds /\ clients[Fd(c)] = c
      BY <1>2
    <3>2. CASE from = "occupying"
      BY <1>6, <2>3, <3>1, <3>2 DEF SeatAt, Slot, Fills
    <3>3. CASE from \in {"writingFd", "writingId"}
      <4>1. rooms[r].slots[k].occupied
        BY <2>4, <3>3 DEF Occupied
      <4>2. CASE from = "writingFd"
        <5>1. next = "writingId" /\ slot = [rooms[r].slots[k] EXCEPT !.fd = Fd(c)]
          BY <4>2 DEF Fills
        <5>2. slot.occupied /\ slot.fd = Fd(c)
          BY <3>1, <4>1, <5>1 DEF Slot
        <5> QED BY <1>6, <5>1, <5>2 DEF SeatAt
      <4>3. CASE from = "writingId"
        <5>1. next = "testingHost" /\ slot = [rooms[r].slots[k] EXCEPT !.cid = clients[Fd(c)]]
          BY <4>3 DEF Fills
        <5>2. rooms[r].slots[k].fd = Fd(c)
          BY <2>4, <4>3 DEF SeatAt
        <5>3. slot.occupied /\ slot.fd = Fd(c) /\ slot.cid = c
          BY <3>1, <4>1, <5>1, <5>2 DEF Slot
        <5> QED BY <1>6, <5>1, <5>3 DEF SeatAt
      <4> QED BY <3>3, <4>2, <4>3
    <3> QED BY <3>2, <3>3
  <2>6. Occupied(new) = Occupied(rooms[r]) \cup {k}
    BY <1>2, <1>6, <2>5 DEF Occupied
  <2>7. rooms[r].host \in Occupied(rooms[r]) \cup {NoHost}
    BY <2>1 DEF RoomFor, HostOK, Writing, Filling, Clearing
  <2>8. RoomFor(t.at, t.slot, new)
    <3>1. next \in {"writingFd", "writingId", "testingHost"} /\ from # "clearingFd"
      BY <1>1 DEF Filling
    <3>2. \A i \in SlotIdx \ Occupied(new) : new.slots[i].fd = NoFd
      BY <1>6, <2>1, <2>6, <3>1 DEF RoomFor
    <3>3. next \in Writing \ {"occupying", "vacating"} /\ next \notin {"occupying", "clearingFd", "clearingId", "electing"}
      BY <3>1 DEF Writing, Filling, Clearing
    <3> QED BY <1>4, <1>6, <2>6, <2>7, <3>2, <3>3 DEF RoomFor
  <2> QED BY <1>4, <2>2, <2>3, <2>4, <2>5, <2>6, <2>8
<1>10. r \in Ordered' => Leaves(c, r, k, t, new)
  BY <1>4, <1>9 DEF Leaves
<1>11. /\ Moves(c, t) /\ t.fd = Fd(c) /\ t.room = r /\ t.quitting = thread[c].quitting
       /\ ~t.quitting /\ thread[c].room = r /\ thread[c].slot = k /\ thread[c].at \in Writing
  BY <1>1, <1>2, <1>3 DEF Arrives
<1>12. WritesRoom(c, r, k, t, new)
  BY <1>1, <1>2, <1>4, <1>6, <1>7, <1>10, <1>11 DEF WritesRoom
<1> QED BY <1>12, WriterStep

LEMMA FillSlotStep ==
    ASSUME Inv, Tracked, NEW c \in Conns, FillSlot(c)
    PROVE  Inv'
BY FillStep DEF FillSlot, MySlot, MyRoom, Fills

\* A seated thread has its slot and no other.
LEMMA OneSlot ==
    ASSUME NEW c \in Conns, NEW r, NEW k, thread[c].slot = k, ~Indexed(c, r), thread[c].at # "leaving"
    PROVE  \A i \in SlotIdx \ {k} : ~Sits(c, r, i)
BY DEF Sits, Holder, Doing

LEMMA TestHostStep ==
    ASSUME Inv, Tracked, NEW c \in Conns, TestHost(c), NEW r, r = thread[c].room,
           NEW k, k = thread[c].slot
    PROVE  Inv'
<1> DEFINE next == IF MyRoom(c).host = NoHost THEN "takingHost" ELSE "indexing"
<1>1. /\ thread[c].at = "testingHost" /\ r \in live /\ "testingHost" \in UsesRoom \ {"sending"}
      /\ "testingHost" \in Filling /\ "testingHost" \in Writing /\ "testingHost" \in Seated
  BY DEF TestHost, InRoom, At, UsesRoom, Writing, Filling, Seated
<1>2. /\ Running(c) /\ k \in SlotIdx /\ rooms[r] \in Room /\ ~thread[c].quitting
      /\ rooms \in [RoomIds -> Room] /\ r \in RoomIds
  BY <1>1, Pointer
<1>3. next \in {"takingHost", "indexing"} /\ next \in Steps
      /\ (next = "indexing" => rooms[r].host # NoHost)
  BY DEF Steps, UsesRoom, Writing, Filling, MyRoom
<1>4. Go(c, next) /\ UNCHANGED <<maps, rooms>>
  BY DEF TestHost
<1> HIDE DEF next
<1>5. PICK t : Arrives(c, t, next, k)
  BY <1>3, <1>4, GoGoes, GoesArrives
<1>6. /\ RunningAt(t) /\ t.at = next /\ t.at \in Seated /\ t.slot = k
      /\ t.at \notin {"idle", "sending", "leaving"}
  BY <1>3, <1>5 DEF Arrives, RunningAt, Seated
<1>7. rooms' = [rooms EXCEPT ![r] = rooms[r]] /\ rooms' \in [RoomIds -> Room]
  BY <1>2, <1>4
<1>8. ASSUME r \in Ordered' PROVE Leaves(c, r, k, t, rooms[r])
  <2>1. /\ ~Indexed(c, r) /\ RoomFor("testingHost", k, rooms[r])
        /\ k \in Occupied(rooms[r]) /\ Sits(c, r, k) /\ SeatAt(c, "testingHost", k, rooms[r])
    BY <1>1, <1>2, <1>4, <1>5, <1>6, <1>7, <1>8, WriterContext DEF Arrives
  <2>2. \A i \in Occupied(rooms[r]) \ {k} : ~Sits(c, r, i)
    BY <1>1, <2>1, OneSlot DEF Occupied
  <2>3. SeatAt(c, t.at, k, rooms[r])
    BY <1>3, <1>6, <2>1 DEF SeatAt
  <2>4. RoomFor(t.at, t.slot, rooms[r])
    BY <1>3, <1>6, <2>1 DEF RoomFor, HostOK, Writing, Filling, Clearing
  <2> QED BY <1>6, <2>1, <2>2, <2>3, <2>4 DEF Leaves
<1>9. WritesRoom(c, r, k, t, rooms[r])
  BY <1>1, <1>2, <1>4, <1>5, <1>6, <1>7, <1>8 DEF WritesRoom, Arrives
<1> QED BY <1>9, WriterStep

LEMMA TakeHostStep ==
    ASSUME Inv, Tracked, NEW c \in Conns, TakeHost(c), NEW r, r = thread[c].room,
           NEW k, k = thread[c].slot
    PROVE  Inv'
<1>0. PICK new : new = [rooms[r] EXCEPT !.host = k]
  OBVIOUS
<1>1. /\ thread[c].at = "takingHost" /\ r \in live /\ "takingHost" \in UsesRoom \ {"sending"}
      /\ "takingHost" \in Filling /\ "takingHost" \in Writing /\ "takingHost" \in Seated
  BY DEF TakeHost, InRoom, At, UsesRoom, Writing, Filling, Seated
<1>2. /\ Running(c) /\ k \in SlotIdx /\ rooms[r] \in Room /\ ~thread[c].quitting
      /\ rooms \in [RoomIds -> Room] /\ r \in RoomIds
  BY <1>1, Pointer
<1>3. new \in Room /\ new.slots = rooms[r].slots /\ new.host = k
  BY <1>0, <1>2 DEF Room
<1>4. Go(c, "indexing") /\ UNCHANGED maps /\ rooms' = [rooms EXCEPT ![r] = new]
  BY <1>0, <1>2 DEF TakeHost, WriteHost
<1>5. PICK t : Arrives(c, t, "indexing", k)
  BY <1>4, GoGoes, GoesArrives DEF Steps
<1>6. /\ RunningAt(t) /\ t.at = "indexing" /\ t.at \in Seated /\ t.slot = k
  BY <1>5 DEF Arrives, RunningAt, Seated
<1>7. rooms' \in [RoomIds -> Room]
  BY <1>2, <1>3, <1>4
<1>8. ASSUME r \in Ordered' PROVE Leaves(c, r, k, t, new)
  <2>1. /\ ~Indexed(c, r) /\ RoomFor("takingHost", k, rooms[r])
        /\ k \in Occupied(rooms[r]) /\ Sits(c, r, k) /\ SeatAt(c, "takingHost", k, rooms[r])
    BY <1>1, <1>2, <1>4, <1>5, <1>6, <1>7, <1>8, WriterContext DEF Arrives
  <2>2. \A i \in Occupied(rooms[r]) \ {k} : ~Sits(c, r, i)
    BY <1>1, <2>1, OneSlot DEF Occupied
  <2>3. Occupied(new) = Occupied(rooms[r])
    BY <1>3 DEF Occupied
  <2>4. SeatAt(c, t.at, k, new)
    BY <1>3, <1>6, <2>1 DEF SeatAt
  <2>5. RoomFor(t.at, t.slot, new)
    BY <1>3, <1>6, <2>1, <2>3 DEF RoomFor, HostOK
  <2> QED BY <1>6, <2>1, <2>2, <2>3, <2>4, <2>5 DEF Leaves
<1>9. WritesRoom(c, r, k, t, new)
  BY <1>1, <1>2, <1>3, <1>4, <1>5, <1>6, <1>8 DEF WritesRoom, Arrives
<1> QED BY <1>9, WriterStep

-----------------------------------------------------------------------------
(* remove_player.                                                            *)

\* At statement from the slot old becomes slot, and statement next follows.
Clears(from, old, slot, next) ==
    \/ from = "vacating" /\ next = "clearingFd" /\ slot = [old EXCEPT !.occupied = FALSE]
    \/ from = "clearingFd" /\ next = "clearingId" /\ slot = [old EXCEPT !.fd = NoFd]
    \/ from = "clearingId" /\ next = "unhosting" /\ slot = [old EXCEPT !.cid = NoId]

LEMMA ClearStep ==
    ASSUME Inv, Tracked, NEW c \in Conns, NEW from \in {"vacating", "clearingFd", "clearingId"},
           NEW r, r = thread[c].room, NEW k, k = thread[c].slot,
           NEW slot, NEW next \in {"clearingFd", "clearingId", "unhosting"},
           WriteSlot(c, from, slot, next), Clears(from, rooms[r].slots[k], slot, next)
    PROVE  Inv'
<1>0. PICK new : new = [rooms[r] EXCEPT !.slots[k] = slot]
  OBVIOUS
<1>1. /\ thread[c].at = from /\ r \in live /\ from \in UsesRoom \ {"sending"} /\ from \in Writing
  BY DEF WriteSlot, InRoom, At, UsesRoom, Writing, Clearing
<1>2. /\ Running(c) /\ k \in SlotIdx /\ rooms[r] \in Room
      /\ rooms[r].slots \in [SlotIdx -> Slot]
      /\ rooms \in [RoomIds -> Room] /\ r \in RoomIds
  BY <1>1, Pointer
<1>3. PICK t : Arrives(c, t, next, k)
  BY GoGoes, GoesArrives DEF WriteSlot, Steps, UsesRoom, Writing, Clearing
<1>4. /\ RunningAt(t) /\ t.at = next /\ t.at \notin Seated /\ t.slot = k /\ t.at \in Clearing
      /\ t.at \in Deleting
      /\ t.at \notin {"idle", "sending", "leaving"} /\ thread[c].at \notin {"idle", "sending"}
  BY <1>1, <1>3 DEF Arrives, RunningAt, Seated, Clearing, Deleting
<1>5. slot \in Slot
  <2>1. rooms[r].slots[k] \in Slot
    BY <1>2
  <2> QED BY <2>1 DEF Slot, Clears
<1>6. /\ new \in Room /\ new.host = rooms[r].host /\ new.slots[k] = slot
      /\ \A i \in SlotIdx \ {k} : new.slots[i] = rooms[r].slots[i]
  BY <1>0, <1>2, <1>5 DEF Room
<1>7. rooms' = [rooms EXCEPT ![r] = new] /\ UNCHANGED maps
  BY <1>0, <1>2 DEF WriteSlot
<1>8. rooms' \in [RoomIds -> Room]
  BY <1>2, <1>6, <1>7
<1>9. ASSUME r \in Ordered'
      PROVE  /\ RoomFor(t.at, t.slot, new)
             /\ k \in Occupied(rooms[r]) => Sits(c, r, k)
             /\ \A i \in Occupied(rooms[r]) \ {k} : ~Sits(c, r, i)
             /\ k \notin Occupied(new)
  <2>1. /\ ~Indexed(c, r) /\ RoomFor(from, k, rooms[r])
        /\ from \in Seated => k \in Occupied(rooms[r]) /\ Sits(c, r, k)
    BY <1>1, <1>2, <1>3, <1>4, <1>7, <1>8, <1>9, WriterContext DEF Arrives
  <2>2. \A i \in Occupied(rooms[r]) \ {k} : ~Sits(c, r, i)
    BY <1>1, <2>1, OneSlot DEF Occupied
  <2>3. from # "vacating" => k \notin Occupied(rooms[r])
    BY <2>1 DEF RoomFor
  <2>4. from = "vacating" => Sits(c, r, k)
    BY <2>1 DEF Seated
  <2>5. ~slot.occupied
    <3>1. rooms[r].slots[k] \in Slot
      BY <1>2
    <3> QED BY <1>2, <2>3, <3>1 DEF Occupied, Slot, Clears
  <2>6. Occupied(new) = Occupied(rooms[r]) \ {k}
    BY <1>2, <1>6, <2>5 DEF Occupied
  <2>7. RoomFor(t.at, t.slot, new)
    <3>1. next = "clearingId" => slot.fd = NoFd
      <4>1. rooms[r].slots[k] \in Slot
        BY <1>2
      <4> QED BY <4>1 DEF Slot, Clears
    <3>2. next = "unhosting" => slot.fd = NoFd
      <4>1. rooms[r].slots[k] \in Slot
        BY <1>2
      <4>2. next = "unhosting" => rooms[r].slots[k].fd = NoFd
        BY <1>2, <2>1, <2>3 DEF RoomFor, Clears
      <4> QED BY <4>1, <4>2 DEF Slot, Clears
    <3>3. \A i \in SlotIdx \ Occupied(new) : new.slots[i].fd = NoFd \/ (next = "clearingFd" /\ k = i)
      <4> SUFFICES ASSUME NEW i \in SlotIdx, i \notin Occupied(new), ~(next = "clearingFd" /\ k = i)
                   PROVE  new.slots[i].fd = NoFd
        OBVIOUS
      <4>1. CASE i = k
        BY <1>6, <3>1, <3>2, <4>1
      <4>2. CASE i # k
        BY <1>6, <2>1, <2>6, <4>2 DEF RoomFor
      <4> QED BY <4>1, <4>2
    <3> QED BY <1>4, <2>6, <3>3 DEF RoomFor, Writing, Clearing
  <2> QED BY <2>2, <2>3, <2>4, <2>6, <2>7
<1>10. r \in Ordered' => Leaves(c, r, k, t, new)
  BY <1>4, <1>9 DEF Leaves
<1>11. WritesRoom(c, r, k, t, new)
  BY <1>1, <1>2, <1>3, <1>4, <1>6, <1>7, <1>10 DEF WritesRoom, Arrives
<1> QED BY <1>11, WriterStep

LEMMA ClearSlotStep ==
    ASSUME Inv, Tracked, NEW c \in Conns, ClearSlot(c)
    PROVE  Inv'
BY ClearStep DEF ClearSlot, MySlot, MyRoom, Clears

\* The slots are as before, and c, which has none, takes none.
LEMMA SeatsSame ==
    ASSUME NEW r, Seats(r), NEW c \in Conns, \A d \in Conns \ {c} : Same(d, r),
           rooms'[r].slots = rooms[r].slots, ~Holder(c, r), ~Holder(c, r)'
    PROVE  Seats(r)'
<1>1. \A d \in Conns : \A i \in SlotIdx :
          (Sits(d, r, i)' <=> Sits(d, r, i)) /\ (Holder(d, r)' <=> Holder(d, r))
  <2> SUFFICES ASSUME NEW d \in Conns, NEW i \in SlotIdx
               PROVE  (Sits(d, r, i)' <=> Sits(d, r, i)) /\ (Holder(d, r)' <=> Holder(d, r))
    OBVIOUS
  <2>1. CASE d = c
    BY <2>1 DEF Sits
  <2>2. CASE d # c
    BY <2>2, SitsKept
  <2> QED BY <2>1, <2>2
<1>2. Occupied(rooms[r])' = Occupied(rooms[r]) /\ Occupied(rooms[r]) \subseteq SlotIdx
  BY DEF Occupied
<1>3. \A i \in Occupied(rooms[r])' : \E d \in Conns : Sits(d, r, i)'
  BY <1>1, <1>2 DEF Seats
<1>4. ASSUME NEW d \in Conns, Holder(d, r)'
      PROVE  \E i \in Occupied(rooms[r])' :
                 Sits(d, r, i)' /\ \A j \in Occupied(rooms[r])' : Sits(d, r, j)' => j = i
  <2>1. Holder(d, r)
    <3>1. 0 \in SlotIdx
      BY StepSets
    <3> QED BY <1>1, <1>4, <3>1
  <2>2. PICK i \in Occupied(rooms[r]) :
            Sits(d, r, i) /\ \A j \in Occupied(rooms[r]) : Sits(d, r, j) => j = i
    BY <2>1 DEF Seats
  <2> QED BY <1>1, <1>2, <2>2
<1> QED BY <1>3, <1>4 DEF Seats

\* recalculate_host of c leaves new as the room, and goes to t.
HostsRoom(c, r, t, new) ==
    /\ r \in live /\ thread[c].room = r /\ thread[c].at \in {"unhosting", "electing"}
    /\ t.at \in {"electing", "counting"} /\ Moves(c, t)
    /\ t.fd = Fd(c) /\ t.room = r /\ t.quitting = thread[c].quitting
    /\ UNCHANGED maps
    /\ new \in Room /\ rooms' = [rooms EXCEPT ![r] = new] /\ new.slots = rooms[r].slots
    /\ RoomFor(thread[c].at, thread[c].slot, rooms[r]) => RoomFor(t.at, t.slot, new)

LEMMA HostStep ==
    ASSUME Inv, Tracked, NEW c \in Conns, NEW r, NEW t, NEW new, HostsRoom(c, r, t, new)
    PROVE  Inv'
<1>1. /\ r \in live /\ thread[c].room = r /\ thread[c].at \in {"unhosting", "electing"}
      /\ t.at \in {"electing", "counting"} /\ Moves(c, t)
      /\ t.fd = Fd(c) /\ t.room = r /\ t.quitting = thread[c].quitting
      /\ UNCHANGED maps
      /\ new \in Room /\ rooms' = [rooms EXCEPT ![r] = new] /\ new.slots = rooms[r].slots
      /\ RoomFor(thread[c].at, thread[c].slot, rooms[r]) => RoomFor(t.at, t.slot, new)
  BY DEF HostsRoom
<1>2. /\ Running(c) /\ thread[c].at \notin {"idle", "sending"} /\ thread[c].at \notin Seated
      /\ thread[c].at # "leaving" /\ thread[c].at \in Writing /\ RunningAt(t)
      /\ t.at \notin Seated /\ t.at # "leaving" /\ t.at \in Deleting
      /\ thread[c].slot \in SlotIdx
      /\ t.at \in {"leaving", "counting", "deleting", "sending"} \cup Clearing
  BY <1>1 DEF Running, RunningAt, Seated, Writing, Clearing, Deleting, Inv, TypeOK, Thread
<1>3. rooms' \in [RoomIds -> Room] /\ rooms'[r] = new
  BY <1>1 DEF Inv, TypeOK
<1>4. ASSUME r \in Ordered' PROVE Fine(r)'
  <2>1. /\ r \in Ordered /\ Fine(r) /\ thread'[c] = t
        /\ ~Indexed(c, r) /\ ~Indexed(c, r)'
        /\ \A d \in Conns \ {c} : Same(d, r) /\ thread'[d] = thread[d] /\ ~Doing(d, r, Writing)
        /\ RoomFor(thread[c].at, thread[c].slot, rooms[r])
    BY <1>1, <1>2, <1>3, <1>4, WriterContext
  <2>2. ~Holder(c, r) /\ ~Holder(c, r)'
    BY <1>2, <2>1 DEF Holder, Doing
  <2>3. Seats(r)'
    BY <1>1, <1>3, <2>1, <2>2, SeatsSame DEF Fine
  <2> QED BY <1>1, <1>2, <1>3, <2>1, <2>3, WriterLeaves
<1> QED BY <1>1, <1>2, <1>4, RoomStep

LEMMA UnhostStep ==
    ASSUME Inv, Tracked, NEW c \in Conns, Unhost(c), NEW r, r = thread[c].room,
           NEW k, k = thread[c].slot
    PROVE  Inv'
<1>0. PICK new : new = [rooms[r] EXCEPT !.host = NoHost]
  OBVIOUS
<1>1. thread[c].at = "unhosting" /\ r \in live /\ "unhosting" \in UsesRoom \ {"sending"}
  BY DEF Unhost, InRoom, At, UsesRoom, Writing, Clearing
<1>2. rooms[r] \in Room /\ rooms \in [RoomIds -> Room] /\ r \in RoomIds
  BY <1>1, Pointer
<1>3. new \in Room /\ new.slots = rooms[r].slots /\ new.host = NoHost
  BY <1>0, <1>2 DEF Room
<1>4. Loop(c, "electing") /\ UNCHANGED maps /\ rooms' = [rooms EXCEPT ![r] = new]
  BY <1>0, <1>2 DEF Unhost, WriteHost
<1>5. PICK t : Arrives(c, t, "electing", 0)
  BY <1>4, LoopGoes, GoesArrives DEF Steps, UsesRoom, Writing, Clearing
<1>6. RoomFor("unhosting", k, rooms[r]) => RoomFor("electing", 0, new)
  <2>1. Occupied(new) = Occupied(rooms[r]) /\ \A i \in Occupied(new) : 0 <= i
    BY <1>3 DEF Occupied, SlotIdx
  <2> QED BY <1>3, <2>1 DEF RoomFor, Writing, Clearing
<1>7. HostsRoom(c, r, t, new)
  BY <1>1, <1>3, <1>4, <1>5, <1>6 DEF HostsRoom, Arrives
<1> QED BY <1>7, HostStep

LEMMA ElectHostStep ==
    ASSUME Inv, Tracked, NEW c \in Conns, ElectHost(c), NEW r, r = thread[c].room,
           NEW k, k = thread[c].slot
    PROVE  Inv'
<1>1. thread[c].at = "electing" /\ r \in live /\ "electing" \in UsesRoom \ {"sending"}
  BY DEF ElectHost, InRoom, At, UsesRoom, Writing, Clearing
<1>2. /\ rooms[r] \in Room /\ rooms \in [RoomIds -> Room] /\ r \in RoomIds /\ k \in SlotIdx
      /\ UNCHANGED maps /\ "electing" \in Steps /\ "counting" \in Steps
  BY <1>1, Pointer DEF ElectHost, Steps, UsesRoom, Writing, Clearing
<1>3. CASE MySlot(c).occupied /\ WriteHost(c, thread[c].slot) /\ Loop(c, "counting")
  <2>0. PICK new : new = [rooms[r] EXCEPT !.host = k]
    OBVIOUS
  <2>1. new \in Room /\ new.slots = rooms[r].slots /\ new.host = k
    BY <1>2, <2>0 DEF Room
  <2>2. rooms' = [rooms EXCEPT ![r] = new]
    BY <1>2, <1>3, <2>0 DEF WriteHost
  <2>3. PICK t : Arrives(c, t, "counting", 0)
    BY <1>2, <1>3, LoopGoes, GoesArrives
  <2>4. RoomFor("electing", k, rooms[r]) => RoomFor("counting", 0, new)
    <3>1. Occupied(new) = Occupied(rooms[r]) /\ k \in Occupied(new)
      BY <1>2, <1>3, <2>1 DEF Occupied, MySlot, MyRoom
    <3> QED BY <2>1, <3>1 DEF RoomFor, HostOK
  <2>5. HostsRoom(c, r, t, new)
    BY <1>1, <1>2, <2>1, <2>2, <2>3, <2>4 DEF HostsRoom, Arrives
  <2> QED BY <2>5, HostStep
<1>4. ASSUME ~MySlot(c).occupied, rooms' = rooms,
             \/ NextSlot(c)
             \/ LastSlot(c) /\ Loop(c, "counting")
      PROVE  Inv'
  <2>1. rooms' = [rooms EXCEPT ![r] = rooms[r]] /\ k \notin Occupied(rooms[r])
    BY <1>2, <1>4 DEF Occupied, MySlot, MyRoom
  <2>2. CASE NextSlot(c)
    <3>1. PICK t : Arrives(c, t, "electing", k + 1)
      BY <1>1, <1>2, <2>2, NextSlotGoes, GoesArrives
    <3>2. RoomFor("electing", k, rooms[r]) => RoomFor("electing", k + 1, rooms[r])
      <4>1. \A i \in Occupied(rooms[r]) : k <= i => k + 1 <= i
        BY <1>2, <2>1 DEF Occupied, SlotIdx
      <4> QED BY <4>1 DEF RoomFor, Writing, Clearing
    <3>3. HostsRoom(c, r, t, rooms[r])
      BY <1>1, <1>2, <2>1, <3>1, <3>2 DEF HostsRoom, Arrives
    <3> QED BY <3>3, HostStep
  <2>3. CASE LastSlot(c) /\ Loop(c, "counting")
    <3>1. PICK t : Arrives(c, t, "counting", 0)
      BY <1>2, <2>3, LoopGoes, GoesArrives
    <3>2. RoomFor("electing", k, rooms[r]) => RoomFor("counting", 0, rooms[r])
      <4>1. (\A i \in Occupied(rooms[r]) : k <= i) => Occupied(rooms[r]) = {}
        BY <1>2, <2>1, <2>3, ThreadsAssumption DEF Occupied, SlotIdx, LastSlot
      <4> QED BY <4>1 DEF RoomFor, HostOK
    <3>3. HostsRoom(c, r, t, rooms[r])
      BY <1>1, <1>2, <2>1, <3>1, <3>2 DEF HostsRoom, Arrives
    <3> QED BY <3>3, HostStep
  <2> QED BY <1>4, <2>2, <2>3
<1> QED BY <1>3, <1>4 DEF ElectHost

-----------------------------------------------------------------------------
(* find_slot_by_fd and player_count, which only read.                        *)

\* A thread that does not write leaves the room fine as far as the seats are.
LEMMA ReaderLeaves ==
    ASSUME NEW r, Fine(r), Seats(r)', rooms'[r] = rooms[r], NEW c \in Conns,
           \A d \in Conns \ {c} : thread'[d] = thread[d],
           thread[c].at \notin Writing, thread'[c].at \notin Writing,
           \/ thread'[c].at \in Deleting /\ thread'[c].room = r
           \/ Occupied(rooms[r]) # {}
    PROVE  Fine(r)'
<1>1. Occupied(rooms[r])' = Occupied(rooms[r])
  BY DEF Occupied
<1>2. \A d \in Conns : \A S \in SUBSET Writing :
          /\ Doing(d, r, S)' <=> Doing(d, r, S)
          /\ Doing(d, r, S) => thread'[d] = thread[d]
  BY DEF Doing
<1>3. FreeSlots(r)'
  <2>1. {"clearingFd"} \in SUBSET Writing /\ {"occupying", "clearingFd", "clearingId"} \in SUBSET Writing
    BY DEF Writing, Clearing, Filling
  <2> QED BY <1>1, <1>2, <2>1 DEF Fine, FreeSlots
<1>4. Host(r)'
  <2>1. /\ Writing \ {"occupying", "vacating"} \in SUBSET Writing
        /\ {"writingFd", "writingId", "testingHost"} \in SUBSET Writing
        /\ {"electing"} \in SUBSET Writing
    BY DEF Writing, Filling, Clearing
  <2> QED BY <1>1, <1>2, <2>1 DEF Fine, Host, HostOK
<1>5. Leak(r)'
  BY <1>1 DEF Leak, Doing
<1> QED BY <1>3, <1>4, <1>5 DEF Fine

\* What remove_player has searched of an ordered room: its own seat is ahead.
LEMMA OwnSeatAhead ==
    ASSUME Inv, NEW r \in Ordered, NEW c \in Conns, Doing(c, r, {"leaving"})
    PROVE  \E i \in Occupied(rooms[r]) :
               /\ Sits(c, r, i)
               /\ \A j \in Occupied(rooms[r]) \ {i} : ~Sits(c, r, j)
               /\ thread[c].slot <= i
               /\ rooms[r].slots[i].occupied /\ rooms[r].slots[i].fd = Fd(c)
               /\ rooms[r].slots[i].cid = c /\ i \in SlotIdx
<1>1. Holder(c, r)
  BY DEF Holder, Doing
<1>2. PICK i \in Occupied(rooms[r]) :
          Sits(c, r, i) /\ \A j \in Occupied(rooms[r]) \ {i} : ~Sits(c, r, j)
  BY <1>1, OwnSeat
<1> QED BY <1>2 DEF Sits, Doing, Occupied

\* The slot that is found is the client's own.
LEMMA FoundOwnSlot ==
    ASSUME Inv, Tracked, NEW c \in Conns, InRoom(c, "leaving"),
           MySlot(c).occupied, MySlot(c).fd = Fd(c),
           Go(c, "vacating"), UNCHANGED <<maps, rooms>>,
           NEW r, r = thread[c].room, NEW k, k = thread[c].slot
    PROVE  Inv'
<1>1. thread[c].at = "leaving" /\ r \in live /\ "leaving" \in UsesRoom \ {"sending"}
  BY DEF InRoom, At, UsesRoom
<1>2. /\ Running(c) /\ Active(c) /\ k \in SlotIdx /\ rooms[r] \in Room
      /\ rooms' = [rooms EXCEPT ![r] = rooms[r]] /\ rooms' \in [RoomIds -> Room]
  BY <1>1, Pointer
<1>3. PICK t : Arrives(c, t, "vacating", k)
  BY GoGoes, GoesArrives DEF Steps, UsesRoom, Writing, Clearing
<1>4. /\ RunningAt(t) /\ t.at = "vacating" /\ t.at \in Writing /\ t.at \in Clearing /\ t.at \in Seated
      /\ t.slot = k /\ t.at \notin {"idle", "sending", "leaving"}
  BY <1>3 DEF Arrives, RunningAt, Writing, Clearing, Seated
<1>5. k \in Occupied(rooms[r]) /\ rooms[r].slots[k].fd = Fd(c)
  BY <1>2 DEF MySlot, MyRoom, Occupied
<1>6. ASSUME r \in Ordered' PROVE Leaves(c, r, k, t, rooms[r])
  <2>1. /\ r \in Ordered /\ ~Indexed(c, r) /\ RoomFor("leaving", k, rooms[r])
    BY <1>1, <1>2, <1>3, <1>4, <1>6, WriterContext DEF Arrives
  <2>2. Sits(c, r, k)
    BY <1>2, <1>5, <2>1, OthersSlots
  <2>3. Doing(c, r, {"leaving"})
    BY <1>1 DEF Doing
  <2>4. PICK i \in Occupied(rooms[r]) :
            Sits(c, r, i) /\ \A j \in Occupied(rooms[r]) \ {i} : ~Sits(c, r, j)
    BY <2>1, <2>3, OwnSeatAhead
  <2>5. \A j \in Occupied(rooms[r]) \ {k} : ~Sits(c, r, j)
    BY <1>5, <2>2, <2>4
  <2>6. SeatAt(c, t.at, k, rooms[r])
    BY <1>1, <1>4, <2>2 DEF SeatAt, Sits, Doing
  <2>7. RoomFor(t.at, t.slot, rooms[r])
    BY <1>4, <2>1 DEF RoomFor, Writing, Filling, Clearing
  <2> QED BY <1>4, <1>5, <2>2, <2>5, <2>6, <2>7 DEF Leaves
<1>7. WritesRoom(c, r, k, t, rooms[r])
  BY <1>1, <1>2, <1>3, <1>4, <1>6 DEF WritesRoom, Arrives
<1> QED BY <1>7, WriterStep

\* The slot is another's, and the search goes on.
LEMMA SearchOwnSlot ==
    ASSUME Inv, Tracked, NEW c \in Conns, InRoom(c, "leaving"),
           ~(MySlot(c).occupied /\ MySlot(c).fd = Fd(c)),
           NextSlot(c), UNCHANGED <<maps, rooms>>,
           NEW r, r = thread[c].room, NEW k, k = thread[c].slot
    PROVE  Inv'
<1>1. thread[c].at = "leaving" /\ r \in live /\ "leaving" \in UsesRoom \ {"sending"}
  BY DEF InRoom, At, UsesRoom
<1>2. /\ Running(c) /\ Active(c) /\ k \in SlotIdx /\ rooms[r] \in Room
      /\ rooms' = [rooms EXCEPT ![r] = rooms[r]] /\ rooms' \in [RoomIds -> Room]
  BY <1>1, Pointer
<1>3. PICK t : Arrives(c, t, "leaving", k + 1)
  BY <1>1, NextSlotGoes, GoesArrives
<1>4. /\ RunningAt(t) /\ t.at = "leaving" /\ t.slot = k + 1 /\ t.fd = Fd(c) /\ t.room = r /\ Moves(c, t)
      /\ t.at \notin Writing /\ thread[c].at \notin Writing /\ t.quitting = thread[c].quitting
      /\ t.at \notin Seated
  BY <1>1, <1>3 DEF Arrives, RunningAt, Writing, Filling, Clearing, Seated
<1>5. ~(rooms[r].slots[k].occupied /\ rooms[r].slots[k].fd = Fd(c))
  BY DEF MySlot, MyRoom
<1>6. ASSUME r \in Ordered' PROVE Fine(r)'
  <2>1. /\ r \in Ordered /\ Fine(r) /\ Fd(c)' = Fd(c) /\ thread'[c] = t
        /\ ~Indexed(c, r) /\ ~Indexed(c, r)'
        /\ \A d \in Conns \ {c} : Same(d, r) /\ thread'[d] = thread[d]
    BY <1>1, <1>2, <1>4, <1>6, InsideStep DEF maps
  <2>2. Doing(c, r, {"leaving"}) /\ Doing(c, r, {"leaving"})'
    BY <1>1, <1>4, <2>1 DEF Doing
  <2>3. PICK i \in Occupied(rooms[r]) :
            /\ Sits(c, r, i)
            /\ \A j \in Occupied(rooms[r]) \ {i} : ~Sits(c, r, j)
            /\ k <= i
            /\ rooms[r].slots[i].occupied /\ rooms[r].slots[i].fd = Fd(c)
            /\ rooms[r].slots[i].cid = c /\ i \in SlotIdx
    BY <2>1, <2>2, OwnSeatAhead
  <2>4. i # k /\ k + 1 <= i
    BY <1>2, <1>5, <2>3 DEF SlotIdx
  <2>5. rooms'[r] = rooms[r] /\ Occupied(rooms[r])' = Occupied(rooms[r])
    BY DEF Occupied
  <2>6. Holder(c, r)' /\ Sits(c, r, i)'
    BY <1>4, <2>1, <2>2, <2>3, <2>4, <2>5 DEF Sits, Holder, Doing, Seated
  <2>7. Seats(r)'
    BY <1>2, <2>1, <2>3, <2>5, <2>6, SeatsStep
  <2> QED BY <1>4, <2>1, <2>3, <2>5, <2>7, ReaderLeaves
<1> QED BY <1>1, <1>2, <1>4, <1>6, RoomStep

\* The search fails: not in an ordered room.
LEMMA NoOwnSlot ==
    ASSUME Inv, Tracked, NEW c \in Conns, InRoom(c, "leaving"),
           ~(MySlot(c).occupied /\ MySlot(c).fd = Fd(c)),
           LastSlot(c), Loop(c, "counting"), UNCHANGED <<maps, rooms>>,
           NEW r, r = thread[c].room, NEW k, k = thread[c].slot
    PROVE  Inv'
<1>1. thread[c].at = "leaving" /\ r \in live /\ "leaving" \in UsesRoom \ {"sending"}
  BY DEF InRoom, At, UsesRoom
<1>2. /\ Running(c) /\ Active(c) /\ k \in SlotIdx /\ rooms[r] \in Room
      /\ rooms' = [rooms EXCEPT ![r] = rooms[r]] /\ rooms' \in [RoomIds -> Room]
  BY <1>1, Pointer
<1>3. PICK t : Arrives(c, t, "counting", 0)
  BY LoopGoes, GoesArrives DEF Steps, UsesRoom
<1>4. /\ RunningAt(t) /\ t.at = "counting" /\ t.fd = Fd(c) /\ t.room = r /\ Moves(c, t)
      /\ t.quitting = thread[c].quitting
  BY <1>3 DEF Arrives, RunningAt
<1>5. ASSUME r \in Ordered' PROVE FALSE
  <2>1. r \in Ordered /\ Doing(c, r, {"leaving"})
    BY <1>1, <1>5, OrderedKept DEF maps, Doing
  <2>2. PICK i \in SlotIdx : k <= i /\ rooms[r].slots[i].occupied /\ rooms[r].slots[i].fd = Fd(c)
    BY <2>1, OwnSeatAhead
  <2>3. i = k
    BY <1>2, <2>2, ThreadsAssumption DEF LastSlot, SlotIdx
  <2> QED BY <2>2, <2>3 DEF MySlot, MyRoom
<1> QED BY <1>1, <1>2, <1>4, <1>5, RoomStep

LEMMA FindOwnSlotStep ==
    ASSUME Inv, Tracked, NEW c \in Conns, FindOwnSlot(c)
    PROVE  Inv'
BY FoundOwnSlot, SearchOwnSlot, NoOwnSlot DEF FindOwnSlot

\* player_count of c reads a slot of r, and goes to t.
CountsRoom(c, r, t) ==
    /\ r \in live /\ thread[c].room = r /\ thread[c].at = "counting"
    /\ t.at \in {"counting", "sending", "deleting"} /\ Moves(c, t)
    /\ t.fd = Fd(c) /\ t.room = r /\ t.quitting = thread[c].quitting
    /\ UNCHANGED <<maps, rooms>>
    /\ t.at = "sending" => Occupied(rooms[r]) # {}

LEMMA CountStep ==
    ASSUME Inv, Tracked, NEW c \in Conns, NEW r, NEW t, CountsRoom(c, r, t)
    PROVE  Inv'
<1>1. /\ r \in live /\ thread[c].room = r /\ thread[c].at = "counting"
      /\ t.at \in {"counting", "sending", "deleting"} /\ Moves(c, t)
      /\ t.fd = Fd(c) /\ t.room = r /\ t.quitting = thread[c].quitting
      /\ UNCHANGED <<maps, rooms>>
      /\ t.at = "sending" => Occupied(rooms[r]) # {}
  BY DEF CountsRoom
<1>2. /\ Running(c) /\ RunningAt(t) /\ t.at \notin Seated /\ t.at # "leaving"
      /\ t.at \notin Writing /\ thread[c].at \notin Writing /\ thread[c].at \notin Seated
      /\ t.at # "sending" => t.at \in Deleting
  BY <1>1 DEF Running, RunningAt, Seated, Writing, Filling, Clearing, Deleting
<1>3. rooms[r] \in Room /\ rooms' = [rooms EXCEPT ![r] = rooms[r]] /\ rooms' \in [RoomIds -> Room]
  BY <1>1 DEF Inv, TypeOK
<1>4. ASSUME r \in Ordered' PROVE Fine(r)'
  <2>1. /\ r \in Ordered /\ Fine(r) /\ thread'[c] = t
        /\ ~Indexed(c, r) /\ ~Indexed(c, r)'
        /\ \A d \in Conns \ {c} : Same(d, r) /\ thread'[d] = thread[d]
    BY <1>1, <1>2, <1>3, <1>4, InsideStep DEF maps
  <2>2. ~Holder(c, r) /\ ~Holder(c, r)'
    BY <1>1, <1>2, <2>1 DEF Holder, Doing
  <2>3. Seats(r)'
    BY <1>1, <2>1, <2>2, SeatsSame DEF Fine
  <2> QED BY <1>1, <1>2, <2>1, <2>3, ReaderLeaves
<1> QED BY <1>1, <1>2, <1>3, <1>4, RoomStep

LEMMA CountPlayersStep ==
    ASSUME Inv, Tracked, NEW c \in Conns, CountPlayers(c), NEW r, r = thread[c].room,
           NEW k, k = thread[c].slot
    PROVE  Inv'
<1>1. thread[c].at = "counting" /\ r \in live /\ "counting" \in UsesRoom \ {"sending"}
  BY DEF CountPlayers, InRoom, At, UsesRoom
<1>2. k \in SlotIdx /\ UNCHANGED <<maps, rooms>> /\ {"sending", "deleting"} \subseteq Steps
  BY <1>1, Pointer DEF CountPlayers, Steps, UsesRoom
<1>3. ASSUME NEW step \in {"counting", "sending", "deleting"}, NEW i, NEW t, Arrives(c, t, step, i),
             step = "sending" => MySlot(c).occupied
      PROVE  Inv'
  <2>1. step = "sending" => k \in Occupied(rooms[r])
    BY <1>2, <1>3 DEF MySlot, MyRoom, Occupied
  <2>2. CountsRoom(c, r, t)
    BY <1>1, <1>2, <1>3, <2>1 DEF CountsRoom, Arrives
  <2> QED BY <2>2, CountStep
<1>4. CASE MySlot(c).occupied /\ Go(c, "sending")
  <2>1. \E t : Arrives(c, t, "sending", k)
    BY <1>2, <1>4, GoGoes, GoesArrives
  <2> QED BY <1>3, <1>4, <2>1
<1>5. CASE NextSlot(c)
  <2>1. \E t : Arrives(c, t, "counting", k + 1)
    BY <1>1, <1>5, NextSlotGoes, GoesArrives
  <2> QED BY <1>3, <2>1
<1>6. CASE Go(c, "deleting")
  <2>1. \E t : Arrives(c, t, "deleting", k)
    BY <1>2, <1>6, GoGoes, GoesArrives
  <2> QED BY <1>3, <2>1
<1> QED BY <1>4, <1>5, <1>6 DEF CountPlayers

-----------------------------------------------------------------------------
(* The index of a room.                                                      *)

\* A holder that writes nothing and stays a holder keeps its seat.
LEMMA HolderMoves ==
    ASSUME Inv, NEW c \in Conns, Active(c), NEW t, Moves(c, t), t.fd = Fd(c),
           NEW x, roomOf' = [roomOf EXCEPT ![Fd(c)] = x],
           NEW r \in Ordered, rooms' = rooms, thread[c].at \notin Writing, t.at \notin Writing,
           Holder(c, r), Holder(c, r)', \A i \in SlotIdx : Sits(c, r, i) => Sits(c, r, i)'
    PROVE  Fine(r)'
<1>1. thread'[c] = t /\ Fd(c)' = Fd(c) /\ \A d \in Conns \ {c} : thread'[d] = thread[d]
  BY MovesProperties DEF Inv, Fd
<1>2. \A d \in Conns \ {c} : Same(d, r)
  BY <1>1, OthersIndexed DEF Same, Fd
<1>3. PICK k \in Occupied(rooms[r]) :
          Sits(c, r, k) /\ \A i \in Occupied(rooms[r]) \ {k} : ~Sits(c, r, i)
  BY OwnSeat
<1>4. k \in SlotIdx /\ Occupied(rooms[r])' = Occupied(rooms[r]) /\ rooms'[r] = rooms[r]
  BY <1>3 DEF Occupied
<1>5. Seats(r)'
  BY <1>1, <1>2, <1>3, <1>4, SeatsStep
<1>6. Fine(r)
  BY DEF Inv
<1> QED BY <1>1, <1>3, <1>4, <1>5, <1>6, ReaderLeaves

\* c moves its entry of fd_to_room_ to x and goes to t; its room stays r.
Reindexes(c, r, x, t) ==
    /\ Running(c) /\ RunningAt(t) /\ Moves(c, t) /\ t.fd = Fd(c)
    /\ r \in RoomIds \cup {NoRoom} /\ r < roomCounter
    /\ t.room = r /\ x \in {r, NoRoom}
    /\ UNCHANGED <<open, clients, nextClientId, live, rooms, roomCounter, corrupted>>
    /\ roomOf' = [roomOf EXCEPT ![Fd(c)] = x]
    /\ \A s \in RoomIds \ {r} : ~Indexed(c, s) /\ ~Doing(c, s, Inside)
    /\ t.quitting => t.at \in {"leaving", "counting", "deleting", "sending"} \cup Clearing
    /\ x # NoRoom => t.at \in {"idle", "sending"} /\ ~t.quitting
    /\ thread[c].at \notin Writing /\ t.at \notin Writing
    /\ r \in Ordered =>
           Holder(c, r) /\ Holder(c, r)' /\ \A i \in SlotIdx : Sits(c, r, i) => Sits(c, r, i)'

LEMMA ReindexStep ==
    ASSUME Inv, Tracked, NEW c \in Conns, NEW r, NEW x, NEW t, Reindexes(c, r, x, t)
    PROVE  Inv'
<1>1. /\ Running(c) /\ RunningAt(t) /\ Moves(c, t) /\ t.fd = Fd(c)
      /\ r \in RoomIds \cup {NoRoom} /\ r < roomCounter
      /\ t.room = r /\ x \in {r, NoRoom}
      /\ UNCHANGED <<open, clients, nextClientId, live, rooms, roomCounter, corrupted>>
      /\ roomOf' = [roomOf EXCEPT ![Fd(c)] = x]
      /\ \A s \in RoomIds \ {r} : ~Indexed(c, s) /\ ~Doing(c, s, Inside)
      /\ t.quitting => t.at \in {"leaving", "counting", "deleting", "sending"} \cup Clearing
      /\ x # NoRoom => t.at \in {"idle", "sending"} /\ ~t.quitting
      /\ thread[c].at \notin Writing /\ t.at \notin Writing
      /\ r \in Ordered =>
             Holder(c, r) /\ Holder(c, r)' /\ \A i \in SlotIdx : Sits(c, r, i) => Sits(c, r, i)'
  BY DEF Reindexes
<1>2. /\ Active(c) /\ x \in RoomIds \cup {NoRoom} /\ x < roomCounter /\ NoRoom < roomCounter
      /\ roomCounter' \in 1 .. MaxRooms + 1 /\ roomCounter <= roomCounter'
      /\ rooms' \in [RoomIds -> Room]
  BY <1>1, Locals DEF Inv, TypeOK, NoRoom
<1>3. ASSUME NEW s \in Ordered' PROVE Fine(s)'
  <2>1. s \in Ordered /\ s \in RoomIds /\ NoRoom # s
    BY <1>1, <1>3, OrderedKept, StepSets DEF NoRoom
  <2>2. CASE s = r
    BY <1>1, <1>2, <2>1, <2>2, HolderMoves
  <2>3. CASE s # r
    <3>1. x # s /\ rooms'[s] = rooms[s] /\ ~Indexed(c, s) /\ ~Doing(c, s, Inside)
      BY <1>1, <2>1, <2>3
    <3> QED BY <1>1, <1>2, <2>1, <2>3, <3>1, Elsewhere
  <2> QED BY <2>2, <2>3
<1>4. live' \subseteq RoomIds /\ \A s \in live' : s < roomCounter'
  BY <1>1, OrderedKept
<1>5. t.room < roomCounter' /\ x < roomCounter'
  BY <1>1, <1>2
<1> QED BY <1>1, <1>2, <1>3, <1>4, <1>5, Frame

LEMMA IndexRoomStep ==
    ASSUME Inv, Tracked, NEW c \in Conns, IndexRoom(c), NEW r, r = thread[c].room
    PROVE  Inv'
<1>1. /\ thread[c].at = "indexing" /\ Running(c) /\ Active(c) /\ ~thread[c].quitting
      /\ r \in RoomIds \cup {NoRoom} /\ r < roomCounter /\ Fd(c) \in Fds
  BY Locals DEF IndexRoom, At, Running, Active, Inv, Quitting, Clearing, Thread, NewIds
<1>2. PICK t : Arrives(c, t, "sending", thread[c].slot)
  BY GoGoes, GoesArrives DEF IndexRoom, Steps, UsesRoom
<1>3. RunningAt(t) /\ t.at = "sending" /\ ~t.quitting /\ Moves(c, t) /\ t.fd = Fd(c) /\ t.room = r
  BY <1>1, <1>2 DEF Arrives, RunningAt
<1>4. /\ UNCHANGED <<open, clients, nextClientId, live, rooms, roomCounter, corrupted>>
      /\ roomOf' = [roomOf EXCEPT ![Fd(c)] = r] /\ roomOf'[Fd(c)] = r
  BY <1>1 DEF IndexRoom, Inv, TypeOK
<1>5. thread'[c] = t /\ Fd(c)' = Fd(c)
  BY <1>3, MovesProperties DEF Inv, Fd
<1>6. Holder(c, r) /\ Indexed(c, r)' /\ Holder(c, r)'
  BY <1>1, <1>3, <1>4, <1>5 DEF Holder, Doing, Seated, Indexed
<1>7. \A i \in SlotIdx : Sits(c, r, i) => Sits(c, r, i)'
  BY <1>1, <1>3, <1>4, <1>5, <1>6 DEF Sits, Doing, Seated
<1>8. \A s \in RoomIds \ {r} : ~Indexed(c, s) /\ ~Doing(c, s, Inside)
  BY <1>1 DEF Indexed, Doing
<1>9. thread[c].at \notin Writing /\ t.at \notin Writing
  BY <1>1, <1>3 DEF Writing, Filling, Clearing
<1>10. Reindexes(c, r, r, t)
  BY <1>1, <1>3, <1>4, <1>6, <1>7, <1>8, <1>9 DEF Reindexes
<1> QED BY <1>10, ReindexStep

LEMMA UnindexStep ==
    ASSUME Inv, Tracked, NEW c \in Conns, NEW quitting \in BOOLEAN, At(c, "idle"),
           roomOf[Fd(c)] # NoRoom, Unindex(c, quitting),
           UNCHANGED <<open, clients, nextClientId, live, rooms, roomCounter, corrupted>>
    PROVE  Inv'
<1>0. PICK r : r = roomOf[Fd(c)]
  OBVIOUS
<1>1. /\ thread[c].at = "idle" /\ Running(c) /\ Active(c) /\ thread[c] \in Thread
      /\ Fd(c) \in Fds /\ r \in RoomIds \cup {NoRoom} /\ r < roomCounter
  BY <1>0, Locals DEF At, Running, Active, Inv, NewIds
<1>2. PICK t : t = [thread[c] EXCEPT !.at = "leaving", !.room = r, !.slot = 0, !.quitting = quitting]
  OBVIOUS
<1>3. /\ t \in Thread /\ t.at = "leaving" /\ t.room = r /\ t.slot = 0 /\ t.quitting = quitting
      /\ t.fd = Fd(c) /\ RunningAt(t)
  BY <1>1, <1>2, StepSets DEF Thread, Steps, UsesRoom, Fd, RunningAt
<1>4. Moves(c, t) /\ roomOf' = [roomOf EXCEPT ![Fd(c)] = NoRoom]
  BY <1>0, <1>2, <1>3 DEF Unindex, Moves, Inv, TypeOK
<1>5. thread'[c] = t /\ Fd(c)' = Fd(c)
  BY <1>3, <1>4, MovesProperties DEF Inv, Fd
<1>6. Indexed(c, r) /\ Holder(c, r) /\ Holder(c, r)'
  BY <1>0, <1>1, <1>3, <1>5 DEF Holder, Doing, Indexed
<1>7. \A i \in SlotIdx : Sits(c, r, i) => Sits(c, r, i)'
  <2> SUFFICES ASSUME NEW i \in SlotIdx, Sits(c, r, i) PROVE Sits(c, r, i)'
    OBVIOUS
  <2>1. thread'[c].slot <= i
    BY <1>3, <1>5 DEF SlotIdx
  <2> QED BY <1>1, <1>3, <1>5, <1>6, <2>1 DEF Sits, Doing, Seated
<1>8. \A s \in RoomIds \ {r} : ~Indexed(c, s) /\ ~Doing(c, s, Inside)
  BY <1>0, <1>1 DEF Indexed, Doing, Inside, Seated, Deleting
<1>9. thread[c].at \notin Writing /\ t.at \notin Writing
  BY <1>1, <1>3 DEF Writing, Filling, Clearing
<1>10. Reindexes(c, r, NoRoom, t)
  BY <1>1, <1>3, <1>4, <1>6, <1>7, <1>8, <1>9 DEF Reindexes
<1> QED BY <1>10, ReindexStep

LEMMA ExitRoomStep ==
    ASSUME Inv, Tracked, NEW c \in Conns, ExitRoom(c)
    PROVE  Inv'
BY UnindexStep DEF ExitRoom

LEMMA HangUpStep ==
    ASSUME Inv, Tracked, NEW c \in Conns, HangUp(c)
    PROVE  Inv'
<1>1. CASE roomOf[Fd(c)] # NoRoom /\ Unindex(c, TRUE)
  BY <1>1, UnindexStep DEF HangUp
<1>2. CASE roomOf[Fd(c)] = NoRoom /\ Go(c, "erasing") /\ UNCHANGED roomOf
  <2>1. /\ Running(c) /\ thread[c].at \notin Inside /\ ~thread[c].quitting
        /\ UNCHANGED <<maps, rooms>> /\ "erasing" \in Steps
    BY <1>2 DEF HangUp, At, Running, Inside, Seated, Deleting, Inv, Quitting, Clearing, maps, Steps
  <2> QED BY <1>2, <2>1, GoGoes, SearchStep
<1> QED BY <1>1, <1>2 DEF HangUp

-----------------------------------------------------------------------------
(* A room begins and ends.                                                   *)

\* Nobody knew the room before, and its one seat is that of c.
LEMMA CreateRoomStep ==
    ASSUME Inv, Tracked, NEW c \in Conns, CreateRoom(c), NEW r, r = roomCounter
    PROVE  Inv'
<1>0. PICK new : new = [NewRoom EXCEPT
          !.slots[0] = [occupied |-> TRUE, fd |-> Fd(c), cid |-> clients[Fd(c)]], !.host = 0]
  OBVIOUS
<1>1. /\ thread[c].at = "idle" /\ Running(c) /\ Active(c) /\ thread[c] \in Thread
      /\ Fd(c) \in Fds /\ clients[Fd(c)] = c /\ roomOf[Fd(c)] = NoRoom /\ ~thread[c].quitting
      /\ r \in RoomIds /\ r \notin live /\ NoRoom # r
  <2>1. thread[c].at = "idle" /\ r \in 1 .. MaxRooms + 1 /\ r <= MaxRooms /\ r \notin live
    BY DEF CreateRoom, At, Inv, TypeOK, NewIds
  <2>2. r \in RoomIds
    BY <2>1, ThreadsAssumption DEF RoomIds
  <2> QED BY <2>1, <2>2, Locals, StepSets DEF CreateRoom, Running, Active, Inv, Quitting, Clearing, NoRoom
<1>2. PICK t : t = [thread[c] EXCEPT !.at = "indexing", !.room = r, !.slot = 0]
  OBVIOUS
<1>3. /\ t \in Thread /\ t.at = "indexing" /\ t.room = r /\ t.slot = 0 /\ ~t.quitting
      /\ t.fd = Fd(c) /\ RunningAt(t)
  BY <1>1, <1>2, StepSets DEF Thread, Steps, Fd, RunningAt
<1>4. Moves(c, t)
  BY <1>2, <1>3 DEF CreateRoom, Moves, Inv, TypeOK
<1>5. /\ UNCHANGED <<open, clients, nextClientId, corrupted>>
      /\ roomOf' = [roomOf EXCEPT ![Fd(c)] = NoRoom]
      /\ live' = live \cup {r} /\ roomCounter' = r + 1
      /\ rooms' = [rooms EXCEPT ![r] = new]
  BY <1>0, <1>1 DEF CreateRoom, Inv, TypeOK
<1>6. /\ new \in Room /\ new.slots[0].occupied /\ new.slots[0].fd = Fd(c) /\ new.slots[0].cid = c
      /\ new.host = 0
      /\ \A i \in SlotIdx \ {0} : new.slots[i] = FreeSlot
  <2>1. [occupied |-> TRUE, fd |-> Fd(c), cid |-> clients[Fd(c)]] \in Slot
    BY <1>1 DEF Slot
  <2>2. NewRoom \in Room /\ NewRoom.slots \in [SlotIdx -> Slot]
    BY StepSets DEF Room
  <2>3. \A i \in SlotIdx : NewRoom.slots[i] = FreeSlot
    BY DEF NewRoom
  <2> QED BY <1>0, <1>1, <2>1, <2>2, <2>3, StepSets DEF Room
<1>7. /\ rooms' \in [RoomIds -> Room] /\ rooms'[r] = new
      /\ \A s \in RoomIds \ {r} : rooms'[s] = rooms[s]
  BY <1>1, <1>5, <1>6 DEF Inv, TypeOK
<1>8. /\ thread'[c] = t /\ Fd(c)' = Fd(c)
      /\ \A d \in Conns \ {c} : thread'[d] = thread[d] /\ thread[d].room # r /\ ~Indexed(d, r)'
  <2>1. /\ thread'[c] = t /\ Fd(c)' = Fd(c)
        /\ \A d \in Conns \ {c} : thread'[d] = thread[d] /\ Fd(d)' = Fd(d)
    BY <1>3, <1>4, MovesProperties DEF Inv, Fd
  <2>2. \A d \in Conns : thread[d].room # r
    <3> SUFFICES ASSUME NEW d \in Conns PROVE thread[d].room # r
      OBVIOUS
    <3>1. thread[d].room < roomCounter
      BY DEF Inv, NewIds
    <3> QED BY <1>1, <3>1, StepSets
  <2>3. ASSUME NEW d \in Conns \ {c}, Indexed(d, r)' PROVE FALSE
    <3>1. Indexed(d, r)
      BY <1>1, <1>4, <1>5, <2>3, OthersIndexed
    <3>2. Active(d) /\ Fd(d) \in Fds
      BY <3>1, Locals DEF Indexed, Active
    <3>3. roomOf[Fd(d)] < roomCounter /\ roomOf[Fd(d)] = r
      BY <3>1, <3>2 DEF Inv, NewIds, Indexed
    <3> QED BY <1>1, <3>3, StepSets
  <2> QED BY <2>1, <2>2, <2>3
<1>9. Fine(r)'
  <2>1. Occupied(rooms[r])' = {0}
    <3>1. \A i \in SlotIdx \ {0} : ~new.slots[i].occupied
      BY <1>6 DEF FreeSlot
    <3>2. Occupied(new) = {0}
      BY <1>6, <3>1, StepSets DEF Occupied
    <3> QED BY <1>7, <3>2 DEF Occupied
  <2>2. \A d \in Conns : Holder(d, r)' => d = c
    BY <1>8 DEF Holder, Doing
  <2>3. Holder(c, r)' /\ Sits(c, r, 0)'
    BY <1>3, <1>6, <1>7, <1>8 DEF Holder, Sits, Doing, Seated
  <2>4. Seats(r)'
    BY <2>1, <2>2, <2>3 DEF Seats
  <2>5. \A d \in Conns : \A S \in SUBSET Writing : ~Doing(d, r, S)'
    BY <1>3, <1>8 DEF Doing, Writing, Filling, Clearing
  <2>6. FreeSlots(r)'
    <3>1. {"clearingFd"} \in SUBSET Writing /\ {"occupying", "clearingFd", "clearingId"} \in SUBSET Writing
      BY DEF Writing, Clearing, Filling
    <3>2. \A i \in SlotIdx \ {0} : rooms'[r].slots[i].fd = NoFd
      BY <1>6, <1>7 DEF FreeSlot
    <3> QED BY <2>1, <2>5, <3>1, <3>2 DEF FreeSlots
  <2>7. Host(r)'
    <3>1. /\ {"writingFd", "writingId", "testingHost"} \in SUBSET Writing
          /\ {"electing"} \in SUBSET Writing
      BY DEF Writing, Filling, Clearing
    <3> QED BY <1>6, <1>7, <2>1, <2>5, <3>1 DEF Host, HostOK
  <2>8. Leak(r)'
    BY <2>1 DEF Leak
  <2> QED BY <2>4, <2>6, <2>7, <2>8 DEF Fine
<1>10. ASSUME NEW s \in Ordered' PROVE Fine(s)'
  <2>1. CASE s = r
    BY <1>9, <2>1
  <2>2. CASE s # r
    <3>1. s \in Ordered /\ s \in RoomIds /\ NoRoom # s
      BY <1>5, <1>10, <2>2, StepSets DEF Ordered, Tracked, Inv, TypeOK, NoRoom
    <3>2. ~Indexed(c, s) /\ ~Doing(c, s, Inside) /\ t.room # s /\ rooms'[s] = rooms[s]
      BY <1>1, <1>3, <1>7, <2>2, <3>1 DEF Indexed, Doing, Inside, Seated, Deleting
    <3> QED BY <1>1, <1>3, <1>4, <1>5, <3>1, <3>2, Elsewhere
  <2> QED BY <2>1, <2>2
<1>11. /\ roomCounter' \in 1 .. MaxRooms + 1 /\ roomCounter <= roomCounter'
       /\ t.room < roomCounter' /\ NoRoom < roomCounter'
       /\ live' \subseteq RoomIds /\ \A s \in live' : s < roomCounter'
  <2>1. r \in 1 .. MaxRooms /\ roomCounter = r
    BY <1>1 DEF RoomIds
  <2>2. \A s \in live : s < r /\ s \in Nat
    BY StepSets DEF Inv, NewIds, TypeOK
  <2>3. live' \subseteq RoomIds
    BY <1>1, <1>5 DEF Inv, TypeOK
  <2> QED BY <1>3, <1>5, <2>1, <2>2, <2>3, ThreadsAssumption DEF NoRoom
<1> QED BY <1>1, <1>3, <1>4, <1>5, <1>7, <1>10, <1>11, Frame

LEMMA DeleteRoomStep ==
    ASSUME Inv, Tracked, NEW c \in Conns, DeleteRoom(c), NEW r, r = thread[c].room
    PROVE  Inv'
<1>1. thread[c].at = "deleting" /\ r \in live /\ "deleting" \in UsesRoom \ {"sending"}
  BY DEF DeleteRoom, InRoom, At, UsesRoom
<1>2. /\ Running(c) /\ Active(c) /\ r \in RoomIds /\ rooms \in [RoomIds -> Room]
      /\ roomOf[Fd(c)] = NoRoom /\ Fd(c) \in Fds
  BY <1>1, Pointer
<1>3. PICK t : /\ Moves(c, t)
               /\ t.fd = Fd(c) /\ t.room = NoRoom /\ ~t.quitting
               /\ t.at = IF thread[c].quitting THEN "erasing" ELSE "idle"
  BY <1>2, Returns DEF DeleteRoom
<1>4. /\ UNCHANGED <<open, clients, nextClientId, roomCounter, corrupted>>
      /\ roomOf' = [roomOf EXCEPT ![Fd(c)] = NoRoom]
      /\ live' = live \ {r} /\ rooms' = [rooms EXCEPT ![r] = NewRoom]
  BY <1>2 DEF DeleteRoom, Inv, TypeOK
<1>5. RunningAt(t) /\ t.at \notin Inside
  BY <1>3 DEF RunningAt, Inside, Seated, Deleting
<1>6. ASSUME NEW s \in Ordered' PROVE Fine(s)'
  <2>1. s \in Ordered /\ s \in RoomIds /\ s # r /\ NoRoom # s
    BY <1>4, <1>6, OrderedKept, StepSets DEF Ordered, NoRoom
  <2>2. ~Indexed(c, s) /\ ~Doing(c, s, Inside) /\ rooms'[s] = rooms[s]
    BY <1>1, <1>2, <1>4, <2>1 DEF Indexed, Doing
  <2> QED BY <1>2, <1>3, <1>4, <1>5, <2>1, <2>2, Elsewhere
<1>7. /\ roomCounter' \in 1 .. MaxRooms + 1 /\ roomCounter <= roomCounter'
      /\ t.room < roomCounter' /\ NoRoom < roomCounter'
      /\ rooms' \in [RoomIds -> Room]
  BY <1>2, <1>3, <1>4, StepSets DEF Inv, TypeOK, NoRoom
<1>8. live' \subseteq RoomIds /\ \A s \in live' : s < roomCounter'
  BY <1>4, OrderedKept
<1> QED BY <1>2, <1>3, <1>4, <1>5, <1>6, <1>7, <1>8, Frame

-----------------------------------------------------------------------------
(* The accept loop and the end of a connection.                              *)

\* c stands outside of its handlers and of recv, or comes from there.
Outside(c, t) ==
    /\ thread[c].at \in {"none", "accepted", "erasing", "closing", "done"}
    /\ t.at \in {"accepted", "idle", "closing", "done"} /\ Moves(c, t)
    /\ ~t.quitting /\ t.room < roomCounter
    /\ t.at = "idle" => t.fd = Fd(c) /\ roomOf[t.fd] = NoRoom
    /\ UNCHANGED <<live, rooms, roomOf, roomCounter, corrupted>>
    /\ open' \subseteq Fds /\ clients' \in [Fds -> Conns \cup {NoId}]
    /\ nextClientId' \in 1 .. MaxConns + 1

LEMMA OutsideInv ==
    ASSUME Inv, Tracked, NEW c \in Conns, NEW t, Outside(c, t), Descriptors'
    PROVE  Inv'
<1>1. /\ thread' \in [Conns -> Thread] /\ thread'[c] = t
      /\ \A d \in Conns \ {c} : thread'[d] = thread[d] /\ Fd(d)' = Fd(d)
  BY MovesProperties DEF Outside, Inv, Fd
<1>2. TypeOK'
  <2>1. contended' \subseteq RoomIds
    BY DEF Tracked, Contended, Inv, TypeOK
  <2> QED BY <1>1, <2>1 DEF Inv, TypeOK, Outside
<1>3. IndexOwned'
  <2> SUFFICES ASSUME NEW fd \in Fds, roomOf[fd] # NoRoom
               PROVE  \E d \in Conns : Fd(d)' = fd /\ thread'[d].at \in {"idle", "sending"}
    BY DEF IndexOwned, Outside
  <2>1. PICK d \in Conns : Fd(d) = fd /\ thread[d].at \in {"idle", "sending"}
    BY DEF Inv, IndexOwned
  <2> QED BY <1>1, <2>1 DEF Outside
<1>4. Quitting'
  BY <1>1 DEF Inv, Quitting, Outside, Fd
<1>5. NewIds'
  BY <1>1 DEF Inv, NewIds, Outside
<1>6. Recorded'
  BY DEF Tracked, Recorded
<1>7. ASSUME NEW r \in Ordered' PROVE Fine(r)'
  <2>1. r \in Ordered /\ Fine(r) /\ rooms'[r] = rooms[r] /\ NoRoom # r
    BY <1>7, OrderedKept, StepSets DEF Outside, Inv, NoRoom
  <2>2. Same(c, r)
    <3>1. ~Indexed(c, r) /\ ~Doing(c, r, Inside) /\ ~Doing(c, r, Inside)'
      BY <1>1 DEF Outside, Indexed, Doing, Inside, Seated, Deleting
    <3>2. ~Indexed(c, r)'
      BY <1>1, <2>1 DEF Outside, Indexed, Fd
    <3> QED BY <3>1, <3>2 DEF Same
  <2>3. \A d \in Conns \ {c} : Same(d, r)
    BY <1>1 DEF Same, Indexed, Outside
  <2> QED BY <2>1, <2>2, <2>3, FineKept
<1> QED BY <1>2, <1>3, <1>4, <1>5, <1>6, <1>7 DEF Inv

LEMMA AcceptStep ==
    ASSUME Inv, Tracked, NEW fd \in Fds, Accept(fd)
    PROVE  Inv'
<1>0. PICK c : c = nextClientId
  OBVIOUS
<1>1. PICK t : t = [NoThread EXCEPT !.fd = fd, !.at = "accepted"]
  OBVIOUS
<1>2. c \in Conns /\ c \in Nat /\ nextClientId' = c + 1 /\ nextClientId' \in 1 .. MaxConns + 1
  BY <1>0, ThreadsAssumption DEF Accept, Inv, TypeOK, Conns
<1>3. ~Active(c)
  BY <1>0, <1>2 DEF Inv, Descriptors
<1>4. t \in Thread /\ t.at = "accepted" /\ t.fd = fd /\ ~t.quitting /\ t.room = NoRoom
  BY <1>1, StepSets DEF NoThread, Thread, Steps
<1>5. Moves(c, t)
  BY <1>0, <1>1, <1>4 DEF Accept, Moves
<1>6. thread'[c] = t /\ \A d \in Conns \ {c} : thread'[d] = thread[d]
  BY <1>2, <1>5, MovesProperties DEF Inv
<1>7. Descriptors'
  <2>1. \A d \in Conns \ {c} :
            Fd(d)' = Fd(d) /\ (Active(d)' <=> Active(d)) /\ (Running(d)' <=> Running(d))
    BY <1>6 DEF Fd, Active, Running
  <2>2. Fd(c)' = fd /\ ~Running(c)'
    BY <1>4, <1>6 DEF Fd, Running
  <2>3. \A d \in Conns \ {c} : Active(d)' => d < c /\ Fd(d) \in open /\ Fd(d) # fd /\ d \in Nat
    BY <1>0, <2>1, StepSets DEF Inv, Descriptors, Accept
  <2>4. \A d \in Conns : Active(d)' => d < nextClientId' /\ Fd(d)' \in open'
    BY <1>2, <2>1, <2>2, <2>3 DEF Accept
  <2>5. \A d, e \in Conns : Active(d)' /\ Active(e)' /\ Fd(d)' = Fd(e)' => d = e
    BY <2>1, <2>2, <2>3 DEF Inv, Descriptors
  <2>6. ClientKnown'
    BY <2>1, <2>2 DEF Inv, Descriptors, ClientKnown, Accept
  <2> QED BY <2>4, <2>5, <2>6 DEF Descriptors
<1>8. Outside(c, t)
  <2>1. NoRoom < roomCounter
    BY DEF Inv, TypeOK, NoRoom
  <2>2. thread[c].at \in {"none", "done"}
    BY <1>3 DEF Active
  <2> QED BY <1>2, <1>4, <1>5, <2>1, <2>2 DEF Outside, Accept, Inv, TypeOK
<1> QED BY <1>2, <1>7, <1>8, OutsideInv

\* A connection that goes on to statement step outside, keeping its descriptor.
LEMMA OutsideGo ==
    ASSUME Inv, Tracked, NEW c \in Conns, NEW step \in {"idle", "closing", "done"}, Go(c, step),
           thread[c].at \in {"accepted", "erasing", "closing"},
           UNCHANGED <<live, rooms, roomOf, roomCounter, corrupted>>,
           open' \subseteq Fds, clients' \in [Fds -> Conns \cup {NoId}],
           nextClientId' \in 1 .. MaxConns + 1,
           thread'[c].fd = Fd(c) /\ thread'[c].at = step
               /\ (\A d \in Conns \ {c} : thread'[d] = thread[d]) => Descriptors'
    PROVE  Inv'
<1>1. PICK t : Arrives(c, t, step, thread[c].slot)
  BY GoGoes, GoesArrives DEF Steps
<1>2. Active(c) /\ roomOf[Fd(c)] = NoRoom /\ ~thread[c].quitting
  <2>1. Active(c)
    BY DEF Active
  <2> QED BY <2>1, NotIndexed DEF Inv, Quitting, Clearing
<1>3. Descriptors'
  BY <1>1, MovesProperties DEF Arrives, Inv
<1>4. Outside(c, t)
  <2>1. thread[c].room < roomCounter
    BY DEF Inv, NewIds
  <2> QED BY <1>1, <1>2, <2>1 DEF Outside, Arrives
<1> QED BY <1>3, <1>4, OutsideInv

LEMMA RegisterStep ==
    ASSUME Inv, Tracked, NEW c \in Conns, Register(c)
    PROVE  Inv'
<1>1. thread[c].at = "accepted" /\ Active(c) /\ Fd(c) \in Fds
  BY Locals DEF Register, At, Active
<1>2. /\ clients' \in [Fds -> Conns \cup {NoId}] /\ clients'[Fd(c)] = c
      /\ \A fd \in Fds \ {Fd(c)} : clients'[fd] = clients[fd]
  BY <1>1 DEF Register, Inv, TypeOK
<1>3. ASSUME thread'[c].fd = Fd(c), thread'[c].at = "idle",
             \A d \in Conns \ {c} : thread'[d] = thread[d]
      PROVE  Descriptors'
  <2>1. \A d \in Conns : Fd(d)' = Fd(d) /\ (Active(d)' <=> Active(d))
    BY <1>1, <1>3 DEF Fd, Active
  <2>2. \A d \in Conns \ {c} : Running(d)' => Running(d) /\ Active(d) /\ Fd(d) \in Fds /\ Fd(d) # Fd(c)
    BY <1>1, <1>3, Locals DEF Running, Active, Inv, Descriptors
  <2>3. Fd(c) \in open /\ open' = open /\ nextClientId' = nextClientId
    BY <1>1, Locals DEF Register
  <2>4. ClientKnown'
    BY <1>2, <2>1, <2>2, <2>3 DEF Inv, Descriptors, ClientKnown
  <2> QED BY <2>1, <2>3, <2>4 DEF Inv, Descriptors
<1> QED BY <1>1, <1>2, <1>3, OutsideGo DEF Register, Inv, TypeOK

LEMMA EraseClientStep ==
    ASSUME Inv, Tracked, NEW c \in Conns, EraseClient(c)
    PROVE  Inv'
<1>1. thread[c].at = "erasing" /\ Active(c) /\ Fd(c) \in Fds
  BY Locals DEF EraseClient, At, Active
<1>2. /\ clients' \in [Fds -> Conns \cup {NoId}]
      /\ \A fd \in Fds \ {Fd(c)} : clients'[fd] = clients[fd]
  BY <1>1 DEF EraseClient, Inv, TypeOK
<1>3. ASSUME thread'[c].fd = Fd(c), thread'[c].at = "closing",
             \A d \in Conns \ {c} : thread'[d] = thread[d]
      PROVE  Descriptors'
  <2>1. \A d \in Conns : Fd(d)' = Fd(d) /\ (Active(d)' <=> Active(d))
    BY <1>1, <1>3 DEF Fd, Active
  <2>2. \A d \in Conns : Running(d)' =>
            d # c /\ Running(d) /\ Active(d) /\ Fd(d) \in Fds /\ Fd(d) # Fd(c)
    BY <1>1, <1>3, Locals DEF Running, Active, Inv, Descriptors
  <2>3. open' = open /\ nextClientId' = nextClientId
    BY DEF EraseClient
  <2>4. ClientKnown'
    BY <1>2, <2>1, <2>2, <2>3 DEF Inv, Descriptors, ClientKnown
  <2> QED BY <2>1, <2>3, <2>4 DEF Inv, Descriptors
<1> QED BY <1>1, <1>2, <1>3, OutsideGo DEF EraseClient, Inv, TypeOK

LEMMA CloseStep ==
    ASSUME Inv, Tracked, NEW c \in Conns, Close(c)
    PROVE  Inv'
<1>1. thread[c].at = "closing" /\ Active(c) /\ Fd(c) \in Fds
  BY Locals DEF Close, At, Active
<1>2. ASSUME thread'[c].fd = Fd(c), thread'[c].at = "done",
             \A d \in Conns \ {c} : thread'[d] = thread[d]
      PROVE  Descriptors'
  <2>1. \A d \in Conns : Fd(d)' = Fd(d) /\ (Active(d)' => d # c /\ Active(d))
    BY <1>1, <1>2 DEF Fd, Active
  <2>2. \A d \in Conns : Active(d)' => Fd(d) # Fd(c)
    BY <1>1, <2>1 DEF Inv, Descriptors
  <2>3. \A d \in Conns : Running(d)' => Running(d) /\ Active(d)'
    BY <1>1, <1>2 DEF Running, Active
  <2>4. open' = open \ {Fd(c)} /\ nextClientId' = nextClientId /\ clients' = clients
    BY DEF Close
  <2>5. ClientKnown'
    BY <2>1, <2>2, <2>3, <2>4 DEF Inv, Descriptors, ClientKnown
  <2> QED BY <2>1, <2>2, <2>4, <2>5 DEF Inv, Descriptors
<1> QED BY <1>1, <1>2, OutsideGo DEF Close, Inv, TypeOK

\* After the use of a deleted room the model says nothing; the step changes nothing else.
LEMMA TouchFreedStep ==
    ASSUME Inv, Tracked, NEW c \in Conns, TouchFreed(c)
    PROVE  Inv'
<1>1. UNCHANGED <<open, clients, nextClientId, live, rooms, roomOf, roomCounter, thread>>
      /\ corrupted' \in BOOLEAN
  BY DEF TouchFreed
<1>2. ASSUME NEW r \in Ordered' PROVE Fine(r)'
  <2>1. r \in Ordered /\ Fine(r) /\ rooms'[r] = rooms[r]
    BY <1>1, <1>2, OrderedKept DEF Inv
  <2>2. \A d \in Conns : Same(d, r)
    BY <1>1 DEF Same, Indexed, Fd
  <2> QED BY <2>1, <2>2, FineKept
<1>3. TypeOK'
  <2>1. contended' \subseteq RoomIds
    BY DEF Tracked, Contended, Inv, TypeOK
  <2> QED BY <1>1, <2>1 DEF Inv, TypeOK
<1>4. Descriptors' /\ IndexOwned'
  BY <1>1 DEF Inv, Descriptors, ClientKnown, Active, Running, Fd, IndexOwned
<1>5. Quitting' /\ NewIds' /\ Recorded'
  BY <1>1 DEF Inv, Quitting, NewIds, Recorded, Tracked, Fd
<1> QED BY <1>2, <1>3, <1>4, <1>5 DEF Inv

-----------------------------------------------------------------------------
(* The theorems.                                                             *)

LEMMA InitInv == Init => Inv
<1> SUFFICES ASSUME Init PROVE Inv
  OBVIOUS
<1>1. TypeOK
  <2>1. rooms \in [RoomIds -> Room] /\ thread \in [Conns -> Thread]
    BY StepSets DEF Init
  <2>2. nextClientId \in 1 .. MaxConns + 1 /\ roomCounter \in 1 .. MaxRooms + 1
    BY ThreadsAssumption DEF Init
  <2>3. clients \in [Fds -> Conns \cup {NoId}] /\ roomOf \in [Fds -> RoomIds \cup {NoRoom}]
    BY DEF Init
  <2> QED BY <2>1, <2>2, <2>3 DEF Init, TypeOK
<1>2. \A c \in Conns : thread[c].at = "none" /\ ~thread[c].quitting /\ thread[c].room = NoRoom
  BY DEF Init, NoThread
<1>3. Descriptors /\ IndexOwned /\ Quitting
  BY <1>2 DEF Init, Descriptors, Active, ClientKnown, Running, IndexOwned, Quitting
<1>4. NewIds
  BY <1>2 DEF Init, NewIds, NoRoom
<1>5. Recorded
  BY <1>2 DEF Recorded, Contended, Writes, Writing, Filling, Clearing
<1>6. Ordered = {}
  BY DEF Init, Ordered
<1> QED BY <1>1, <1>3, <1>4, <1>5, <1>6 DEF Inv

LEMMA StepInv ==
    ASSUME Inv, Tracked, NEW c \in Conns, Step(c)
    PROVE  Inv'
<1>1. CASE Register(c)
  BY <1>1, RegisterStep
<1>2. CASE EraseClient(c)
  BY <1>2, EraseClientStep
<1>3. CASE Close(c)
  BY <1>3, CloseStep
<1>4. CASE CreateRoom(c)
  BY <1>4, CreateRoomStep
<1>5. CASE \E r \in RoomIds : JoinRoom(c, r)
  BY <1>5, JoinRoomStep
<1>6. CASE FindFreeSlot(c)
  BY <1>6, FindFreeSlotStep
<1>7. CASE FillSlot(c)
  BY <1>7, FillSlotStep
<1>8. CASE TestHost(c)
  BY <1>8, TestHostStep
<1>9. CASE TakeHost(c)
  BY <1>9, TakeHostStep
<1>10. CASE IndexRoom(c)
  BY <1>10, IndexRoomStep
<1>11. CASE LookUpRoom(c)
  BY <1>11, LookUpRoomStep
<1>12. CASE SendState(c)
  BY <1>12, SendStateStep
<1>13. CASE ExitRoom(c)
  BY <1>13, ExitRoomStep
<1>14. CASE HangUp(c)
  BY <1>14, HangUpStep
<1>15. CASE FindOwnSlot(c)
  BY <1>15, FindOwnSlotStep
<1>16. CASE ClearSlot(c)
  BY <1>16, ClearSlotStep
<1>17. CASE Unhost(c)
  BY <1>17, UnhostStep
<1>18. CASE ElectHost(c)
  BY <1>18, ElectHostStep
<1>19. CASE CountPlayers(c)
  BY <1>19, CountPlayersStep
<1>20. CASE DeleteRoom(c)
  BY <1>20, DeleteRoomStep
<1>21. CASE TouchFreed(c)
  BY <1>21, TouchFreedStep
<1> QED BY <1>1, <1>2, <1>3, <1>4, <1>5, <1>6, <1>7, <1>8, <1>9, <1>10, <1>11, <1>12, <1>13,
           <1>14, <1>15, <1>16, <1>17, <1>18, <1>19, <1>20, <1>21 DEF Step

LEMMA NextInv == Inv /\ [Next]_vars => Inv'
<1> SUFFICES ASSUME Inv, [Next]_vars PROVE Inv'
  OBVIOUS
<1>1. CASE Next
  <2>1. Tracked
    BY <1>1 DEF Next, Tracked
  <2> QED BY <1>1, <2>1, AcceptStep, StepInv DEF Next
<1>2. CASE UNCHANGED vars
  <2>1. UNCHANGED <<open, clients, nextClientId, live, roomOf, roomCounter, corrupted,
                    rooms, thread, contended>>
    BY <1>2 DEF vars, maps
  <2>2. TypeOK' /\ Descriptors' /\ IndexOwned' /\ Quitting' /\ NewIds'
    BY <2>1 DEF Inv, TypeOK, Descriptors, ClientKnown, Active, Running, Fd, IndexOwned,
                Quitting, NewIds
  <2>3. Recorded'
    BY <2>1 DEF Inv, Recorded, Contended, Writes
  <2>4. ASSUME NEW r \in Ordered' PROVE Fine(r)'
    <3>1. r \in Ordered /\ Fine(r) /\ rooms'[r] = rooms[r]
      BY <2>1, <2>4 DEF Inv, Ordered
    <3>2. \A d \in Conns : Same(d, r)
      BY <2>1 DEF Same, Indexed, Fd
    <3> QED BY <3>1, <3>2, FineKept
  <2> QED BY <2>2, <2>3, <2>4 DEF Inv
<1> QED BY <1>1, <1>2

THEOREM Inductive == Spec => []Inv
BY InitInv, NextInv, PTL DEF Spec

\* Every map, counter and local keeps its type, for every number of threads.
THEOREM TypeCorrect == Spec => []TypeOK
<1>1. Inv => TypeOK
  BY DEF Inv
<1> QED BY <1>1, Inductive, PTL

\* No thread reads or erases the entry that another connection has in clients_
\* under the same descriptor (server.cpp:83-88).
THEOREM ClientKnownHolds == Spec => []ClientKnown
<1>1. Inv => ClientKnown
  BY DEF Inv, Descriptors
<1> QED BY <1>1, Inductive, PTL

\* However the threads interleave, and whatever they make of the slots, an entry of
\* fd_to_room_ is that of a connection that stays (room_manager.cpp:14, 45, 70, 82-84).
THEOREM IndexOwnedHolds == Spec => []IndexOwned
<1>1. Inv => IndexOwned
  BY DEF Inv
<1> QED BY <1>1, Inductive, PTL

\* In a room whose slots no two threads ever write at once, a seat is that of a running
\* connection, the one whose id it shows (room.cpp:28-64).
THEOREM SeatOwnedHolds == Spec => []SeatOwned
<1>1. ASSUME Inv PROVE SeatOwned
  <2> SUFFICES ASSUME NEW r \in Ordered, Settled(r), NEW i \in Occupied(rooms[r]),
                      NEW slot, slot = rooms[r].slots[i]
               PROVE  /\ slot.cid \in Conns
                      /\ Running(slot.cid)
                      /\ ~At(slot.cid, "erasing")
                      /\ Fd(slot.cid) = slot.fd
    BY DEF SeatOwned
  <2>1. PICK c \in Conns : Sits(c, r, i)
    BY <1>1 DEF Inv, Fine, Seats
  <2>2. ~Doing(c, r, {"writingFd"}) /\ ~Doing(c, r, {"writingFd", "writingId"})
    BY DEF Settled, Writes, Doing, Writing, Filling
  <2>3. slot.cid = c /\ slot.fd = Fd(c)
    BY <2>1, <2>2 DEF Sits
  <2>4. Running(c) /\ ~At(c, "erasing")
    BY <2>1 DEF Sits, Holder, Indexed, Doing, Seated, Running, At
  <2> QED BY <2>3, <2>4
<1> QED BY <1>1, Inductive, PTL

\* A client in such a room has exactly one seat there, however joins, departures
\* elsewhere and reuses of descriptors race.
THEOREM SeatKeptHolds == Spec => []SeatKept
<1>1. ASSUME Inv PROVE SeatKept
  <2> SUFFICES ASSUME NEW c \in Conns, Running(c), NEW r \in Ordered, roomOf[Fd(c)] = r
               PROVE  \E i \in SlotIdx :
                          {j \in Occupied(rooms[r]) : rooms[r].slots[j].fd = Fd(c)} = {i}
    BY DEF SeatKept
  <2>1. Active(c) /\ r # NoRoom
    BY <1>1, Locals, StepSets DEF Inv, TypeOK, Ordered, NoRoom
  <2>2. Indexed(c, r) /\ Holder(c, r)
    BY <1>1, <2>1, NotIndexed DEF Indexed, Holder
  <2>3. PICK i \in Occupied(rooms[r]) :
            Sits(c, r, i) /\ \A j \in Occupied(rooms[r]) \ {i} : ~Sits(c, r, j)
    BY <1>1, <2>2, OwnSeat
  <2>4. i \in SlotIdx /\ rooms[r].slots[i].fd = Fd(c)
    BY <2>2, <2>3 DEF Sits, Doing, Indexed, Occupied
  <2>5. \A j \in Occupied(rooms[r]) : rooms[r].slots[j].fd = Fd(c) => j = i
    BY <1>1, <2>1, <2>3, OthersSlots
  <2> QED BY <2>3, <2>4, <2>5
<1> QED BY <1>1, Inductive, PTL

\* Such a room with players has one of them as its host whenever nobody is at work on
\* it (room.cpp:39, :63, :272-281).
THEOREM HostSeatedHolds == Spec => []HostSeated
<1>1. ASSUME Inv PROVE HostSeated
  <2> SUFFICES ASSUME NEW r \in Ordered, Settled(r)
               PROVE  \/ rooms[r].host \in Occupied(rooms[r])
                      \/ rooms[r].host = NoHost /\ Occupied(rooms[r]) = {}
    BY DEF HostSeated
  <2>1. \A c \in Conns : ~Doing(c, r, Writing \ {"occupying", "vacating"})
    BY DEF Settled, Writes, Doing
  <2> QED BY <1>1, <2>1 DEF Inv, Fine, Host, HostOK
<1> QED BY <1>1, Inductive, PTL

\* Such a room, once empty, is still to be counted or to be deleted by somebody
\* (room_manager.cpp:85-97).
THEOREM RoomsNotLeakedHolds == Spec => []RoomsNotLeaked
<1>1. ASSUME Inv PROVE RoomsNotLeaked
  <2> SUFFICES ASSUME NEW r \in Ordered, Settled(r), Occupied(rooms[r]) = {}
               PROVE  \E c \in Conns : thread[c].at \in {"counting", "deleting"} /\ thread[c].room = r
    BY DEF RoomsNotLeaked
  <2>1. PICK c \in Conns : Doing(c, r, Deleting)
    BY <1>1 DEF Inv, Fine, Leak
  <2>2. ~Writes(c, r)
    BY DEF Settled
  <2> QED BY <2>1, <2>2 DEF Doing, Deleting, Writes, Writing, Clearing
<1> QED BY <1>1, Inductive, PTL

=============================================================================
