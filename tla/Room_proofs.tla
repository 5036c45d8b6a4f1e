----------------------------- MODULE Room_proofs -----------------------------
(***************************************************************************)
(* Facts about the methods of Room, for every number of slots and every    *)
(* set of descriptors.  Each lemma says what a method does to a well-formed *)
(* room in terms of who is seated where, so that the proofs about the      *)
(* server need not look at the choice of slots again.                      *)
(***************************************************************************)
EXTENDS Room, TLAPS, FiniteSetTheorems, NaturalsInduction, WellFoundedInduction

LessThan == {p \in Nat \X Nat : p[1] < p[2]}

\* A non-empty set of naturals has a least element, and Min is that element.
LEMMA MinOfNats ==
    ASSUME NEW S \in SUBSET Nat, S # {}
    PROVE  Min(S) \in S /\ \A y \in S : Min(S) <= y
<1>1. IsWellFoundedOn(LessThan, Nat)
  BY NatLessThanWellFounded, Zenon DEF OpToRel, LessThan
<1>2. PICK x \in S : \A y \in S : <<y, x>> \notin LessThan
  BY <1>1, WFMin, Zenon
<1>3. ASSUME NEW y \in S, ~(x <= y) PROVE FALSE
  <2>1. <<y, x>> \in Nat \X Nat /\ <<y, x>>[1] < <<y, x>>[2]
    BY <1>3
  <2>2. <<y, x>> \in LessThan
    BY <2>1, Zenon DEF LessThan
  <2> QED BY <1>2, <2>2
<1> QED BY <1>3 DEF Min

\* A set of slots is a finite set of naturals; a non-empty one has a lowest slot.
LEMMA LowestSlot ==
    ASSUME NEW S \in SUBSET SlotIdx
    PROVE  /\ S # {} => Min(S) \in S
           /\ IsFiniteSet(S)
           /\ Cardinality(S) \in Nat
           /\ Cardinality(S) = 0 <=> S = {}
<1>1. S \in SUBSET Nat /\ IsFiniteSet(SlotIdx)
  BY RoomAssumption, FS_Interval DEF SlotIdx
<1>2. IsFiniteSet(S)
  BY <1>1, FS_Subset
<1> QED BY <1>1, <1>2, MinOfNats, FS_EmptySet, FS_CardinalityType

-----------------------------------------------------------------------------
\* A seated descriptor has one slot only, and slots hold descriptors or nothing.
SingleSeats(rm) ==
    \A i, j \in Occupied(rm) : rm.slots[i].fd = rm.slots[j].fd => i = j

\* What every room in rooms_ satisfies.
RoomOK(rm) ==
    /\ rm \in RoomType
    /\ rm.host \in Occupied(rm)
    /\ SingleSeats(rm)

\* Every seat of new was the same client's seat in rm.
SeatsFrom(new, rm) ==
    \A i \in Occupied(new) :
        /\ i \in Occupied(rm)
        /\ new.slots[i].fd = rm.slots[i].fd
        /\ new.slots[i].cid = rm.slots[i].cid

\* Who is a member, in terms of slots.
LEMMA MemberSeat ==
    ASSUME NEW rm \in RoomType
    PROVE  /\ \A fd \in Fds : fd \in Members(rm) <=> \E i \in Occupied(rm) : rm.slots[i].fd = fd
           /\ \A i \in Occupied(rm) : rm.slots[i].fd \in Members(rm)
           /\ Members(rm) \subseteq Fds
BY RoomAssumption DEF Members, SlotsOf, Occupied, RoomType, Slot

\* find_slot_by_fd of a member finds an occupied slot that holds it.
LEMMA FoundSlot ==
    ASSUME NEW rm \in RoomType, NEW fd \in Members(rm)
    PROVE  /\ SlotOf(rm, fd) \in Occupied(rm)
           /\ rm.slots[SlotOf(rm, fd)].fd = fd
<1>1. SlotsOf(rm, fd) \in SUBSET SlotIdx /\ SlotsOf(rm, fd) # {}
  BY DEF SlotsOf, Members
<1>2. SlotOf(rm, fd) \in SlotsOf(rm, fd)
  BY <1>1, LowestSlot DEF SlotOf
<1> QED BY <1>2, RoomAssumption DEF SlotsOf, Occupied, Members

\* With single seats, find_slot_by_fd is the only slot of the descriptor.
LEMMA OneSlot ==
    ASSUME NEW rm \in RoomType, SingleSeats(rm), NEW fd \in Members(rm)
    PROVE  SlotsOf(rm, fd) = {SlotOf(rm, fd)}
BY FoundSlot, RoomAssumption DEF SlotsOf, Occupied, SingleSeats, Members

\* A room is empty when player_count is 0.
LEMMA EmptyRoom ==
    ASSUME NEW rm \in RoomType
    PROVE  /\ PlayerCount(rm) \in Nat
           /\ PlayerCount(rm) = 0 <=> Occupied(rm) = {}
BY LowestSlot DEF PlayerCount, Occupied

LEMMA NewRoomType == NewRoom \in RoomType /\ Occupied(NewRoom) = {}
BY RoomAssumption DEF NewRoom, RoomType, Occupied, Slot, FreeSlot, NoHost, NoEntry, Progress, SlotIdx

-----------------------------------------------------------------------------
\* add_player seats the newcomer in a free slot, moves nobody and leaves an
\* existing host in place.
LEMMA AddPlayerSeats ==
    ASSUME NEW rm \in RoomType, Free(rm) # {}, SingleSeats(rm),
           rm.host \in Occupied(rm) \/ (Occupied(rm) = {} /\ rm.host = NoHost),
           NEW fd \in Fds \ Members(rm), NEW cid \in Nat, NEW name \in Names \cup {NoName}
    PROVE  LET new == AddPlayer(rm, fd, cid, name)
           IN  /\ RoomOK(new)
               /\ Members(new) = Members(rm) \cup {fd}
               /\ \A i \in Occupied(new) :
                     \/ new.slots[i].fd = fd /\ new.slots[i].cid = cid
                     \/ i \in Occupied(rm) /\ new.slots[i] = rm.slots[i]
               /\ rm.host \in Occupied(rm) =>
                     new.host = rm.host /\ new.slots[rm.host] = rm.slots[rm.host]
<1> DEFINE new == AddPlayer(rm, fd, cid, name)
           k == Min(Free(rm))
           seat == [fd |-> fd, cid |-> cid, name |-> name, ready |-> FALSE]
<1>1. k \in SlotIdx /\ k \notin Occupied(rm)
  BY LowestSlot DEF Free
<1>2. seat \in Slot
  BY DEF Slot
<1>3. /\ new.slots = [rm.slots EXCEPT ![k] = seat]
      /\ new.host = IF rm.host = NoHost THEN k ELSE rm.host
      /\ new \in RoomType
  BY <1>1, <1>2 DEF AddPlayer, RoomType
<1> HIDE DEF new, k
<1>4. /\ new.slots[k] = seat
      /\ \A i \in SlotIdx \ {k} : new.slots[i] = rm.slots[i]
  BY <1>1, <1>3 DEF RoomType
<1>5. Occupied(new) = Occupied(rm) \cup {k}
  BY <1>1, <1>4, RoomAssumption DEF Occupied
<1>6. /\ new.host \in Occupied(new)
      /\ rm.host \in Occupied(rm) =>
            new.host = rm.host /\ new.slots[rm.host] = rm.slots[rm.host]
  <2>1. NoHost \notin SlotIdx
    BY RoomAssumption DEF SlotIdx, NoHost
  <2> QED BY <2>1, <1>1, <1>3, <1>4, <1>5 DEF Occupied
<1>7. SingleSeats(new)
  BY <1>1, <1>4, <1>5, MemberSeat DEF SingleSeats, Occupied
<1>8. Members(new) = Members(rm) \cup {fd}
  <2>1. ASSUME NEW f \in Members(rm) PROVE f \in Members(new)
    <3>1. PICK i \in Occupied(rm) : rm.slots[i].fd = f
      BY MemberSeat
    <3>2. i \in Occupied(new) /\ new.slots[i].fd = f
      BY <1>1, <1>4, <1>5, <3>1 DEF Occupied
    <3> QED BY <1>3, <3>2, MemberSeat
  <2>2. fd \in Members(new)
    <3>1. k \in Occupied(new) /\ new.slots[k].fd = fd
      BY <1>4, <1>5
    <3> QED BY <1>3, <3>1, MemberSeat
  <2>3. ASSUME NEW f \in Members(new) PROVE f \in Members(rm) \cup {fd}
    <3>1. f \in Fds /\ \E i \in Occupied(new) : new.slots[i].fd = f
      BY <1>3, MemberSeat
    <3> QED BY <1>1, <1>4, <1>5, <3>1, MemberSeat DEF Occupied
  <2> QED BY <2>1, <2>2, <2>3
<1>9. \A i \in Occupied(new) :
         \/ new.slots[i].fd = fd /\ new.slots[i].cid = cid
         \/ i \in Occupied(rm) /\ new.slots[i] = rm.slots[i]
  BY <1>4, <1>5 DEF Occupied
<1> QED BY <1>3, <1>6, <1>7, <1>8, <1>9 DEF RoomOK, new

\* remove_player takes out the one member and no other; a room that is not empty
\* afterwards has a host who is seated.
LEMMA RemovePlayerSeats ==
    ASSUME NEW rm, RoomOK(rm), NEW fd \in Members(rm)
    PROVE  LET new == RemovePlayer(rm, fd)
           IN  /\ new \in RoomType
               /\ Occupied(new) # {} => RoomOK(new)
               /\ Members(new) = Members(rm) \ {fd}
               /\ SeatsFrom(new, rm)
               /\ \A f \in Fds \ {fd} : new.metrics[f] = rm.metrics[f]
               /\ new.metrics[fd] = NoEntry
<1> DEFINE new == RemovePlayer(rm, fd)
           k == SlotOf(rm, fd)
           mid == [rm EXCEPT !.slots[k] = FreeSlot, !.metrics[fd] = NoEntry]
<1>1. rm \in RoomType /\ SingleSeats(rm) /\ fd \in Fds
  BY MemberSeat DEF RoomOK
<1>2. k \in Occupied(rm) /\ rm.slots[k].fd = fd /\ k \in SlotIdx
  BY <1>1, FoundSlot DEF Occupied
<1>3. FreeSlot \in Slot /\ NoEntry \in Progress /\ FreeSlot.fd = NoFd
  BY RoomAssumption DEF Slot, FreeSlot, Progress, NoEntry
<1>4. /\ mid \in RoomType
      /\ mid.slots = [rm.slots EXCEPT ![k] = FreeSlot]
      /\ mid.metrics = [rm.metrics EXCEPT ![fd] = NoEntry]
  BY <1>1, <1>2, <1>3 DEF RoomType
<1>5. Occupied(mid) \in SUBSET SlotIdx
  BY DEF Occupied
<1>6. /\ new = RecalculateHost(mid)
      /\ new \in RoomType
      /\ new.slots = mid.slots
      /\ new.metrics = mid.metrics
      /\ Occupied(new) # {} => new.host \in Occupied(new)
  <2>1. new = RecalculateHost(mid)
    BY DEF RemovePlayer
  <2>2. Occupied(mid) # {} => Min(Occupied(mid)) \in Occupied(mid)
    BY <1>5, LowestSlot
  <2>3. /\ new \in RoomType
        /\ new.slots = mid.slots
        /\ new.metrics = mid.metrics
        /\ new.host = IF Occupied(mid) = {} THEN NoHost ELSE Min(Occupied(mid))
    <3> HIDE DEF mid, new
    <3> QED BY <1>4, <1>5, <2>1, <2>2 DEF RecalculateHost, RoomType
  <2>4. Occupied(new) = Occupied(mid)
    BY <2>3 DEF Occupied
  <2> QED BY <2>1, <2>2, <2>3, <2>4
<1> HIDE DEF new, mid
<1>7. /\ new.slots[k] = FreeSlot
      /\ \A i \in SlotIdx \ {k} : new.slots[i] = rm.slots[i]
  BY <1>1, <1>2, <1>4, <1>6 DEF RoomType
<1>8. Occupied(new) = Occupied(rm) \ {k}
  BY <1>2, <1>3, <1>7 DEF Occupied
<1>9. SeatsFrom(new, rm) /\ SingleSeats(new)
  BY <1>1, <1>7, <1>8 DEF SeatsFrom, SingleSeats, Occupied
<1>10. Members(new) = Members(rm) \ {fd}
  BY <1>1, <1>2, <1>6, <1>7, <1>8, MemberSeat DEF SingleSeats, Occupied
<1>11. /\ \A f \in Fds \ {fd} : new.metrics[f] = rm.metrics[f]
       /\ new.metrics[fd] = NoEntry
  BY <1>1, <1>4, <1>6 DEF RoomType
<1> QED BY <1>6, <1>9, <1>10, <1>11 DEF RoomOK, new

-----------------------------------------------------------------------------
\* The other methods move nobody: the same clients in the same seats, with the
\* same host.
SameSeats(new, rm) ==
    /\ RoomOK(new)
    /\ Members(new) = Members(rm)
    /\ SeatsFrom(new, rm)
    /\ new.host = rm.host

LEMMA KeepSeats ==
    ASSUME NEW rm, RoomOK(rm), NEW new \in RoomType, new.host = rm.host,
           \A i \in SlotIdx : /\ new.slots[i].fd = rm.slots[i].fd
                              /\ new.slots[i].cid = rm.slots[i].cid
    PROVE  SameSeats(new, rm)
<1>1. Occupied(new) = Occupied(rm)
  BY DEF Occupied
<1>2. Members(new) = Members(rm)
  BY DEF Members, SlotsOf
<1> QED BY <1>1, <1>2 DEF SameSeats, RoomOK, SeatsFrom, SingleSeats, Occupied

LEMMA SetReadySeats ==
    ASSUME NEW rm, RoomOK(rm), NEW fd \in Members(rm), NEW ready \in BOOLEAN
    PROVE  SameSeats(SetReady(rm, fd, ready), rm)
<1> DEFINE new == SetReady(rm, fd, ready)
           k == SlotOf(rm, fd)
<1>1. rm \in RoomType /\ k \in SlotIdx
  BY FoundSlot DEF RoomOK, Occupied
<1> HIDE DEF k
<1>2. new = [rm EXCEPT !.slots[k].ready = ready]
  BY DEF SetReady, k
<1> DEFINE seat == [rm.slots[k] EXCEPT !.ready = ready]
<1>3. rm.slots[k] \in Slot /\ rm.slots \in [SlotIdx -> Slot]
  BY <1>1 DEF RoomType
<1>4. seat \in Slot /\ seat.fd = rm.slots[k].fd /\ seat.cid = rm.slots[k].cid
  BY <1>3 DEF Slot
<1> HIDE DEF seat
<1>5. new = [rm EXCEPT !.slots = [rm.slots EXCEPT ![k] = seat]]
  BY <1>2 DEF seat
<1>6. new \in RoomType /\ new.host = rm.host /\ new.slots = [rm.slots EXCEPT ![k] = seat]
  BY <1>1, <1>3, <1>4, <1>5 DEF RoomType
<1>7. \A i \in SlotIdx : /\ new.slots[i].fd = rm.slots[i].fd
                         /\ new.slots[i].cid = rm.slots[i].cid
  BY <1>1, <1>3, <1>4, <1>6
<1> HIDE DEF new
<1>8. SameSeats(new, rm)
  BY <1>6, <1>7, KeepSeats
<1> QED BY <1>8 DEF new

LEMMA UpdateDisplayNameSeats ==
    ASSUME NEW rm, RoomOK(rm), NEW fd \in Members(rm), NEW name \in Names
    PROVE  SameSeats(UpdateDisplayName(rm, fd, name), rm)
<1> DEFINE new == UpdateDisplayName(rm, fd, name)
           k == SlotOf(rm, fd)
<1>1. rm \in RoomType /\ k \in SlotIdx
  BY FoundSlot DEF RoomOK, Occupied
<1> HIDE DEF k
<1>2. new = [rm EXCEPT !.slots[k].name = name]
  BY DEF UpdateDisplayName, k
<1> DEFINE seat == [rm.slots[k] EXCEPT !.name = name]
<1>3. rm.slots[k] \in Slot /\ rm.slots \in [SlotIdx -> Slot]
  BY <1>1 DEF RoomType
<1>4. seat \in Slot /\ seat.fd = rm.slots[k].fd /\ seat.cid = rm.slots[k].cid
  BY <1>3 DEF Slot
<1> HIDE DEF seat
<1>5. new = [rm EXCEPT !.slots = [rm.slots EXCEPT ![k] = seat]]
  BY <1>2 DEF seat
<1>6. new \in RoomType /\ new.host = rm.host /\ new.slots = [rm.slots EXCEPT ![k] = seat]
  BY <1>1, <1>3, <1>4, <1>5 DEF RoomType
<1>7. \A i \in SlotIdx : /\ new.slots[i].fd = rm.slots[i].fd
                         /\ new.slots[i].cid = rm.slots[i].cid
  BY <1>1, <1>3, <1>4, <1>6
<1> HIDE DEF new
<1>8. SameSeats(new, rm)
  BY <1>6, <1>7, KeepSeats
<1> QED BY <1>8 DEF new

LEMMA SetPrivateSeats ==
    ASSUME NEW rm, RoomOK(rm), NEW private \in BOOLEAN
    PROVE  SameSeats(SetPrivate(rm, private), rm)
<1> DEFINE new == SetPrivate(rm, private)
<1>1. new \in RoomType /\ new.host = rm.host /\ new.slots = rm.slots
  BY DEF SetPrivate, RoomOK, RoomType
<1> HIDE DEF new
<1>2. SameSeats(new, rm)
  BY <1>1, KeepSeats
<1> QED BY <1>2 DEF new

LEMMA StartGameSeats ==
    ASSUME NEW rm, RoomOK(rm)
    PROVE  /\ SameSeats(StartGame(rm), rm)
           /\ StartGame(rm).slots = rm.slots
           /\ StartGame(rm).private = rm.private /\ StartGame(rm).host = rm.host
<1> DEFINE new == StartGame(rm)
<1>1. 0 \in Progress
  BY RoomAssumption DEF Progress, NoEntry
<1>2. /\ new \in RoomType
      /\ new.host = rm.host /\ new.slots = rm.slots /\ new.private = rm.private
  BY <1>1 DEF StartGame, RoomOK, RoomType
<1> HIDE DEF new
<1>3. SameSeats(new, rm)
  BY <1>2, KeepSeats
<1> QED BY <1>2, <1>3 DEF new

LEMMA ProcessInputSeats ==
    ASSUME NEW rm, RoomOK(rm), NEW fd \in Fds, NEW w \in Int
    PROVE  /\ SameSeats(ProcessInput(rm, fd, w), rm)
           /\ ProcessInput(rm, fd, w).slots = rm.slots
           /\ ProcessInput(rm, fd, w).private = rm.private
           /\ ProcessInput(rm, fd, w).host = rm.host
<1> DEFINE new == ProcessInput(rm, fd, w)
<1>1. rm \in RoomType /\ rm.metrics[fd] \in Progress
  BY DEF RoomOK, RoomType
<1>2. NextWord(rm.metrics[fd], w) \in Progress
  BY <1>1 DEF NextWord, Progress, NoEntry
<1>3. /\ new \in RoomType
      /\ new.host = rm.host /\ new.slots = rm.slots /\ new.private = rm.private
  BY <1>1, <1>2 DEF ProcessInput, RoomType
<1> HIDE DEF new
<1>4. SameSeats(new, rm)
  BY <1>3, KeepSeats
<1> QED BY <1>3, <1>4 DEF new

LEMMA EndGameSeats ==
    ASSUME NEW rm, RoomOK(rm)
    PROVE  SameSeats(EndGame(rm), rm)
<1> DEFINE new == EndGame(rm)
<1>1. /\ new \in RoomType
      /\ new.host = rm.host
      /\ \A i \in SlotIdx : /\ new.slots[i].fd = rm.slots[i].fd
                            /\ new.slots[i].cid = rm.slots[i].cid
  BY DEF EndGame, RoomOK, RoomType, Slot
<1> HIDE DEF new
<1>2. SameSeats(new, rm)
  BY <1>1, KeepSeats
<1> QED BY <1>2 DEF new
=============================================================================
