-------------------------- MODULE RoomServer_proofs --------------------------
(***************************************************************************)
(* Theorems about RoomServer for every set of descriptors, names and       *)
(* accounts, every number of slots and words, and every bound on           *)
(* connections and rooms.                                                  *)
(*                                                                         *)
(* Membership, HostSeated, SlotIdentity and ToldCurrent are not inductive  *)
(* one by one: a join preserves Membership only if the joiner is seated    *)
(* nowhere, which the index roomOf says; a departure keeps the host seated *)
(* only if the room is not empty; a hang-up preserves SlotIdentity only if *)
(* the descriptor has left its one seat.  Inv joins them.                  *)
(***************************************************************************)
EXTENDS RoomServer, Room_proofs

RoomsOK == \A r \in live : RoomOK(rooms[r])

\* fd_to_room_ is the inverse of "is seated in".
Index ==
    \A fd \in Fds, r \in RoomIds :
        roomOf[fd] = r <=> r \in live /\ fd \in Members(rooms[r])

LiveBelow == \A r \in live : r < roomCounter

SeatingType ==
    /\ live \in SUBSET RoomIds
    /\ rooms \in [RoomIds -> RoomType]
    /\ roomOf \in [Fds -> RoomIds \cup {NoRoom}]
    /\ told \in [Fds -> RoomStateType \cup {NotTold}]

Seating ==
    /\ SeatingType
    /\ RoomsOK
    /\ Index
    /\ SlotIdentity
    /\ ToldCurrent

Inv ==
    /\ TypeOK
    /\ Seating
    /\ UniqueIds
    /\ LiveBelow

-----------------------------------------------------------------------------
LEMMA NoRoomId == NoRoom \notin RoomIds
BY ServerAssumption DEF NoRoom, RoomIds

\* A broadcast tells the members of the room, and only them.
LEMMA BroadcastTells ==
    ASSUME SeatingType, NEW r \in RoomIds, NEW rm \in RoomType
    PROVE  LET t == BroadcastRoomState(r, rm)
           IN  /\ t \in [Fds -> RoomStateType \cup {NotTold}]
               /\ \A f \in Members(rm) : t[f] = RoomState(r, rm)
               /\ \A f \in Fds \ Members(rm) : t[f] = told[f]
<1>1. RoomState(r, rm) \in RoomStateType
  BY DEF RoomState, RoomStateType, RoomType
<1> QED BY <1>1, MemberSeat DEF BroadcastRoomState, SeatingType

\* Handlers that touch no room: nobody who is seated changes its client_id.
LEMMA RoomsUntouched ==
    ASSUME Inv, UNCHANGED roomVars,
           \A fd \in Fds : roomOf[fd] # NoRoom =>
                clients'[fd] # NoClient /\ clients'[fd].id = clients[fd].id
    PROVE  Seating'
<1>1. SeatingType' /\ RoomsOK' /\ Index' /\ ToldCurrent'
  BY DEF Inv, Seating, SeatingType, RoomsOK, Index, ToldCurrent, roomVars
<1>2. SlotIdentity'
  <2> SUFFICES ASSUME NEW r \in live, NEW i \in Occupied(rooms[r])
               PROVE  LET slot == rooms[r].slots[i]
                      IN  clients'[slot.fd] # NoClient /\ slot.cid = clients'[slot.fd].id
    BY DEF SlotIdentity, Connected, roomVars
  <2> DEFINE slot == rooms[r].slots[i]
  <2>1. r \in RoomIds /\ rooms[r] \in RoomType
    BY DEF Inv, Seating, SeatingType
  <2>2. slot.fd \in Fds /\ slot.fd \in Members(rooms[r])
    BY <2>1, MemberSeat
  <2>3. roomOf[slot.fd] = r
    BY <2>1, <2>2 DEF Inv, Seating, Index
  <2>4. roomOf[slot.fd] # NoRoom
    BY <2>1, <2>3, NoRoomId
  <2>5. slot.cid = clients[slot.fd].id
    BY DEF Inv, Seating, SlotIdentity
  <2> QED BY <2>2, <2>4, <2>5
<1> QED BY <1>1, <1>2 DEF Seating

\* Handlers that change one room and move nobody: ready, unready, privacy, name,
\* start of a game, input.  Either they broadcast, or room_state does not change.
LEMMA RoomChanged ==
    ASSUME Inv, NEW r \in live, NEW new, SameSeats(new, rooms[r]),
           rooms' = [rooms EXCEPT ![r] = new],
           UNCHANGED <<live, roomOf>>,
           \A fd \in Fds : /\ clients[fd] # NoClient => clients'[fd] # NoClient
                           /\ clients'[fd].id = clients[fd].id,
           \/ told' = BroadcastRoomState(r, new)
           \/ told' = told /\ RoomState(r, new) = RoomState(r, rooms[r])
    PROVE  Seating'
<1>1. SeatingType /\ RoomsOK /\ Index /\ SlotIdentity /\ ToldCurrent /\ r \in RoomIds
  BY DEF Inv, Seating, SeatingType
<1>2. RoomOK(new) /\ new \in RoomType /\ Members(new) = Members(rooms[r])
      /\ SeatsFrom(new, rooms[r])
  BY DEF SameSeats, RoomOK
<1>3. rooms'[r] = new /\ \A q \in RoomIds \ {r} : rooms'[q] = rooms[q]
  BY <1>1, <1>2 DEF SeatingType
<1>4. \A q \in RoomIds : Members(rooms'[q]) = Members(rooms[q])
  BY <1>2, <1>3
<1>5. SeatingType'
  BY <1>1, <1>2, BroadcastTells DEF SeatingType
<1>6. RoomsOK'
  BY <1>1, <1>2, <1>3 DEF RoomsOK, SeatingType
<1>7. Index'
  BY <1>1, <1>4 DEF Index
<1>8. SlotIdentity'
  <2> SUFFICES ASSUME NEW q \in live, NEW i \in Occupied(rooms'[q])
               PROVE  LET slot == rooms'[q].slots[i]
                      IN  clients'[slot.fd] # NoClient /\ slot.cid = clients'[slot.fd].id
    BY DEF SlotIdentity, Connected
  <2>1. q \in RoomIds /\ rooms[q] \in RoomType
    BY <1>1 DEF SeatingType
  <2>2. /\ i \in Occupied(rooms[q])
        /\ rooms'[q].slots[i].fd = rooms[q].slots[i].fd
        /\ rooms'[q].slots[i].cid = rooms[q].slots[i].cid
    BY <1>2, <1>3, <2>1 DEF SeatsFrom
  <2>3. rooms[q].slots[i].fd \in Fds
    BY <2>1, <2>2, MemberSeat
  <2> QED BY <1>1, <2>2, <2>3 DEF SlotIdentity, Connected
<1>9. ToldCurrent'
  <2> SUFFICES ASSUME NEW fd \in Fds, roomOf[fd] # NoRoom
               PROVE  told'[fd] = RoomState(roomOf[fd], rooms'[roomOf[fd]])
    BY DEF ToldCurrent, RoomState
  <2>1. roomOf[fd] \in RoomIds /\ told[fd] = RoomState(roomOf[fd], rooms[roomOf[fd]])
    BY <1>1 DEF ToldCurrent, SeatingType
  <2>2. CASE roomOf[fd] = r
    <3>1. fd \in Members(new)
      BY <1>1, <1>2, <2>2 DEF Index
    <3> QED BY <1>1, <1>2, <1>3, <2>1, <2>2, <3>1, BroadcastTells
  <2>3. CASE roomOf[fd] # r
    <3>1. fd \notin Members(new)
      BY <1>1, <1>2, <2>3 DEF Index
    <3>2. told'[fd] = told[fd]
      BY <1>1, <1>2, <3>1, BroadcastTells
    <3> QED BY <1>3, <2>1, <2>3, <3>2
  <2> QED BY <2>2, <2>3
<1> QED BY <1>5, <1>6, <1>7, <1>8, <1>9 DEF Seating

\* create_room, join_room and join_random: a client without a room is seated.
LEMMA EnterRoom ==
    ASSUME Inv, NEW fd \in Fds, Connected(fd), roomOf[fd] = NoRoom,
           NEW r \in RoomIds, NEW rm,
           (r \in live /\ rm = rooms[r]) \/ (r \notin live /\ rm = NewRoom),
           Enter(fd, r, rm), live' = live \cup {r}, UNCHANGED clients
    PROVE  Seating'
<1> DEFINE new == AddPlayer(rm, fd, clients[fd].id, clients[fd].name)
<1>1. /\ SeatingType /\ RoomsOK /\ Index /\ SlotIdentity /\ ToldCurrent
      /\ clients[fd].id \in Nat /\ clients[fd].name \in Names \cup {NoName}
  BY DEF Inv, Seating, TypeOK
<1>2. fd \notin Members(rm)
  <2>1. CASE r \in live /\ rm = rooms[r]
    BY <1>1, <2>1, NoRoomId DEF Index
  <2>2. CASE rm = NewRoom
    BY <2>2, NewRoomType, MemberSeat
  <2> QED BY <2>1, <2>2
<1>3. /\ rm \in RoomType /\ SingleSeats(rm)
      /\ rm.host \in Occupied(rm) \/ (Occupied(rm) = {} /\ rm.host = NoHost)
  <2>1. CASE r \in live /\ rm = rooms[r]
    BY <1>1, <2>1 DEF RoomsOK, RoomOK
  <2>2. CASE rm = NewRoom
    BY <2>2, NewRoomType DEF SingleSeats, NewRoom
  <2> QED BY <2>1, <2>2
<1>4. /\ RoomOK(new) /\ new \in RoomType
      /\ Members(new) = Members(rm) \cup {fd}
      /\ \A i \in Occupied(new) :
            \/ new.slots[i].fd = fd /\ new.slots[i].cid = clients[fd].id
            \/ i \in Occupied(rm) /\ new.slots[i] = rm.slots[i]
  BY <1>1, <1>2, <1>3, AddPlayerSeats DEF Enter, RoomOK
<1> HIDE DEF new
<1>5. /\ rooms' = [rooms EXCEPT ![r] = new]
      /\ roomOf' = [roomOf EXCEPT ![fd] = r]
      /\ told' = BroadcastRoomState(r, new)
  BY DEF Enter, new
<1>6. /\ rooms'[r] = new /\ \A q \in RoomIds \ {r} : rooms'[q] = rooms[q]
      /\ roomOf'[fd] = r /\ \A f \in Fds \ {fd} : roomOf'[f] = roomOf[f]
  BY <1>1, <1>5 DEF SeatingType
<1>7. SeatingType'
  BY <1>1, <1>4, <1>5, BroadcastTells DEF SeatingType
<1>8. RoomsOK'
  BY <1>1, <1>4, <1>6 DEF RoomsOK, SeatingType
<1>9. Members(rm) = {f \in Fds : roomOf[f] = r}
  <2>1. CASE r \in live /\ rm = rooms[r]
    BY <1>1, <1>3, <2>1, MemberSeat DEF Index
  <2>2. CASE r \notin live /\ rm = NewRoom
    BY <1>1, <2>2, NewRoomType, MemberSeat DEF Index
  <2> QED BY <2>1, <2>2
<1>10. Index'
  <2> SUFFICES ASSUME NEW f \in Fds, NEW q \in RoomIds
               PROVE  roomOf'[f] = q <=> q \in live' /\ f \in Members(rooms'[q])
    BY DEF Index
  <2>1. CASE q = r
    BY <1>4, <1>6, <1>9, <2>1
  <2>2. CASE q # r
    BY <1>1, <1>6, <2>2, NoRoomId DEF Index
  <2> QED BY <2>1, <2>2
<1>11. SlotIdentity'
  <2> SUFFICES ASSUME NEW q \in live', NEW i \in Occupied(rooms'[q])
               PROVE  LET slot == rooms'[q].slots[i]
                      IN  clients[slot.fd] # NoClient /\ slot.cid = clients[slot.fd].id
    BY DEF SlotIdentity, Connected
  <2>1. CASE q # r
    BY <1>1, <1>6, <2>1 DEF SlotIdentity, Connected, SeatingType
  <2>2. CASE q = r /\ new.slots[i].fd = fd /\ new.slots[i].cid = clients[fd].id
    BY <1>6, <2>2 DEF Connected
  <2>3. CASE q = r /\ i \in Occupied(rm) /\ new.slots[i] = rm.slots[i]
    BY <1>1, <1>6, <2>3, NewRoomType DEF SlotIdentity, Connected
  <2> QED BY <1>4, <1>6, <2>1, <2>2, <2>3
<1>12. ToldCurrent'
  <2> SUFFICES ASSUME NEW f \in Fds, roomOf'[f] # NoRoom
               PROVE  told'[f] = RoomState(roomOf'[f], rooms'[roomOf'[f]])
    BY DEF ToldCurrent, RoomState
  <2>1. CASE roomOf'[f] = r
    <3>1. f \in Members(new)
      BY <1>4, <1>6, <1>9, <2>1
    <3> QED BY <1>1, <1>4, <1>5, <1>6, <2>1, <3>1, BroadcastTells
  <2>2. CASE roomOf'[f] # r
    <3>1. f # fd /\ roomOf'[f] = roomOf[f] /\ roomOf[f] \in RoomIds
      BY <1>1, <1>6, <2>2 DEF SeatingType
    <3>2. f \notin Members(new)
      BY <1>4, <1>9, <2>2, <3>1
    <3>3. told'[f] = told[f]
      BY <1>1, <1>4, <1>5, <3>2, BroadcastTells
    <3> QED BY <1>1, <1>6, <2>2, <3>1, <3>3 DEF ToldCurrent
  <2> QED BY <2>1, <2>2
<1> QED BY <1>7, <1>8, <1>10, <1>11, <1>12 DEF Seating

\* remove_fd with its broadcast: exit_room, and a hang-up that also closes the
\* descriptor.
LEMMA ExitRoom ==
    ASSUME Inv, NEW fd \in Fds, roomOf[fd] # NoRoom, LeaveRoom(fd),
           \A f \in Fds \ {fd} : clients'[f] = clients[f]
    PROVE  Seating'
<1> DEFINE r == roomOf[fd]
           rm == rooms[r]
           new == RemovePlayer(rm, fd)
<1>1. /\ SeatingType /\ RoomsOK /\ Index /\ SlotIdentity /\ ToldCurrent
      /\ r \in RoomIds /\ r \in live /\ fd \in Members(rm) /\ RoomOK(rm)
  BY DEF Inv, Seating, SeatingType, RoomsOK, Index
<1>2. /\ new \in RoomType
      /\ Occupied(new) # {} => RoomOK(new)
      /\ Members(new) = Members(rm) \ {fd}
      /\ SeatsFrom(new, rm)
  BY <1>1, RemovePlayerSeats
<1>3. Members(rm) = {f \in Fds : roomOf[f] = r}
  BY <1>1, MemberSeat DEF Index, RoomOK
<1>4. /\ roomOf' = [roomOf EXCEPT ![fd] = NoRoom]
      /\ \/ /\ Occupied(new) = {}
            /\ live' = live \ {r}
            /\ rooms' = [rooms EXCEPT ![r] = NewRoom]
            /\ told' = [told EXCEPT ![fd] = NotTold]
         \/ /\ Occupied(new) # {}
            /\ live' = live
            /\ rooms' = [rooms EXCEPT ![r] = new]
            /\ told' = [BroadcastRoomState(r, new) EXCEPT ![fd] = NotTold]
  BY <1>2, EmptyRoom DEF LeaveRoom
<1>5. /\ roomOf'[fd] = NoRoom /\ \A f \in Fds \ {fd} : roomOf'[f] = roomOf[f]
      /\ \A q \in RoomIds \ {r} : rooms'[q] = rooms[q]
      /\ r \in live' => Occupied(new) # {} /\ rooms'[r] = new
      /\ r \notin live' => Members(new) = {}
      /\ \A q \in RoomIds \ {r} : q \in live' <=> q \in live
      /\ live' \subseteq RoomIds
  BY <1>1, <1>2, <1>4, MemberSeat DEF SeatingType
<1> HIDE DEF new
<1>6. SeatingType'
  <2>1. roomOf' \in [Fds -> RoomIds \cup {NoRoom}] /\ live' \in SUBSET RoomIds
    BY <1>1, <1>4, <1>5 DEF SeatingType
  <2>2. rooms' \in [RoomIds -> RoomType]
    BY <1>1, <1>2, <1>4, NewRoomType DEF SeatingType
  <2>3. BroadcastRoomState(r, new) \in [Fds -> RoomStateType \cup {NotTold}]
    BY <1>1, <1>2, BroadcastTells
  <2>4. told' \in [Fds -> RoomStateType \cup {NotTold}]
    <3> DEFINE t == BroadcastRoomState(r, new)
    <3>1. told' = [told EXCEPT ![fd] = NotTold] \/ told' = [t EXCEPT ![fd] = NotTold]
      BY <1>4
    <3> HIDE DEF t
    <3> QED BY <1>1, <2>3, <3>1 DEF SeatingType, t
  <2> QED BY <2>1, <2>2, <2>4 DEF SeatingType
<1>7. RoomsOK'
  BY <1>1, <1>2, <1>5 DEF RoomsOK
<1>8. Index'
  <2> SUFFICES ASSUME NEW f \in Fds, NEW q \in RoomIds
               PROVE  roomOf'[f] = q <=> q \in live' /\ f \in Members(rooms'[q])
    BY DEF Index
  <2>1. CASE q = r
    BY <1>1, <1>2, <1>3, <1>5, <2>1, NoRoomId
  <2>2. CASE q # r
    BY <1>1, <1>5, <2>2, NoRoomId DEF Index
  <2> QED BY <2>1, <2>2
<1>9. SlotIdentity'
  <2> SUFFICES ASSUME NEW q \in live', NEW i \in Occupied(rooms'[q])
               PROVE  LET slot == rooms'[q].slots[i]
                      IN  clients'[slot.fd] # NoClient /\ slot.cid = clients'[slot.fd].id
    BY DEF SlotIdentity, Connected
  <2>1. /\ q \in RoomIds /\ q \in live
        /\ i \in Occupied(rooms[q])
        /\ rooms'[q].slots[i].fd = rooms[q].slots[i].fd
        /\ rooms'[q].slots[i].cid = rooms[q].slots[i].cid
    BY <1>1, <1>2, <1>5 DEF SeatsFrom
  <2>2. rooms[q].slots[i].fd \in Members(rooms'[q])
    BY <1>5, <1>6, <2>1, MemberSeat DEF SeatingType
  <2>3. rooms[q].slots[i].fd \in Fds \ {fd}
    <3>1. rooms[q].slots[i].fd \in Fds
      BY <1>1, <2>1, MemberSeat DEF SeatingType
    <3>2. rooms[q].slots[i].fd # fd
      BY <1>1, <1>2, <1>5, <2>1, <2>2, <3>1 DEF Index
    <3> QED BY <3>1, <3>2
  <2> QED BY <1>1, <2>1, <2>3 DEF SlotIdentity, Connected
<1>10. ToldCurrent'
  <2> SUFFICES ASSUME NEW f \in Fds, roomOf'[f] # NoRoom
               PROVE  told'[f] = RoomState(roomOf'[f], rooms'[roomOf'[f]])
    BY DEF ToldCurrent, RoomState
  <2>1. f # fd /\ roomOf'[f] = roomOf[f] /\ roomOf[f] \in RoomIds
    BY <1>1, <1>5 DEF SeatingType
  <2>2. CASE roomOf[f] = r
    <3>1. f \in Members(new) /\ r \in live'
      BY <1>2, <1>3, <1>5, <2>1, <2>2
    <3>2. told' = [BroadcastRoomState(r, new) EXCEPT ![fd] = NotTold]
      BY <1>1, <1>4, <3>1
    <3> QED BY <1>1, <1>2, <1>5, <2>1, <2>2, <3>1, <3>2, BroadcastTells
  <2>3. CASE roomOf[f] # r
    <3>1. f \notin Members(new)
      BY <1>2, <1>3, <2>3
    <3>2. told'[f] = told[f]
      BY <1>1, <1>2, <1>4, <2>1, <3>1, BroadcastTells DEF SeatingType
    <3> QED BY <1>1, <1>5, <2>1, <2>3, <3>2 DEF ToldCurrent
  <2> QED BY <2>2, <2>3
<1> QED BY <1>6, <1>7, <1>8, <1>9, <1>10 DEF Seating

-----------------------------------------------------------------------------
LEMMA InitInv == Init => Inv
<1> SUFFICES ASSUME Init PROVE Inv
  OBVIOUS
<1>1. TypeOK
  BY RoomAssumption, NewRoomType
  DEF Init, TypeOK, NoClient, NoRoom, NoEntry, Progress, NotTold
<1>2. Seating
  BY <1>1, NoRoomId DEF Init, TypeOK, Seating, SeatingType, RoomsOK, Index, SlotIdentity, ToldCurrent
<1>3. UniqueIds /\ LiveBelow
  BY DEF Init, UniqueIds, LiveBelow, Connected
<1> QED BY <1>1, <1>2, <1>3 DEF Inv

\* The parts of the invariant that only counters, clients and sessions matter to.
Ledger ==
    /\ clients \in [Fds -> [id : Nat, name : Names \cup {NoName}, user : Accounts \cup {NoUser}]]
    /\ nextClientId \in Nat \ {0}
    /\ roomCounter \in Nat \ {0}
    /\ training \in [Fds -> Progress]
    /\ inGame \in SUBSET Fds
    /\ UniqueIds
    /\ LiveBelow

LEMMA InvParts == Inv <=> Ledger /\ Seating
BY DEF Inv, Ledger, TypeOK, Seating, SeatingType

\* No handler of a room or a game changes clients or a counter.
LEMMA LedgerKept ==
    ASSUME Inv, UNCHANGED <<clients, nextClientId, roomCounter, training>>,
           live' \subseteq live, inGame' \in SUBSET Fds
    PROVE  Ledger'
BY DEF Inv, TypeOK, Ledger, UniqueIds, LiveBelow, Connected

\* The room of a seated descriptor is well-formed and the descriptor is in it.
LEMMA MyRoom ==
    ASSUME Inv, NEW fd \in Fds, roomOf[fd] # NoRoom
    PROVE  /\ roomOf[fd] \in live /\ roomOf[fd] \in RoomIds
           /\ fd \in Members(rooms[roomOf[fd]])
           /\ RoomOK(rooms[roomOf[fd]])
BY DEF Inv, Seating, SeatingType, Index, RoomsOK

\* A seated descriptor is open.
LEMMA SeatedConnected ==
    ASSUME Inv, NEW fd \in Fds, roomOf[fd] # NoRoom
    PROVE  clients[fd] # NoClient
<1>1. PICK i \in Occupied(rooms[roomOf[fd]]) : rooms[roomOf[fd]].slots[i].fd = fd
  BY MyRoom, MemberSeat DEF RoomOK
<1> QED BY <1>1, MyRoom DEF Inv, Seating, SlotIdentity, Connected

LEMMA AcceptStep == ASSUME Inv, NEW fd \in Fds, Accept(fd) PROVE Inv'
<1>1. /\ clients' = [clients EXCEPT ![fd] =
                        [id |-> nextClientId, name |-> Guest, user |-> NoUser]]
      /\ nextClientId' = nextClientId + 1 /\ nextClientId \in Nat \ {0}
      /\ clients[fd] = NoClient
      /\ clients \in [Fds -> [id : Nat, name : Names \cup {NoName},
                              user : Accounts \cup {NoUser}]]
  BY DEF Accept, Inv, TypeOK, Connected
<1>2. /\ \A f \in Fds \ {fd} : clients'[f] = clients[f]
      /\ clients'[fd].id = nextClientId
  BY <1>1
<1>3. UniqueIds'
  <2> SUFFICES ASSUME NEW f \in Fds, clients'[f] # NoClient
               PROVE  /\ clients'[f].id \in 1 .. nextClientId
                      /\ \A g \in Fds : clients'[g] # NoClient /\ clients'[g].id = clients'[f].id
                            => f = g
    BY <1>1 DEF UniqueIds, Connected
  <2>1. \A g \in Fds \ {fd} : clients'[g] # NoClient =>
            clients'[g].id \in 1 .. nextClientId - 1
    BY <1>2 DEF Inv, UniqueIds, Connected
  <2> QED BY <1>1, <1>2, <2>1 DEF Inv, UniqueIds, Connected
<1>4. Ledger'
  BY <1>1, <1>3, ServerAssumption DEF Ledger, Inv, TypeOK, Accept, LiveBelow, roomVars
<1>5. Seating'
  BY <1>1, <1>2, SeatedConnected, RoomsUntouched DEF Accept
<1> QED BY <1>4, <1>5, InvParts, PTL

LEMMA DisconnectStep == ASSUME Inv, NEW fd \in Fds, Disconnect(fd) PROVE Inv'
<1>1. /\ clients' = [clients EXCEPT ![fd] = NoClient]
      /\ clients \in [Fds -> [id : Nat, name : Names \cup {NoName},
                              user : Accounts \cup {NoUser}]]
  BY DEF Disconnect, Inv, TypeOK
<1>2. /\ clients'[fd] = NoClient
      /\ \A f \in Fds \ {fd} : clients'[f] = clients[f]
  BY <1>1
<1>3. Seating'
  <2>1. CASE roomOf[fd] = NoRoom
    BY <1>2, <2>1, SeatedConnected, RoomsUntouched DEF Disconnect
  <2>2. CASE roomOf[fd] # NoRoom
    BY <1>2, <2>2, ExitRoom DEF Disconnect
  <2> QED BY <2>1, <2>2
<1>4. UniqueIds'
  BY <1>2 DEF Inv, UniqueIds, Connected, Disconnect
<1>5. live' \subseteq live /\ inGame' \in SUBSET Fds
  BY DEF Disconnect, LeaveRoom, roomVars, Inv, TypeOK
<1>6. clients' \in [Fds -> [id : Nat, name : Names \cup {NoName},
                            user : Accounts \cup {NoUser}]]
  BY <1>1 DEF NoClient
<1>7. Ledger'
  BY <1>4, <1>5, <1>6 DEF Ledger, Inv, TypeOK, LiveBelow, Disconnect
<1> QED BY <1>3, <1>7, InvParts, PTL

\* Sign-in, sign-out and renaming keep every connection and its id.
LEMMA ProfileStep ==
    ASSUME Inv, NEW fd \in Fds, Connected(fd),
           NEW name \in Names \cup {NoName}, NEW user \in Accounts \cup {NoUser},
           clients' = [clients EXCEPT ![fd] =
                          [id |-> clients[fd].id, name |-> name, user |-> user]],
           live' = live, inGame' = inGame,
           UNCHANGED <<nextClientId, roomCounter, training>>
    PROVE  /\ Ledger'
           /\ \A f \in Fds : /\ clients[f] # NoClient => clients'[f] # NoClient
                             /\ clients'[f].id = clients[f].id
<1>1. /\ clients \in [Fds -> [id : Nat, name : Names \cup {NoName},
                              user : Accounts \cup {NoUser}]]
      /\ clients[fd].id # 0
  BY DEF Inv, TypeOK, UniqueIds
<1>2. /\ clients'[fd] = [id |-> clients[fd].id, name |-> name, user |-> user]
      /\ \A f \in Fds \ {fd} : clients'[f] = clients[f]
      /\ clients' \in [Fds -> [id : Nat, name : Names \cup {NoName},
                               user : Accounts \cup {NoUser}]]
  BY <1>1
<1>3. \A f \in Fds : /\ clients[f] # NoClient <=> clients'[f] # NoClient
                     /\ clients'[f].id = clients[f].id
  BY <1>1, <1>2 DEF NoClient, Connected
<1>4. UniqueIds'
  BY <1>3 DEF Inv, UniqueIds, Connected
<1> QED BY <1>2, <1>3, <1>4 DEF Ledger, Inv, TypeOK, LiveBelow

\* A ClientInfo with new fields, written out.
LEMMA ProfileFields ==
    ASSUME NEW c \in [id : Nat, name : Names \cup {NoName}, user : Accounts \cup {NoUser}],
           NEW name, NEW user
    PROVE  /\ [c EXCEPT !.name = name] = [id |-> c.id, name |-> name, user |-> c.user]
           /\ [c EXCEPT !.user = user] = [id |-> c.id, name |-> c.name, user |-> user]
           /\ c.name \in Names \cup {NoName} /\ c.user \in Accounts \cup {NoUser}
OBVIOUS

LEMMA SignInStep ==
    ASSUME Inv, NEW fd \in Fds, NEW user \in Accounts, OnSignIn(fd, user) PROVE Inv'
<1>1. clients' = [clients EXCEPT ![fd] =
                      [id |-> clients[fd].id, name |-> user, user |-> user]]
  BY DEF OnSignIn
<1>2. user \in Names
  BY ServerAssumption
<1>3. Ledger' /\ Seating'
  BY <1>1, <1>2, ProfileStep, SeatedConnected, RoomsUntouched DEF OnSignIn, roomVars
<1> QED BY <1>3, InvParts, PTL

LEMMA SignOutStep == ASSUME Inv, NEW fd \in Fds, OnSignOut(fd) PROVE Inv'
<1>1. /\ clients' = [clients EXCEPT ![fd] =
                        [id |-> clients[fd].id, name |-> clients[fd].name, user |-> NoUser]]
      /\ clients[fd].name \in Names \cup {NoName}
  BY ProfileFields DEF OnSignOut, Inv, TypeOK
<1>2. Ledger' /\ Seating'
  BY <1>1, ProfileStep, SeatedConnected, RoomsUntouched DEF OnSignOut, roomVars
<1> QED BY <1>2, InvParts, PTL

LEMMA SetUsernameStep ==
    ASSUME Inv, NEW fd \in Fds, NEW name \in Names, OnSetUsername(fd, name) PROVE Inv'
<1>1. /\ clients' = [clients EXCEPT ![fd] =
                        [id |-> clients[fd].id, name |-> name, user |-> clients[fd].user]]
      /\ clients[fd].user \in Accounts \cup {NoUser}
  BY ProfileFields DEF OnSetUsername, Inv, TypeOK
<1>2. live' = live /\ inGame' = inGame
  BY DEF OnSetUsername, roomVars, Update
<1>3. /\ Ledger'
      /\ \A f \in Fds : /\ clients[f] # NoClient => clients'[f] # NoClient
                        /\ clients'[f].id = clients[f].id
  BY <1>1, <1>2, ProfileStep DEF OnSetUsername
<1>4. CASE roomOf[fd] = NoRoom
  <2>1. Seating'
    BY <1>3, <1>4, SeatedConnected, RoomsUntouched DEF OnSetUsername
  <2> QED BY <1>3, <2>1, InvParts, PTL
<1>5. CASE roomOf[fd] # NoRoom
  <2>1. SameSeats(UpdateDisplayName(rooms[roomOf[fd]], fd, name), rooms[roomOf[fd]])
    BY <1>5, MyRoom, UpdateDisplayNameSeats
  <2>2. Seating'
    BY <1>3, <1>5, <2>1, MyRoom, RoomChanged DEF OnSetUsername, Update
  <2> QED BY <1>3, <2>2, InvParts, PTL
<1> QED BY <1>4, <1>5

LEMMA CreateRoomStep == ASSUME Inv, NEW fd \in Fds, OnCreateRoom(fd) PROVE Inv'
<1>1. roomCounter \in RoomIds /\ roomCounter \notin live
  BY ServerAssumption DEF OnCreateRoom, Inv, TypeOK, LiveBelow, RoomIds
<1>2. Seating'
  BY <1>1, EnterRoom DEF OnCreateRoom
<1>3. Ledger'
  <2>1. LiveBelow'
    BY <1>1 DEF OnCreateRoom, Inv, TypeOK, LiveBelow, RoomIds
  <2> QED BY <2>1 DEF OnCreateRoom, Inv, TypeOK, Ledger, UniqueIds, Connected
<1> QED BY <1>2, <1>3, InvParts, PTL

LEMMA JoinStep ==
    ASSUME Inv, NEW fd \in Fds, Connected(fd), roomOf[fd] = NoRoom, NEW r \in live,
           Enter(fd, r, rooms[r]),
           UNCHANGED <<clients, nextClientId, live, roomCounter, training, inGame>>
    PROVE  Inv'
<1>1. r \in RoomIds /\ live' = live \cup {r}
  BY DEF Inv, TypeOK
<1>2. Seating'
  BY <1>1, EnterRoom
<1>3. Ledger'
  BY LedgerKept DEF Inv, TypeOK
<1> QED BY <1>2, <1>3, InvParts, PTL

LEMMA ExitRoomStep == ASSUME Inv, NEW fd \in Fds, OnExitRoom(fd) PROVE Inv'
<1>1. Seating'
  BY ExitRoom DEF OnExitRoom
<1>2. live' \subseteq live /\ inGame' \in SUBSET Fds
  BY DEF OnExitRoom, LeaveRoom, Inv, TypeOK
<1>3. Ledger'
  BY <1>2, LedgerKept DEF OnExitRoom
<1> QED BY <1>1, <1>3, InvParts, PTL

\* A handler that replaces the caller's room by one with the same seats.
LEMMA MyRoomChanged ==
    ASSUME Inv, NEW fd \in Fds, roomOf[fd] # NoRoom,
           NEW new, SameSeats(new, rooms[roomOf[fd]]),
           rooms' = [rooms EXCEPT ![roomOf[fd]] = new], inGame' \in SUBSET Fds,
           UNCHANGED <<clients, nextClientId, live, roomOf, roomCounter, training>>,
           \/ told' = BroadcastRoomState(roomOf[fd], new)
           \/ /\ told' = told
              /\ RoomState(roomOf[fd], new) = RoomState(roomOf[fd], rooms[roomOf[fd]])
    PROVE  Inv'
<1>1. Seating'
  BY MyRoom, RoomChanged
<1>2. Ledger'
  BY LedgerKept
<1> QED BY <1>1, <1>2, InvParts, PTL

LEMMA ReadyStep ==
    ASSUME Inv, NEW fd \in Fds, NEW ready \in BOOLEAN, OnReady(fd, ready) PROVE Inv'
BY MyRoom, SetReadySeats, MyRoomChanged DEF OnReady, Update, Inv, TypeOK

LEMMA SetPrivateStep ==
    ASSUME Inv, NEW fd \in Fds, NEW private \in BOOLEAN, OnSetPrivate(fd, private)
    PROVE  Inv'
BY MyRoom, SetPrivateSeats, MyRoomChanged DEF OnSetPrivate, Update, Inv, TypeOK

LEMMA StartGameStep == ASSUME Inv, NEW fd \in Fds, OnStartGame(fd) PROVE Inv'
<1> DEFINE rm == rooms[roomOf[fd]]
<1>1. RoomOK(rm) /\ Recipients(rm) \subseteq Fds
  <2>1. RoomOK(rm)
    BY MyRoom DEF OnStartGame
  <2> QED BY <2>1 DEF RoomOK, RoomType, Slot, Recipients, Occupied
<1>2. inGame' \in SUBSET Fds
  BY <1>1 DEF OnStartGame, Inv, TypeOK
<1>3. SameSeats(StartGame(rm), rm)
      /\ RoomState(roomOf[fd], StartGame(rm)) = RoomState(roomOf[fd], rm)
  BY <1>1, StartGameSeats DEF RoomState
<1> QED BY <1>2, <1>3, MyRoomChanged DEF OnStartGame

LEMMA ArenaInputStep ==
    ASSUME Inv, NEW fd \in Fds, NEW w \in WordIdx, NEW late \in BOOLEAN,
           OnArenaInput(fd, w, late)
    PROVE  Inv'
<1> DEFINE rm == rooms[roomOf[fd]]
           scored == ProcessInput(rm, fd, w)
           ended == EndGame(scored)
<1>1. RoomOK(rm)
  BY MyRoom DEF OnArenaInput
<1>2. SameSeats(scored, rm) /\ RoomState(roomOf[fd], scored) = RoomState(roomOf[fd], rm)
  BY <1>1, ServerAssumption, ProcessInputSeats DEF RoomState
<1>3. SameSeats(ended, rm)
  <2>1. SameSeats(ended, scored)
    BY <1>2, EndGameSeats DEF SameSeats
  <2> QED BY <1>2, <2>1 DEF SameSeats, SeatsFrom
<1>4. inGame' \in SUBSET Fds
  BY DEF OnArenaInput, Inv, TypeOK
<1> HIDE DEF scored, ended
<1>5. \/ rooms' = [rooms EXCEPT ![roomOf[fd]] = scored] /\ told' = told
      \/ /\ rooms' = [rooms EXCEPT ![roomOf[fd]] = ended]
         /\ told' = BroadcastRoomState(roomOf[fd], ended)
  BY DEF OnArenaInput, scored, ended
<1> QED BY <1>2, <1>3, <1>4, <1>5, MyRoomChanged DEF OnArenaInput

\* Training touches training_sessions_ only.
LEMMA TrainingStep ==
    ASSUME Inv, NEW fd \in Fds,
           OnStartTraining(fd)
             \/ \E w \in WordIdx, late \in BOOLEAN : OnTrainingInput(fd, w, late)
    PROVE  Inv'
<1>1. UNCHANGED <<clients, nextClientId, roomVars, roomCounter>>
  BY DEF OnStartTraining, OnTrainingInput
<1>2. training' \in [Fds -> Progress]
  <2>1. CASE OnStartTraining(fd)
    BY <2>1, RoomAssumption DEF OnStartTraining, Inv, TypeOK, Progress, NoEntry
  <2>2. CASE \E w \in WordIdx, late \in BOOLEAN : OnTrainingInput(fd, w, late)
    BY <2>2, ServerAssumption
    DEF OnTrainingInput, Inv, TypeOK, Progress, NoEntry, NextWord
  <2> QED BY <2>1, <2>2
<1>3. Ledger'
  BY <1>1, <1>2 DEF Inv, TypeOK, Ledger, UniqueIds, LiveBelow, Connected, roomVars
<1>4. Seating'
  BY <1>1, SeatedConnected, RoomsUntouched
<1> QED BY <1>3, <1>4, InvParts, PTL

LEMMA StutterStep == ASSUME Inv, UNCHANGED vars PROVE Inv'
<1>1. Ledger'
  BY DEF vars, roomVars, Inv, TypeOK, Ledger, UniqueIds, LiveBelow, Connected
<1>2. Seating'
  BY SeatedConnected, RoomsUntouched DEF vars, roomVars
<1> QED BY <1>1, <1>2, InvParts, PTL

-----------------------------------------------------------------------------
\* Every handler, run to its end, keeps the invariant.
LEMMA NextInv == Inv /\ [Next]_vars => Inv'
<1> SUFFICES ASSUME Inv, [Next]_vars PROVE Inv'
  OBVIOUS
<1>1. CASE UNCHANGED vars
  BY <1>1, StutterStep
<1>2. CASE Next
  <2>1. PICK fd \in Fds :
            \/ Accept(fd)
            \/ Disconnect(fd)
            \/ \E user \in Accounts : OnSignIn(fd, user)
            \/ OnSignOut(fd)
            \/ OnCreateRoom(fd)
            \/ \E r \in RoomIds : OnJoinRoom(fd, r)
            \/ OnJoinRandom(fd)
            \/ OnExitRoom(fd)
            \/ \E ready \in BOOLEAN : OnReady(fd, ready)
            \/ \E private \in BOOLEAN : OnSetPrivate(fd, private)
            \/ \E name \in Names : OnSetUsername(fd, name)
            \/ OnStartGame(fd)
            \/ OnStartTraining(fd)
            \/ \E w \in WordIdx, late \in BOOLEAN : OnTrainingInput(fd, w, late)
            \/ \E w \in WordIdx, late \in BOOLEAN : OnArenaInput(fd, w, late)
    BY <1>2 DEF Next
  <2>2. CASE Accept(fd)
    BY <2>2, AcceptStep
  <2>3. CASE Disconnect(fd)
    BY <2>3, DisconnectStep
  <2>4. CASE \E user \in Accounts : OnSignIn(fd, user)
    BY <2>4, SignInStep
  <2>5. CASE OnSignOut(fd)
    BY <2>5, SignOutStep
  <2>6. CASE OnCreateRoom(fd)
    BY <2>6, CreateRoomStep
  <2>7. CASE \E r \in RoomIds : OnJoinRoom(fd, r)
    BY <2>7, JoinStep DEF OnJoinRoom
  <2>8. CASE OnJoinRandom(fd)
    BY <2>8, JoinStep DEF OnJoinRandom
  <2>9. CASE OnExitRoom(fd)
    BY <2>9, ExitRoomStep
  <2>10. CASE \E ready \in BOOLEAN : OnReady(fd, ready)
    BY <2>10, ReadyStep
  <2>11. CASE \E private \in BOOLEAN : OnSetPrivate(fd, private)
    BY <2>11, SetPrivateStep
  <2>12. CASE \E name \in Names : OnSetUsername(fd, name)
    BY <2>12, SetUsernameStep
  <2>13. CASE OnStartGame(fd)
    BY <2>13, StartGameStep
  <2>14. CASE OnStartTraining(fd)
    BY <2>14, TrainingStep
  <2>15. CASE \E w \in WordIdx, late \in BOOLEAN : OnTrainingInput(fd, w, late)
    BY <2>15, TrainingStep
  <2>16. CASE \E w \in WordIdx, late \in BOOLEAN : OnArenaInput(fd, w, late)
    BY <2>16, ArenaInputStep
  <2> QED BY <2>1, <2>2, <2>3, <2>4, <2>5, <2>6, <2>7, <2>8, <2>9, <2>10, <2>11, <2>12,
             <2>13, <2>14, <2>15, <2>16
<1> QED BY <1>1, <1>2

THEOREM Invariance == Spec => []Inv
BY InitInv, NextInv, PTL DEF Spec

\* Every variable of the server keeps its type.
THEOREM TypeCorrect == Spec => []TypeOK
<1>1. Inv => TypeOK
  BY DEF Inv
<1> QED BY <1>1, Invariance, PTL

\* fd_to_room_ and the slots of the rooms agree, both ways.
THEOREM MembershipHolds == Spec => []Membership
<1>1. Inv => Membership
  <2> SUFFICES ASSUME Inv PROVE Membership
    OBVIOUS
  <2>1. ASSUME NEW fd \in Fds, roomOf[fd] # NoRoom
        PROVE  /\ roomOf[fd] \in live
               /\ \E i \in SlotIdx : SlotsOf(rooms[roomOf[fd]], fd) = {i}
    BY <2>1, MyRoom, OneSlot, FoundSlot DEF RoomOK, Occupied
  <2>2. ASSUME NEW r \in live, NEW fd \in Members(rooms[r])
        PROVE  roomOf[fd] = r
    BY MemberSeat DEF Inv, Seating, SeatingType, Index
  <2> QED BY <2>1, <2>2 DEF Membership
<1> QED BY <1>1, Invariance, PTL

\* Every room in rooms_ has a host, who is seated.
THEOREM HostSeatedHolds == Spec => []HostSeated
<1>1. Inv => HostSeated
  BY DEF Inv, Seating, RoomsOK, RoomOK, HostSeated
<1> QED BY <1>1, Invariance, PTL

\* A seat belongs to the connection that owns its descriptor now.
THEOREM SlotIdentityHolds == Spec => []SlotIdentity
<1>1. Inv => SlotIdentity
  BY DEF Inv, Seating
<1> QED BY <1>1, Invariance, PTL

\* client_ids of connections are distinct and below the counter.
THEOREM UniqueIdsHolds == Spec => []UniqueIds
<1>1. Inv => UniqueIds
  BY DEF Inv
<1> QED BY <1>1, Invariance, PTL

\* Between handlers every member has been told the state of its room.
THEOREM ToldCurrentHolds == Spec => []ToldCurrent
<1>1. Inv => ToldCurrent
  BY DEF Inv, Seating
<1> QED BY <1>1, Invariance, PTL

-----------------------------------------------------------------------------
\* One connection's entry of clients_ changes; it is signed in to nothing, or
\* to an account nobody is signed in to.
LEMMA OneClientChanged ==
    ASSUME TypeOK, SignedInOnce, NEW fd \in Fds, NEW c,
           clients' = [clients EXCEPT ![fd] = c],
           c.user # NoUser => \A f \in Fds \ {fd} : clients[f].user # c.user
    PROVE  SignedInOnce'
<1> SUFFICES ASSUME NEW f \in Fds, NEW g \in Fds,
                    clients'[f].user # NoUser, clients'[f].user = clients'[g].user,
                    f # g
             PROVE  FALSE
  BY DEF SignedInOnce
<1>1. \A h \in Fds : clients'[h] = IF h = fd THEN c ELSE clients[h]
  BY DEF TypeOK
<1>2. CASE f # fd /\ g # fd
  BY <1>1, <1>2 DEF SignedInOnce
<1>3. CASE f = fd \/ g = fd
  BY <1>1, <1>3
<1> QED BY <1>2, <1>3

\* An account is signed in on at most one connection.
THEOREM SignedInOnceHolds == Spec => []SignedInOnce
<1>1. Init => SignedInOnce
  BY DEF Init, SignedInOnce, NoClient
<1>2. TypeOK /\ SignedInOnce /\ [Next]_vars => SignedInOnce'
  <2> SUFFICES ASSUME TypeOK, SignedInOnce, [Next]_vars
               PROVE  SignedInOnce'
    OBVIOUS
  <2>1. CASE UNCHANGED clients
    BY <2>1 DEF SignedInOnce
  <2>2. ASSUME NEW fd \in Fds, Accept(fd)
        PROVE  SignedInOnce'
    BY <2>2, OneClientChanged DEF Accept
  <2>3. ASSUME NEW fd \in Fds, Disconnect(fd)
        PROVE  SignedInOnce'
    BY <2>3, OneClientChanged DEF Disconnect, NoClient
  <2>4. ASSUME NEW fd \in Fds, NEW user \in Accounts, OnSignIn(fd, user)
        PROVE  SignedInOnce'
    BY <2>4, OneClientChanged DEF OnSignIn
  <2>5. ASSUME NEW fd \in Fds, OnSignOut(fd)
        PROVE  SignedInOnce'
    BY <2>5, OneClientChanged DEF OnSignOut, TypeOK
  <2>6. ASSUME NEW fd \in Fds, NEW name \in Names, OnSetUsername(fd, name)
        PROVE  SignedInOnce'
    <3>1. clients' = [clients EXCEPT ![fd] = [@ EXCEPT !.name = name]]
      BY <2>6 DEF OnSetUsername
    <3>2. [clients[fd] EXCEPT !.name = name].user = clients[fd].user
      BY DEF TypeOK
    <3> QED BY <3>1, <3>2, OneClientChanged DEF SignedInOnce
  <2> QED
    BY <2>1, <2>2, <2>3, <2>4, <2>5, <2>6
    DEF Next, vars, OnCreateRoom, OnJoinRoom, OnJoinRandom, OnExitRoom, OnReady,
        OnSetPrivate, OnStartGame, OnStartTraining, OnTrainingInput, OnArenaInput
<1> QED BY <1>1, <1>2, TypeCorrect, PTL DEF Spec

-----------------------------------------------------------------------------
(* Games: whose progress a room holds, how it moves, and which clients are   *)
(* shown a running game.  Each method of Room is first described by what it  *)
(* does to progress and to the "game started" flag.  The invariant Games is  *)
(* inductive together with Inv: a client in a game keeps its room, so the    *)
(* index of rooms says that the recipients of game_end are all those who     *)
(* were shown the game.                                                      *)

\* Progress is recorded for members only.
OwnProgress(rm) == \A f \in Fds : rm.metrics[f] # NoEntry => f \in Members(rm)

\* Nobody who stays is moved back, and progress stays with members.
Advances(new, rm) ==
    /\ OwnProgress(rm) => OwnProgress(new)
    /\ \A f \in Members(rm) \cap Members(new) : new.metrics[f] >= rm.metrics[f]

Games == MetricsOwned /\ GameScreensAgree

\* What ProgressKept says of one step and one room.
KeptOrReset(new, rm) ==
    \/ \A f \in Members(rm) \cap Members(new) : new.metrics[f] >= rm.metrics[f]
    \/ \A f \in Members(new) : new.metrics[f] = 0

LEMMA ProgressNumbers ==
    ASSUME NEW rm \in RoomType, NEW f \in Fds
    PROVE  rm.metrics[f] \in Int /\ rm.metrics[f] \in Progress
BY RoomAssumption DEF RoomType, Progress, NoEntry

\* ready, privacy and names: progress and the flag stay.
LEMMA QuietRoom ==
    ASSUME NEW rm, RoomOK(rm), NEW new, SameSeats(new, rm), new.metrics = rm.metrics
    PROVE  Advances(new, rm)
BY ProgressNumbers, MemberSeat DEF Advances, OwnProgress, SameSeats, RoomOK

LEMMA AddPlayerAdvances ==
    ASSUME NEW rm \in RoomType, NEW fd, NEW cid, NEW name,
           Members(rm) \subseteq Members(AddPlayer(rm, fd, cid, name))
    PROVE  /\ Advances(AddPlayer(rm, fd, cid, name), rm)
           /\ AddPlayer(rm, fd, cid, name).started = rm.started
<1> DEFINE new == AddPlayer(rm, fd, cid, name)
<1>1. new.metrics = rm.metrics /\ new.started = rm.started
  BY DEF AddPlayer, RoomType
<1>2. Members(rm) \subseteq Fds
  BY MemberSeat
<1> HIDE DEF new
<1>3. Advances(new, rm)
  <2>1. Members(rm) \subseteq Members(new)
    BY DEF new
  <2> QED BY <1>1, <1>2, <2>1, ProgressNumbers DEF Advances, OwnProgress
<1> QED BY <1>1, <1>3 DEF new

LEMMA RemovePlayerAdvances ==
    ASSUME NEW rm, RoomOK(rm), NEW fd \in Members(rm)
    PROVE  /\ Advances(RemovePlayer(rm, fd), rm)
           /\ RemovePlayer(rm, fd).started = rm.started
<1> DEFINE new == RemovePlayer(rm, fd)
<1>1. new.started = rm.started
  BY DEF RemovePlayer, RecalculateHost, RoomOK, RoomType
<1>2. /\ Members(new) = Members(rm) \ {fd} /\ Members(rm) \subseteq Fds
      /\ \A f \in Fds \ {fd} : new.metrics[f] = rm.metrics[f]
      /\ new.metrics[fd] = NoEntry
  BY RemovePlayerSeats, MemberSeat DEF RoomOK
<1> HIDE DEF new
<1>3. Advances(new, rm)
  BY <1>2, ProgressNumbers DEF Advances, OwnProgress, RoomOK
<1> QED BY <1>1, <1>3 DEF new

\* A scored word moves its player forward or leaves it where it is.
LEMMA ProcessInputAdvances ==
    ASSUME NEW rm, RoomOK(rm), NEW fd \in Members(rm), NEW w \in WordIdx
    PROVE  /\ Advances(ProcessInput(rm, fd, w), rm)
           /\ ProcessInput(rm, fd, w).started = rm.started
<1> DEFINE new == ProcessInput(rm, fd, w)
<1>1. fd \in Fds /\ rm \in RoomType
  BY MemberSeat DEF RoomOK
<1>2. /\ new.started = rm.started
      /\ new.metrics = [rm.metrics EXCEPT ![fd] = NextWord(rm.metrics[fd], w)]
  BY DEF ProcessInput, RoomOK, RoomType
<1>3. NextWord(rm.metrics[fd], w) >= rm.metrics[fd]
  BY <1>1, ProgressNumbers, ServerAssumption DEF NextWord, Progress, NoEntry
<1>4. /\ Members(new) = Members(rm) /\ Members(rm) \subseteq Fds
      /\ rm.metrics \in [Fds -> Progress]
  BY ServerAssumption, <1>1, ProcessInputSeats, MemberSeat DEF SameSeats, RoomType
<1> HIDE DEF new
<1>5. \A f \in Fds \ {fd} : new.metrics[f] = rm.metrics[f]
  BY <1>1, <1>2, <1>4
<1>6. new.metrics[fd] >= rm.metrics[fd]
  BY <1>1, <1>2, <1>3, <1>4
<1>7. Advances(new, rm)
  BY <1>1, <1>4, <1>5, <1>6, ProgressNumbers DEF Advances, OwnProgress
<1> QED BY <1>2, <1>7 DEF new

\* A start puts every member at word 0 and touches nobody else.
LEMMA StartGameResets ==
    ASSUME NEW rm, RoomOK(rm)
    PROVE  /\ OwnProgress(rm) => OwnProgress(StartGame(rm))
           /\ \A f \in Members(StartGame(rm)) : StartGame(rm).metrics[f] = 0
           /\ StartGame(rm).started
<1> DEFINE new == StartGame(rm)
<1>1. /\ new.started
      /\ new.metrics = [f \in Fds |-> IF f \in Members(rm) THEN 0 ELSE rm.metrics[f]]
  BY DEF StartGame, RoomOK, RoomType
<1>2. Members(new) = Members(rm) /\ Members(rm) \subseteq Fds
  BY StartGameSeats, MemberSeat DEF SameSeats, RoomOK
<1> HIDE DEF new
<1>3. /\ OwnProgress(rm) => OwnProgress(new)
      /\ \A f \in Members(new) : new.metrics[f] = 0
  BY <1>1, <1>2 DEF OwnProgress
<1> QED BY <1>1, <1>3 DEF new

-----------------------------------------------------------------------------
\* A handler changes the caller's room and nobody's seat.  Those who are shown a
\* game afterwards were shown one before, or are members of a room in a game.
LEMMA RoomChangedGames ==
    ASSUME Inv, Games, NEW fd \in Fds, roomOf[fd] # NoRoom,
           NEW new, rooms' = [rooms EXCEPT ![roomOf[fd]] = new],
           OwnProgress(rooms[roomOf[fd]]) => OwnProgress(new),
           UNCHANGED <<live, roomOf>>,
           \A f \in inGame' : IF f \in Members(rooms[roomOf[fd]]) THEN new.started
                                                               ELSE f \in inGame
    PROVE  Games'
<1> DEFINE r == roomOf[fd]
<1>1. /\ r \in live /\ r \in RoomIds /\ live \subseteq RoomIds
      /\ rooms'[r] = new /\ \A q \in RoomIds \ {r} : rooms'[q] = rooms[q]
      /\ roomOf \in [Fds -> RoomIds \cup {NoRoom}]
  BY MyRoom DEF Inv, TypeOK
<1>2. MetricsOwned'
  <2> SUFFICES ASSUME NEW q \in live PROVE OwnProgress(rooms'[q])
    BY DEF MetricsOwned, OwnProgress
  <2>1. OwnProgress(rooms[q])
    BY DEF Games, MetricsOwned, OwnProgress
  <2> QED BY <1>1, <2>1
<1>3. GameScreensAgree'
  <2> SUFFICES ASSUME NEW f \in inGame'
               PROVE  roomOf[f] # NoRoom /\ rooms'[roomOf[f]].started
    BY DEF GameScreensAgree
  <2>1. CASE f \in Members(rooms[r])
    <3>1. roomOf[f] = r
      BY <1>1, <2>1, MemberSeat DEF Inv, TypeOK, Seating, Index
    <3> QED BY <1>1, <2>1, <3>1, NoRoomId
  <2>2. CASE f \notin Members(rooms[r])
    <3>1. f \in Fds /\ f \in inGame /\ roomOf[f] # NoRoom /\ rooms[roomOf[f]].started
      BY <2>2 DEF Games, GameScreensAgree, Inv, TypeOK
    <3>2. roomOf[f] # r
      BY <1>1, <2>2, <3>1 DEF Inv, Seating, Index
    <3> QED BY <1>1, <3>1, <3>2
  <2> QED BY <2>1, <2>2
<1> QED BY <1>2, <1>3 DEF Games

\* A newcomer is in no game and brings no progress.
LEMMA EnterGames ==
    ASSUME Inv, Games, NEW fd \in Fds, roomOf[fd] = NoRoom,
           NEW r \in RoomIds, NEW rm,
           (r \in live /\ rm = rooms[r]) \/ (r \notin live /\ rm = NewRoom),
           Enter(fd, r, rm), live' = live \cup {r}, inGame' = inGame
    PROVE  Games'
<1> DEFINE new == AddPlayer(rm, fd, clients[fd].id, clients[fd].name)
<1>1. /\ clients[fd].id \in Nat /\ clients[fd].name \in Names \cup {NoName}
      /\ live \subseteq RoomIds
      /\ inGame \subseteq Fds /\ roomOf \in [Fds -> RoomIds \cup {NoRoom}]
      /\ rooms \in [RoomIds -> RoomType]
  BY DEF Inv, TypeOK
<1>2. /\ rm \in RoomType /\ SingleSeats(rm) /\ fd \notin Members(rm) /\ OwnProgress(rm)
      /\ rm.host \in Occupied(rm) \/ (Occupied(rm) = {} /\ rm.host = NoHost)
  <2>1. CASE r \in live /\ rm = rooms[r]
    BY <1>1, <2>1, NoRoomId
    DEF Inv, Seating, Index, RoomsOK, RoomOK, Games, MetricsOwned, OwnProgress
  <2>2. CASE rm = NewRoom
    BY <2>2, NewRoomType, MemberSeat DEF SingleSeats, OwnProgress, NewRoom
  <2> QED BY <2>1, <2>2
<1>3. Members(new) = Members(rm) \cup {fd}
  BY <1>1, <1>2, AddPlayerSeats DEF Enter
<1>4. OwnProgress(new) /\ new.started = rm.started
  BY <1>2, <1>3, AddPlayerAdvances DEF Advances
<1>5. rooms' = [rooms EXCEPT ![r] = new] /\ roomOf' = [roomOf EXCEPT ![fd] = r]
  BY DEF Enter
<1> HIDE DEF new
<1>6. /\ rooms'[r] = new /\ \A q \in RoomIds \ {r} : rooms'[q] = rooms[q]
      /\ \A f \in Fds \ {fd} : roomOf'[f] = roomOf[f]
  BY <1>1, <1>5
<1>7. MetricsOwned'
  <2> SUFFICES ASSUME NEW q \in live' PROVE OwnProgress(rooms'[q])
    BY DEF MetricsOwned, OwnProgress
  <2>1. CASE q = r
    BY <1>4, <1>6, <2>1
  <2>2. CASE q # r
    <3>1. q \in RoomIds /\ OwnProgress(rooms[q])
      BY <1>1, <2>2 DEF Games, MetricsOwned, OwnProgress
    <3> QED BY <1>6, <2>2, <3>1
  <2> QED BY <2>1, <2>2
<1>8. GameScreensAgree'
  <2> SUFFICES ASSUME NEW f \in inGame
               PROVE  roomOf'[f] # NoRoom /\ rooms'[roomOf'[f]].started
    BY DEF GameScreensAgree
  <2>1. roomOf[f] # NoRoom /\ rooms[roomOf[f]].started /\ f \in Fds \ {fd}
    BY <1>1 DEF Games, GameScreensAgree
  <2>2. roomOf'[f] = roomOf[f] /\ roomOf[f] \in live /\ roomOf[f] \in RoomIds
    BY <1>1, <1>6, <2>1 DEF Inv, Seating, Index
  <2> QED BY <1>4, <1>6, <2>1, <2>2
<1> QED BY <1>7, <1>8 DEF Games

\* Whoever leaves is shown no game; those who stay are in the same game.
LEMMA LeaveGames ==
    ASSUME Inv, Games, NEW fd \in Fds, roomOf[fd] # NoRoom, LeaveRoom(fd)
    PROVE  Games'
<1> DEFINE r == roomOf[fd]
           rm == rooms[r]
           new == RemovePlayer(rm, fd)
<1>1. /\ r \in live /\ r \in RoomIds /\ RoomOK(rm) /\ fd \in Members(rm)
      /\ live \subseteq RoomIds /\ inGame \subseteq Fds
      /\ rooms \in [RoomIds -> RoomType] /\ roomOf \in [Fds -> RoomIds \cup {NoRoom}]
  BY MyRoom DEF Inv, TypeOK
<1>2. new \in RoomType /\ Members(new) = Members(rm) \ {fd}
  BY <1>1, RemovePlayerSeats
<1>3. new.started = rm.started /\ (OwnProgress(rm) => OwnProgress(new))
  BY <1>1, RemovePlayerAdvances DEF Advances
<1>4. /\ roomOf' = [roomOf EXCEPT ![fd] = NoRoom] /\ inGame' = inGame \ {fd}
      /\ \/ Occupied(new) = {} /\ live' = live \ {r} /\ rooms' = [rooms EXCEPT ![r] = NewRoom]
         \/ live' = live /\ rooms' = [rooms EXCEPT ![r] = new]
  BY <1>2, EmptyRoom DEF LeaveRoom
<1> HIDE DEF new
<1>5. /\ \A q \in RoomIds \ {r} : rooms'[q] = rooms[q]
      /\ \A f \in Fds \ {fd} : roomOf'[f] = roomOf[f]
      /\ live' \subseteq live
      /\ r \in live' => rooms'[r] = new
      /\ r \notin live' => Members(new) = {}
  BY <1>1, <1>2, <1>4, MemberSeat
<1>6. MetricsOwned'
  <2> SUFFICES ASSUME NEW q \in live' PROVE OwnProgress(rooms'[q])
    BY DEF MetricsOwned, OwnProgress
  <2>1. q \in live /\ q \in RoomIds /\ OwnProgress(rooms[q])
    BY <1>1, <1>5 DEF Games, MetricsOwned, OwnProgress
  <2> QED BY <1>3, <1>5, <2>1
<1>7. GameScreensAgree'
  <2> SUFFICES ASSUME NEW f \in inGame'
               PROVE  roomOf'[f] # NoRoom /\ rooms'[roomOf'[f]].started
    BY DEF GameScreensAgree
  <2>1. f \in Fds \ {fd} /\ roomOf[f] # NoRoom /\ rooms[roomOf[f]].started
    BY <1>1, <1>4 DEF Games, GameScreensAgree
  <2>2. /\ roomOf'[f] = roomOf[f] /\ roomOf[f] \in RoomIds /\ roomOf[f] \in live
        /\ f \in Members(rooms[roomOf[f]])
    BY <1>1, <1>5, <2>1 DEF Inv, Seating, Index
  <2>3. CASE roomOf[f] = r
    <3>1. f \in Members(new)
      BY <1>2, <2>1, <2>2, <2>3
    <3> QED BY <1>3, <1>5, <2>1, <2>2, <2>3, <3>1
  <2>4. CASE roomOf[f] # r
    BY <1>5, <2>1, <2>2, <2>4
  <2> QED BY <2>3, <2>4
<1> QED BY <1>6, <1>7 DEF Games

-----------------------------------------------------------------------------
\* The handlers of the other subsystems change no room and no game.
LEMMA RoomsIdleGames ==
    ASSUME Games, UNCHANGED <<live, rooms, roomOf, inGame>>
    PROVE  Games'
BY DEF Games, MetricsOwned, GameScreensAgree

LEMMA StartGameGames ==
    ASSUME Inv, Games, NEW fd \in Fds, OnStartGame(fd)
    PROVE  Games'
<1> DEFINE rm == rooms[roomOf[fd]]
           new == StartGame(rm)
<1>1. roomOf[fd] # NoRoom /\ RoomOK(rm)
  BY MyRoom DEF OnStartGame
<1>2. /\ OwnProgress(rm) => OwnProgress(new)
      /\ new.started
  BY <1>1, StartGameResets
<1>3. Recipients(rm) \subseteq Members(rm)
  BY <1>1, MemberSeat DEF Recipients, RoomOK
<1>4. rooms' = [rooms EXCEPT ![roomOf[fd]] = new] /\ inGame' = inGame \cup Recipients(rm)
      /\ UNCHANGED <<live, roomOf>>
  BY DEF OnStartGame
<1> HIDE DEF new
<1> QED BY <1>1, <1>2, <1>3, <1>4, RoomChangedGames

LEMMA ArenaInputGames ==
    ASSUME Inv, Games, NEW fd \in Fds, NEW w \in WordIdx, NEW late \in BOOLEAN,
           OnArenaInput(fd, w, late)
    PROVE  Games'
<1> DEFINE rm == rooms[roomOf[fd]]
           scored == ProcessInput(rm, fd, w)
           ended == EndGame(scored)
<1>1. /\ roomOf[fd] # NoRoom /\ RoomOK(rm) /\ fd \in Members(rm) /\ rm.started
      /\ UNCHANGED <<live, roomOf>>
  BY MyRoom DEF OnArenaInput
<1>2. SameSeats(scored, rm) /\ scored.started /\ (OwnProgress(rm) => OwnProgress(scored))
  BY ServerAssumption, <1>1, ProcessInputSeats, ProcessInputAdvances DEF Advances
<1>3. /\ SameSeats(ended, scored) /\ ended.metrics = scored.metrics
      /\ OwnProgress(scored) => OwnProgress(ended)
  <2> HIDE DEF scored
  <2>1. SameSeats(ended, scored) /\ RoomOK(scored)
    BY <1>2, EndGameSeats DEF SameSeats
  <2>2. ended.metrics = scored.metrics
    BY <2>1 DEF EndGame, RoomOK, RoomType
  <2> QED BY <2>1, <2>2, QuietRoom DEF Advances
<1>4. Members(rm) \subseteq Recipients(scored)
  <2> HIDE DEF scored
  <2>1. Members(scored) = Members(rm) /\ scored \in RoomType
    BY <1>2 DEF SameSeats, RoomOK
  <2> QED BY <2>1, MemberSeat DEF Recipients
<1>5. \/ rooms' = [rooms EXCEPT ![roomOf[fd]] = scored] /\ inGame' = inGame
      \/ /\ rooms' = [rooms EXCEPT ![roomOf[fd]] = ended]
         /\ inGame' = inGame \ Recipients(scored)
  BY DEF OnArenaInput
<1> HIDE DEF scored, ended
<1>6. CASE rooms' = [rooms EXCEPT ![roomOf[fd]] = scored] /\ inGame' = inGame
  BY <1>1, <1>2, <1>6, RoomChangedGames
<1>7. CASE /\ rooms' = [rooms EXCEPT ![roomOf[fd]] = ended]
           /\ inGame' = inGame \ Recipients(scored)
  BY <1>1, <1>2, <1>3, <1>4, <1>7, RoomChangedGames
<1> QED BY <1>5, <1>6, <1>7

\* ready, privacy and names.
LEMMA UpdateGames ==
    ASSUME Inv, Games, NEW fd \in Fds, roomOf[fd] # NoRoom,
           NEW new, SameSeats(new, rooms[roomOf[fd]]), Update(fd, new),
           new.metrics = rooms[roomOf[fd]].metrics, new.started = rooms[roomOf[fd]].started
    PROVE  Games'
<1>1. RoomOK(rooms[roomOf[fd]]) /\ roomOf[fd] \in live
  BY MyRoom
<1>2. OwnProgress(rooms[roomOf[fd]]) => OwnProgress(new)
  BY <1>1, QuietRoom DEF Advances
<1>3. \A f \in inGame' : IF f \in Members(rooms[roomOf[fd]]) THEN new.started ELSE f \in inGame
  <2> SUFFICES ASSUME NEW f \in inGame, f \in Members(rooms[roomOf[fd]])
               PROVE  rooms[roomOf[fd]].started
    BY DEF Update
  <2>1. roomOf[f] = roomOf[fd]
    BY <1>1, MemberSeat DEF RoomOK, Inv, Seating, SeatingType, Index
  <2> QED BY <2>1 DEF Games, GameScreensAgree
<1> QED BY <1>2, <1>3, RoomChangedGames DEF Update

\* The updates leave progress and the flag alone.
LEMMA SetReadyQuiet ==
    ASSUME NEW rm, RoomOK(rm), NEW fd, NEW ready
    PROVE  /\ SetReady(rm, fd, ready).metrics = rm.metrics
           /\ SetReady(rm, fd, ready).started = rm.started
BY DEF SetReady, RoomOK, RoomType

LEMMA UpdateDisplayNameQuiet ==
    ASSUME NEW rm, RoomOK(rm), NEW fd, NEW name
    PROVE  /\ UpdateDisplayName(rm, fd, name).metrics = rm.metrics
           /\ UpdateDisplayName(rm, fd, name).started = rm.started
BY DEF UpdateDisplayName, RoomOK, RoomType

LEMMA SetPrivateQuiet ==
    ASSUME NEW rm, RoomOK(rm), NEW private
    PROVE  /\ SetPrivate(rm, private).metrics = rm.metrics
           /\ SetPrivate(rm, private).started = rm.started
BY DEF SetPrivate, RoomOK, RoomType

-----------------------------------------------------------------------------
\* Every handler keeps progress with the members and game screens with games.
LEMMA NextGames == Inv /\ Games /\ [Next]_vars => Games'
<1> SUFFICES ASSUME Inv, Games, [Next]_vars PROVE Games'
  OBVIOUS
<1>1. CASE UNCHANGED <<live, rooms, roomOf, inGame>>
  BY <1>1, RoomsIdleGames
<1>2. ASSUME NEW fd \in Fds, Disconnect(fd) \/ OnExitRoom(fd) PROVE Games'
  <2>1. CASE roomOf[fd] = NoRoom
    BY <1>2, <2>1, RoomsIdleGames DEF Disconnect, OnExitRoom, roomVars
  <2>2. CASE roomOf[fd] # NoRoom
    BY <1>2, <2>2, LeaveGames DEF Disconnect, OnExitRoom
  <2> QED BY <2>1, <2>2
<1>3. ASSUME NEW fd \in Fds, OnCreateRoom(fd) PROVE Games'
  <2>1. roomCounter \in RoomIds /\ roomCounter \notin live
    BY <1>3, ServerAssumption DEF OnCreateRoom, Inv, TypeOK, LiveBelow, RoomIds
  <2> QED BY <1>3, <2>1, EnterGames DEF OnCreateRoom
<1>4. ASSUME NEW fd \in Fds, (\E r \in RoomIds : OnJoinRoom(fd, r)) \/ OnJoinRandom(fd)
      PROVE  Games'
  <2>1. PICK r \in live : Enter(fd, r, rooms[r])
    BY <1>4 DEF OnJoinRoom, OnJoinRandom
  <2>2. roomOf[fd] = NoRoom /\ live' = live \cup {r} /\ inGame' = inGame
    BY <1>4 DEF OnJoinRoom, OnJoinRandom
  <2>3. r \in RoomIds
    BY DEF Inv, TypeOK
  <2> QED BY <2>1, <2>2, <2>3, EnterGames
<1>5. ASSUME NEW fd \in Fds, NEW ready \in BOOLEAN, OnReady(fd, ready) PROVE Games'
  <2> DEFINE new == SetReady(rooms[roomOf[fd]], fd, ready)
  <2>1. roomOf[fd] # NoRoom /\ Update(fd, new)
    BY <1>5 DEF OnReady
  <2>2. SameSeats(new, rooms[roomOf[fd]])
    BY <2>1, MyRoom, SetReadySeats
  <2>3. /\ new.metrics = rooms[roomOf[fd]].metrics
        /\ new.started = rooms[roomOf[fd]].started
    BY <2>1, MyRoom, SetReadyQuiet
  <2> HIDE DEF new
  <2> QED BY <2>1, <2>2, <2>3, UpdateGames
<1>6. ASSUME NEW fd \in Fds, NEW private \in BOOLEAN, OnSetPrivate(fd, private) PROVE Games'
  BY <1>6, MyRoom, SetPrivateSeats, SetPrivateQuiet, UpdateGames DEF OnSetPrivate
<1>7. ASSUME NEW fd \in Fds, NEW name \in Names, OnSetUsername(fd, name) PROVE Games'
  <2>1. CASE roomOf[fd] = NoRoom
    BY <1>7, <2>1, RoomsIdleGames DEF OnSetUsername, roomVars
  <2>2. CASE roomOf[fd] # NoRoom
    BY <1>7, <2>2, MyRoom, UpdateDisplayNameSeats, UpdateDisplayNameQuiet, UpdateGames DEF OnSetUsername
  <2> QED BY <2>1, <2>2
<1>8. ASSUME NEW fd \in Fds, OnStartGame(fd) PROVE Games'
  BY <1>8, StartGameGames
<1>9. ASSUME NEW fd \in Fds, NEW w \in WordIdx, NEW late \in BOOLEAN, OnArenaInput(fd, w, late)
      PROVE  Games'
  BY <1>9, ArenaInputGames
<1> QED
  BY <1>1, <1>2, <1>3, <1>4, <1>5, <1>6, <1>7, <1>8, <1>9
  DEF Next, vars, roomVars, Accept, OnSignIn, OnSignOut, OnStartTraining, OnTrainingInput

LEMMA GamesInvariant == Spec => [](Inv /\ Games)
<1>1. Init => Games
  BY DEF Init, Games, MetricsOwned, GameScreensAgree
<1> QED BY <1>1, InitInv, NextInv, NextGames, PTL DEF Spec

\* A room holds progress for the clients seated in it and for nobody else.
THEOREM MetricsOwnedHolds == Spec => []MetricsOwned
<1>1. Games => MetricsOwned
  BY DEF Games
<1> QED BY <1>1, GamesInvariant, PTL

\* Whoever is shown a game is seated in a room whose game is running.
THEOREM GameScreensAgreeHolds == Spec => []GameScreensAgree
<1>1. Games => GameScreensAgree
  BY DEF Games
<1> QED BY <1>1, GamesInvariant, PTL

-----------------------------------------------------------------------------
\* The rooms of rooms_ that one handler leaves in place.
RoomsKeepProgress == \A r \in live \cap live' : KeptOrReset(rooms'[r], rooms[r])

\* The rooms a handler does not replace keep all progress.
LEMMA OneRoomKeeps ==
    ASSUME Inv, NEW r \in RoomIds, NEW new, rooms' = [rooms EXCEPT ![r] = new],
           r \in live \cap live' => KeptOrReset(new, rooms[r])
    PROVE  RoomsKeepProgress
<1> SUFFICES ASSUME NEW q \in live \cap live'
             PROVE  KeptOrReset(rooms'[q], rooms[q])
  BY DEF RoomsKeepProgress
<1>1. q \in RoomIds /\ rooms[q] \in RoomType /\ rooms \in [RoomIds -> RoomType]
  BY DEF Inv, TypeOK
<1>2. CASE q = r
  BY <1>1, <1>2
<1>3. CASE q # r
  <2>1. rooms'[q] = rooms[q] /\ Members(rooms[q]) \subseteq Fds
    BY <1>1, <1>3, MemberSeat
  <2> QED BY <1>1, <2>1, ProgressNumbers DEF KeptOrReset
<1> QED BY <1>2, <1>3

LEMMA RoomsStayKeeps == ASSUME Inv, rooms' = rooms PROVE RoomsKeepProgress
BY ProgressNumbers, MemberSeat DEF RoomsKeepProgress, KeptOrReset, Inv, TypeOK

LEMMA LeaveKeeps ==
    ASSUME Inv, NEW fd \in Fds, roomOf[fd] # NoRoom, LeaveRoom(fd)
    PROVE  RoomsKeepProgress
<1> DEFINE rm == rooms[roomOf[fd]]
           new == RemovePlayer(rm, fd)
<1>1. roomOf[fd] \in RoomIds /\ RoomOK(rm) /\ fd \in Members(rm)
  BY MyRoom
<1>2. Advances(new, rm) /\ new \in RoomType
  BY <1>1, RemovePlayerAdvances, RemovePlayerSeats
<1>3. \/ rooms' = [rooms EXCEPT ![roomOf[fd]] = NewRoom] /\ roomOf[fd] \notin live'
      \/ rooms' = [rooms EXCEPT ![roomOf[fd]] = new]
  BY DEF LeaveRoom
<1> HIDE DEF new
<1> QED BY <1>1, <1>2, <1>3, OneRoomKeeps DEF Advances, KeptOrReset

\* The handlers that change the caller's room and nobody's seat.
LEMMA CallerKeeps ==
    ASSUME Inv, NEW fd \in Fds, roomOf[fd] # NoRoom,
           NEW new, rooms' = [rooms EXCEPT ![roomOf[fd]] = new],
           Advances(new, rooms[roomOf[fd]]) \/ \A f \in Members(new) : new.metrics[f] = 0
    PROVE  RoomsKeepProgress
BY MyRoom, OneRoomKeeps DEF Advances, KeptOrReset

LEMMA NextKeeps == Inv /\ [Next]_vars => RoomsKeepProgress
<1> SUFFICES ASSUME Inv, [Next]_vars PROVE RoomsKeepProgress
  OBVIOUS
<1>1. CASE rooms' = rooms
  BY <1>1, RoomsStayKeeps
<1>2. ASSUME NEW fd \in Fds, Disconnect(fd) \/ OnExitRoom(fd), rooms' # rooms
      PROVE  RoomsKeepProgress
  <2>1. roomOf[fd] # NoRoom /\ LeaveRoom(fd)
    BY <1>2 DEF Disconnect, OnExitRoom, roomVars
  <2> QED BY <2>1, LeaveKeeps
<1>3. ASSUME NEW fd \in Fds, OnCreateRoom(fd) PROVE RoomsKeepProgress
  <2>1. roomCounter \in RoomIds /\ roomCounter \notin live
    BY <1>3, ServerAssumption DEF OnCreateRoom, Inv, TypeOK, LiveBelow, RoomIds
  <2> QED BY <1>3, <2>1, OneRoomKeeps DEF OnCreateRoom, Enter
<1>4. ASSUME NEW fd \in Fds, (\E r \in RoomIds : OnJoinRoom(fd, r)) \/ OnJoinRandom(fd)
      PROVE  RoomsKeepProgress
  <2>1. PICK r \in live : Enter(fd, r, rooms[r])
    BY <1>4 DEF OnJoinRoom, OnJoinRandom
  <2> DEFINE rm == rooms[r]
             new == AddPlayer(rm, fd, clients[fd].id, clients[fd].name)
  <2>2. /\ r \in RoomIds /\ RoomOK(rm) /\ rm \in RoomType /\ roomOf[fd] = NoRoom
        /\ clients[fd].id \in Nat /\ clients[fd].name \in Names \cup {NoName}
    BY <1>4 DEF Inv, TypeOK, Seating, RoomsOK, OnJoinRoom, OnJoinRandom
  <2>3. fd \notin Members(rm)
    BY <2>2, NoRoomId DEF Inv, Seating, Index
  <2>4. Members(new) = Members(rm) \cup {fd}
    BY <2>1, <2>2, <2>3, AddPlayerSeats DEF Enter, RoomOK
  <2>5. Advances(new, rm)
    BY <2>2, <2>4, AddPlayerAdvances
  <2>6. rooms' = [rooms EXCEPT ![r] = new]
    BY <2>1 DEF Enter
  <2> HIDE DEF new
  <2> QED BY <2>2, <2>5, <2>6, OneRoomKeeps DEF Advances, KeptOrReset
<1>5. ASSUME NEW fd \in Fds, NEW ready \in BOOLEAN, OnReady(fd, ready)
      PROVE  RoomsKeepProgress
  <2> DEFINE new == SetReady(rooms[roomOf[fd]], fd, ready)
  <2>1. roomOf[fd] # NoRoom /\ rooms' = [rooms EXCEPT ![roomOf[fd]] = new]
    BY <1>5 DEF OnReady, Update
  <2>2. SameSeats(new, rooms[roomOf[fd]])
    BY <2>1, MyRoom, SetReadySeats
  <2>3. new.metrics = rooms[roomOf[fd]].metrics
    BY <2>1, MyRoom, SetReadyQuiet
  <2>4. Advances(new, rooms[roomOf[fd]])
    BY <2>1, <2>2, <2>3, MyRoom, QuietRoom
  <2> HIDE DEF new
  <2> QED BY <2>1, <2>4, CallerKeeps
<1>6. ASSUME NEW fd \in Fds, NEW private \in BOOLEAN, OnSetPrivate(fd, private)
      PROVE  RoomsKeepProgress
  BY <1>6, MyRoom, SetPrivateSeats, SetPrivateQuiet, QuietRoom, CallerKeeps
  DEF OnSetPrivate, Update
<1>7. ASSUME NEW fd \in Fds, NEW name \in Names, OnSetUsername(fd, name), rooms' # rooms
      PROVE  RoomsKeepProgress
  <2> DEFINE new == UpdateDisplayName(rooms[roomOf[fd]], fd, name)
  <2>1. roomOf[fd] # NoRoom /\ rooms' = [rooms EXCEPT ![roomOf[fd]] = new]
    BY <1>7 DEF OnSetUsername, Update, roomVars
  <2>2. SameSeats(new, rooms[roomOf[fd]])
    BY <2>1, MyRoom, UpdateDisplayNameSeats
  <2>3. new.metrics = rooms[roomOf[fd]].metrics
    BY <2>1, MyRoom, UpdateDisplayNameQuiet
  <2>4. Advances(new, rooms[roomOf[fd]])
    BY <2>1, <2>2, <2>3, MyRoom, QuietRoom
  <2> HIDE DEF new
  <2> QED BY <2>1, <2>4, CallerKeeps
<1>8. ASSUME NEW fd \in Fds, OnStartGame(fd) PROVE RoomsKeepProgress
  BY <1>8, MyRoom, StartGameResets, CallerKeeps DEF OnStartGame
<1>9. ASSUME NEW fd \in Fds, NEW w \in WordIdx, NEW late \in BOOLEAN, OnArenaInput(fd, w, late)
      PROVE  RoomsKeepProgress
  <2> DEFINE rm == rooms[roomOf[fd]]
             scored == ProcessInput(rm, fd, w)
             ended == EndGame(scored)
  <2>1. roomOf[fd] # NoRoom /\ RoomOK(rm) /\ fd \in Members(rm)
    BY <1>9, MyRoom DEF OnArenaInput
  <2>2. Advances(scored, rm) /\ SameSeats(scored, rm)
    BY ServerAssumption, <2>1, ProcessInputAdvances, ProcessInputSeats
  <2>3. Advances(ended, rm)
    <3> HIDE DEF scored
    <3>1. RoomOK(scored) /\ Members(scored) = Members(rm)
      BY <2>2 DEF SameSeats
    <3>2. ended.metrics = scored.metrics /\ Members(ended) = Members(scored)
      BY <3>1, EndGameSeats DEF EndGame, RoomOK, RoomType, SameSeats
    <3> HIDE DEF ended
    <3> QED BY <2>2, <3>1, <3>2 DEF Advances, OwnProgress
  <2>4. \/ rooms' = [rooms EXCEPT ![roomOf[fd]] = scored]
        \/ rooms' = [rooms EXCEPT ![roomOf[fd]] = ended]
    BY <1>9 DEF OnArenaInput
  <2> HIDE DEF scored, ended
  <2> QED BY <2>1, <2>2, <2>3, <2>4, CallerKeeps
<1> QED
  BY <1>1, <1>2, <1>3, <1>4, <1>5, <1>6, <1>7, <1>8, <1>9
  DEF Next, vars, roomVars, Accept, OnSignIn, OnSignOut, OnStartTraining, OnTrainingInput

\* Progress is lost by a restart only, and then by everybody at once.
THEOREM ProgressKeptHolds == Spec => ProgressKept
<1>1. Inv /\ Inv' /\ RoomsKeepProgress =>
        \A r \in live \cap live' :
          (\E fd \in Members(rooms[r]) \cap Members(rooms'[r]) :
                rooms'[r].metrics[fd] < rooms[r].metrics[fd])
          => \A fd \in Members(rooms'[r]) : rooms'[r].metrics[fd] = 0
  <2> SUFFICES ASSUME Inv, Inv', RoomsKeepProgress, NEW r \in live \cap live',
                      NEW fd \in Members(rooms[r]) \cap Members(rooms'[r]),
                      rooms'[r].metrics[fd] < rooms[r].metrics[fd]
               PROVE  \A f \in Members(rooms'[r]) : rooms'[r].metrics[f] = 0
    OBVIOUS
  <2>1. rooms[r] \in RoomType /\ rooms'[r] \in RoomType
    BY DEF Inv, TypeOK
  <2>2. fd \in Fds
    BY <2>1, MemberSeat
  <2>3. ~(rooms'[r].metrics[fd] >= rooms[r].metrics[fd])
    BY <2>1, <2>2, ProgressNumbers
  <2> QED BY <2>3 DEF RoomsKeepProgress, KeptOrReset
<1> QED BY <1>1, NextKeeps, Invariance, PTL DEF Spec, ProgressKept

-----------------------------------------------------------------------------
(* RoomServer implements RoomDirectory: creating a room is Open, joining one *)
(* (by id or at random) is Enter, leaving one (exit_room or a hang-up) is    *)
(* Leave, and every other handler leaves the directory alone.                *)

\* The descriptor that holds the host's slot.
HostFd(rm) == rm.slots[rm.host].fd

\* The directory's members are the inverse of fd_to_room_.
LEMMA MembersByIndex ==
    ASSUME Inv, NEW r \in RoomIds
    PROVE  MembersOf[r] = {f \in Fds : roomOf[f] = r}
BY MemberSeat DEF MembersOf, Inv, Seating, SeatingType, Index

\* A host is a member of its room.
LEMMA HostIsMember ==
    ASSUME NEW rm, RoomOK(rm)
    PROVE  HostFd(rm) \in Members(rm) /\ HostFd(rm) \in Fds
BY MemberSeat DEF RoomOK, HostFd

\* Slots bound members: a room with a free slot has fewer members than slots.
LEMMA RoomForMore ==
    ASSUME NEW rm \in RoomType, Free(rm) # {}
    PROVE  Cardinality(Members(rm)) < NumSlots
<1>1. IsFiniteSet(SlotIdx) /\ Cardinality(SlotIdx) = NumSlots
  BY RoomAssumption, FS_Interval DEF SlotIdx
<1>2. Occupied(rm) \in SUBSET SlotIdx /\ Occupied(rm) # SlotIdx
  BY DEF Free, Occupied
<1>3. IsFiniteSet(Occupied(rm)) /\ Cardinality(Occupied(rm)) \in Nat
  BY <1>2, LowestSlot
<1>4. Cardinality(Occupied(rm)) < NumSlots
  BY <1>1, <1>2, <1>3, FS_Subset, RoomAssumption
<1> DEFINE seated == [i \in Occupied(rm) |-> rm.slots[i].fd]
<1>5. seated \in Surjection(Occupied(rm), Members(rm))
  BY MemberSeat DEF Surjection
<1> HIDE DEF seated
<1>6. IsFiniteSet(Members(rm)) /\ Cardinality(Members(rm)) <= Cardinality(Occupied(rm))
  BY <1>3, <1>5, FS_Surjection
<1>7. Cardinality(Members(rm)) \in Nat
  BY <1>6, FS_CardinalityType
<1> QED BY <1>3, <1>4, <1>6, <1>7, RoomAssumption

-----------------------------------------------------------------------------
LEMMA DirectoryInit == Init => Directory!Init
BY DEF Init, Directory!Init, Directory!Rooms, RoomIds, MembersOf, HostOf

\* What the directory shows when one room of the server changes.
LEMMA RoomShown ==
    ASSUME Inv, NEW r \in RoomIds, NEW new, rooms' = [rooms EXCEPT ![r] = new],
           live' = live \cup {r}
    PROVE  /\ MembersOf' = [MembersOf EXCEPT ![r] = Members(new)]
           /\ HostOf' = [HostOf EXCEPT ![r] = HostFd(new)]
<1>1. rooms'[r] = new /\ \A q \in RoomIds \ {r} : rooms'[q] = rooms[q]
  BY DEF Inv, TypeOK
<1>2. /\ MembersOf' = [q \in RoomIds |-> IF q \in live' THEN Members(rooms'[q]) ELSE {}]
      /\ HostOf' = [q \in RoomIds |-> IF q \in live' THEN HostFd(rooms'[q]) ELSE NoFd]
  BY DEF MembersOf, HostOf, HostFd
<1>3. /\ MembersOf = [q \in RoomIds |-> IF q \in live THEN Members(rooms[q]) ELSE {}]
      /\ HostOf = [q \in RoomIds |-> IF q \in live THEN HostFd(rooms[q]) ELSE NoFd]
  BY DEF MembersOf, HostOf, HostFd
<1>4. \A q \in RoomIds \ {r} : q \in live' <=> q \in live
  OBVIOUS
<1>5. MembersOf' = [MembersOf EXCEPT ![r] = Members(new)]
  BY <1>1, <1>2, <1>3, <1>4
<1>6. HostOf' = [HostOf EXCEPT ![r] = HostFd(new)]
  BY <1>1, <1>2, <1>3, <1>4
<1> QED BY <1>5, <1>6

\* ready, unready, privacy, name, start of a game, input: nobody moves.
LEMMA SeatsShown ==
    ASSUME Inv, NEW r \in live, NEW new, SameSeats(new, rooms[r]),
           rooms' = [rooms EXCEPT ![r] = new], UNCHANGED <<live, roomCounter>>
    PROVE  UNCHANGED Directory!vars
<1>1. r \in RoomIds /\ live' = live \cup {r} /\ RoomOK(rooms[r])
  BY DEF Inv, TypeOK, Seating, RoomsOK
<1>2. HostFd(new) = HostFd(rooms[r]) /\ Members(new) = Members(rooms[r])
  BY DEF SameSeats, RoomOK, SeatsFrom, HostFd
<1>3. /\ MembersOf' = [MembersOf EXCEPT ![r] = Members(rooms[r])]
      /\ HostOf' = [HostOf EXCEPT ![r] = HostFd(rooms[r])]
  <2>1. /\ MembersOf' = [MembersOf EXCEPT ![r] = Members(new)]
        /\ HostOf' = [HostOf EXCEPT ![r] = HostFd(new)]
    BY <1>1, RoomShown
  <2> QED BY <1>2, <2>1
<1>4. MembersOf[r] = Members(rooms[r]) /\ HostOf[r] = HostFd(rooms[r])
  BY <1>1 DEF MembersOf, HostOf, HostFd
<1>5. MembersOf' = MembersOf /\ HostOf' = HostOf
  BY <1>3, <1>4, ZenonT(30) DEF MembersOf, HostOf
<1> QED BY <1>5 DEF Directory!vars

\* A client without a room is in no room of the directory.
LEMMA NoRoomHomeless ==
    ASSUME Inv, NEW fd \in Fds, roomOf[fd] = NoRoom
    PROVE  Directory!Homeless(fd)
BY MembersByIndex, NoRoomId DEF Directory!Homeless, Directory!Rooms, RoomIds

\* create_room opens a room in the directory, with the creator as its host.
LEMMA CreateOpens ==
    ASSUME Inv, NEW fd \in Fds, OnCreateRoom(fd)
    PROVE  Directory!Open(fd)
<1> DEFINE r == roomCounter
           new == AddPlayer(NewRoom, fd, clients[fd].id, clients[fd].name)
<1>1. /\ r \in RoomIds /\ r \in Nat /\ MaxRooms \in Nat
      /\ clients[fd].id \in Nat /\ clients[fd].name \in Names \cup {NoName}
  BY ServerAssumption DEF OnCreateRoom, Inv, TypeOK, RoomIds
<1>2. RoomOK(new) /\ Members(new) = {fd}
  <2>1. /\ NewRoom \in RoomType /\ SingleSeats(NewRoom) /\ Members(NewRoom) = {}
        /\ Occupied(NewRoom) = {} /\ NewRoom.host = NoHost
    BY NewRoomType, MemberSeat DEF SingleSeats, NewRoom
  <2>2. Free(NewRoom) # {}
    BY DEF OnCreateRoom, Enter
  <2> QED BY <1>1, <2>1, <2>2, AddPlayerSeats
<1>3. HostFd(new) = fd
  BY <1>2, HostIsMember
<1>4. rooms' = [rooms EXCEPT ![r] = new] /\ live' = live \cup {r} /\ r' = r + 1
  BY DEF OnCreateRoom, Enter
<1> HIDE DEF new
<1>5. /\ MembersOf' = [MembersOf EXCEPT ![r] = {fd}]
      /\ HostOf' = [HostOf EXCEPT ![r] = fd]
  BY <1>1, <1>2, <1>3, <1>4, RoomShown
<1>6. Directory!Homeless(fd)
  BY NoRoomHomeless DEF OnCreateRoom
<1>7. roomCounter <= MaxRooms
  BY DEF OnCreateRoom
<1>8. r' - 1 = r /\ r' - 1 = (r - 1) + 1 /\ r - 1 < MaxRooms
  BY <1>1, <1>4, <1>7
<1> QED BY <1>5, <1>6, <1>8 DEF Directory!Open

\* join_room and join_random enter a room that is open and not full.
LEMMA JoinEnters ==
    ASSUME Inv, NEW fd \in Fds, roomOf[fd] = NoRoom, NEW r \in live,
           Enter(fd, r, rooms[r]), UNCHANGED <<clients, live, roomCounter>>
    PROVE  r \in Directory!Rooms /\ Directory!Enter(fd, r)
<1> DEFINE rm == rooms[r]
           new == AddPlayer(rm, fd, clients[fd].id, clients[fd].name)
<1>1. /\ r \in RoomIds /\ RoomOK(rm) /\ rm \in RoomType /\ live' = live \cup {r}
      /\ clients[fd].id \in Nat /\ clients[fd].name \in Names \cup {NoName}
  BY DEF Inv, TypeOK, Seating, RoomsOK
<1>2. MembersOf[r] = Members(rm) /\ HostOf[r] = HostFd(rm)
  BY <1>1 DEF MembersOf, HostOf, HostFd
<1>3. fd \notin Members(rm) /\ Free(rm) # {}
  BY <1>1, <1>2, MembersByIndex, NoRoomId DEF Enter
<1>4. /\ Members(new) = Members(rm) \cup {fd}
      /\ new.host = rm.host /\ new.slots[rm.host] = rm.slots[rm.host]
  BY <1>1, <1>3, AddPlayerSeats DEF RoomOK
<1>5. rooms' = [rooms EXCEPT ![r] = new]
  BY DEF Enter
<1> HIDE DEF new
<1>6. /\ MembersOf' = [MembersOf EXCEPT ![r] = MembersOf[r] \cup {fd}]
      /\ HostOf' = [HostOf EXCEPT ![r] = HostOf[r]]
  <2>1. HostFd(new) = HostFd(rm)
    BY <1>4 DEF HostFd
  <2>2. /\ MembersOf' = [MembersOf EXCEPT ![r] = Members(new)]
        /\ HostOf' = [HostOf EXCEPT ![r] = HostFd(new)]
    BY <1>1, <1>5, RoomShown
  <2> QED BY <1>2, <1>4, <2>1, <2>2
<1>7. HostOf' = HostOf
  BY <1>6 DEF HostOf
<1>8. MembersOf[r] # {} /\ Cardinality(MembersOf[r]) < NumSlots
  BY <1>1, <1>2, <1>3, HostIsMember, RoomForMore
<1>9. Directory!Homeless(fd)
  BY NoRoomHomeless
<1>10. Directory!Cardinality(MembersOf[r]) = Cardinality(MembersOf[r])
  BY DEF Directory!Cardinality, Cardinality
<1> QED BY <1>1, <1>6, <1>7, <1>8, <1>9, <1>10 DEF Directory!Enter, Directory!Rooms, RoomIds

\* exit_room and a hang-up leave the room; it closes, or its host is one who stays.
LEMMA LeaveLeaves ==
    ASSUME Inv, NEW fd \in Fds, roomOf[fd] # NoRoom, LeaveRoom(fd), UNCHANGED roomCounter
    PROVE  roomOf[fd] \in Directory!Rooms /\ Directory!Leave(fd, roomOf[fd])
<1> DEFINE r == roomOf[fd]
           rm == rooms[r]
           new == RemovePlayer(rm, fd)
<1>1. /\ r \in live /\ r \in RoomIds /\ RoomOK(rm) /\ fd \in Members(rm)
      /\ rooms \in [RoomIds -> RoomType]
  BY MyRoom DEF Inv, TypeOK
<1>2. /\ new \in RoomType
      /\ Occupied(new) # {} => RoomOK(new)
      /\ Members(new) = Members(rm) \ {fd}
  BY <1>1, RemovePlayerSeats
<1>3. \/ /\ Occupied(new) = {}
         /\ live' = live \ {r}
         /\ rooms' = [rooms EXCEPT ![r] = NewRoom]
      \/ /\ Occupied(new) # {}
         /\ live' = live
         /\ rooms' = [rooms EXCEPT ![r] = new]
  BY <1>2, EmptyRoom DEF LeaveRoom
<1>4. MembersOf[r] = Members(rm)
  BY <1>1 DEF MembersOf
<1> HIDE DEF new
<1> DEFINE h == IF Occupied(new) = {} THEN NoFd ELSE HostFd(new)
<1>5. /\ MembersOf' = [MembersOf EXCEPT ![r] = Members(new)]
      /\ HostOf' = [HostOf EXCEPT ![r] = h]
  <2>1. CASE Occupied(new) = {}
    <3>1. Members(new) = {} /\ live' = live \ {r} /\ \A q \in RoomIds \ {r} : rooms'[q] = rooms[q]
      BY <1>1, <1>2, <1>3, <2>1, MemberSeat
    <3> QED BY <2>1, <3>1 DEF MembersOf, HostOf
  <2>2. CASE Occupied(new) # {}
    BY <1>1, <1>3, <2>2, RoomShown
  <2> QED BY <2>1, <2>2
<1>6. h \in Members(new) \cup {NoFd} /\ (h = NoFd <=> Members(new) = {})
  <2>1. CASE Occupied(new) = {}
    BY <1>2, <2>1, MemberSeat
  <2>2. CASE Occupied(new) # {}
    BY <1>2, <2>2, HostIsMember, RoomAssumption
  <2> QED BY <2>1, <2>2
<1>7. MembersOf'[r] = Members(new)
  BY <1>1, <1>5 DEF MembersOf
<1> HIDE DEF h
<1> QED BY <1>1, <1>2, <1>4, <1>5, <1>6, <1>7 DEF Directory!Leave, Directory!Rooms, RoomIds

-----------------------------------------------------------------------------
\* The handlers of the other subsystems do not touch rooms.
LEMMA RoomsIdle ==
    ASSUME UNCHANGED <<live, rooms, roomCounter>>
    PROVE  UNCHANGED Directory!vars
BY DEF Directory!vars, MembersOf, HostOf

\* Every handler is a step of the directory, or leaves it unchanged.
LEMMA NextDirectory == Inv /\ [Next]_vars => [Directory!Next]_(Directory!vars)
<1> SUFFICES ASSUME Inv, [Next]_vars,
                    ~(UNCHANGED Directory!vars)
             PROVE  Directory!Next
  OBVIOUS
<1>1. PICK fd \in Fds :
        \/ Disconnect(fd)
        \/ OnCreateRoom(fd)
        \/ \E r \in RoomIds : OnJoinRoom(fd, r)
        \/ OnJoinRandom(fd)
        \/ OnExitRoom(fd)
        \/ \E ready \in BOOLEAN : OnReady(fd, ready)
        \/ \E private \in BOOLEAN : OnSetPrivate(fd, private)
        \/ \E name \in Names : OnSetUsername(fd, name)
        \/ OnStartGame(fd)
        \/ \E w \in WordIdx, late \in BOOLEAN : OnArenaInput(fd, w, late)
  BY RoomsIdle
  DEF Next, vars, roomVars, Accept, OnSignIn, OnSignOut, OnStartTraining, OnTrainingInput
<1>2. CASE Disconnect(fd)
  <2>1. roomOf[fd] # NoRoom /\ LeaveRoom(fd) /\ UNCHANGED roomCounter
    BY <1>2, RoomsIdle DEF Disconnect, roomVars
  <2> QED BY <2>1, LeaveLeaves DEF Directory!Next
<1>3. CASE OnCreateRoom(fd)
  BY <1>3, CreateOpens DEF Directory!Next
<1>4. CASE (\E r \in RoomIds : OnJoinRoom(fd, r)) \/ OnJoinRandom(fd)
  <2>1. PICK r \in live : Enter(fd, r, rooms[r])
    BY <1>4 DEF OnJoinRoom, OnJoinRandom
  <2>2. roomOf[fd] = NoRoom /\ UNCHANGED <<clients, live, roomCounter>>
    BY <1>4 DEF OnJoinRoom, OnJoinRandom
  <2> QED BY <2>1, <2>2, JoinEnters DEF Directory!Next
<1>5. CASE OnExitRoom(fd)
  BY <1>5, LeaveLeaves DEF OnExitRoom, Directory!Next
<1>6. CASE \E ready \in BOOLEAN : OnReady(fd, ready)
  BY <1>6, MyRoom, SetReadySeats, SeatsShown DEF OnReady, Update
<1>7. CASE \E private \in BOOLEAN : OnSetPrivate(fd, private)
  BY <1>7, MyRoom, SetPrivateSeats, SeatsShown DEF OnSetPrivate, Update
<1>8. CASE \E name \in Names : OnSetUsername(fd, name)
  <2>1. CASE roomOf[fd] = NoRoom
    BY <1>8, <2>1, RoomsIdle DEF OnSetUsername, roomVars
  <2>2. CASE roomOf[fd] # NoRoom
    BY <1>8, <2>2, MyRoom, UpdateDisplayNameSeats, SeatsShown DEF OnSetUsername, Update
  <2> QED BY <2>1, <2>2
<1>9. CASE OnStartGame(fd)
  BY <1>9, MyRoom, StartGameSeats, SeatsShown DEF OnStartGame
<1>10. CASE \E w \in WordIdx, late \in BOOLEAN : OnArenaInput(fd, w, late)
  <2>1. PICK w \in WordIdx, late \in BOOLEAN : OnArenaInput(fd, w, late)
    BY <1>10
  <2> DEFINE rm == rooms[roomOf[fd]]
             scored == ProcessInput(rm, fd, w)
             ended == EndGame(scored)
  <2>2. /\ roomOf[fd] # NoRoom /\ UNCHANGED <<live, roomCounter>>
        /\ \/ rooms' = [rooms EXCEPT ![roomOf[fd]] = scored]
           \/ rooms' = [rooms EXCEPT ![roomOf[fd]] = ended]
    BY <2>1 DEF OnArenaInput
  <2>3. SameSeats(scored, rm)
    BY ServerAssumption, <2>2, MyRoom, ProcessInputSeats
  <2>4. SameSeats(ended, rm)
    <3>1. SameSeats(ended, scored)
      BY <2>3, EndGameSeats DEF SameSeats
    <3> QED BY <2>3, <3>1 DEF SameSeats, SeatsFrom
  <2> HIDE DEF scored, ended
  <2> QED BY <2>2, <2>3, <2>4, MyRoom, SeatsShown
<1> QED BY <1>1, <1>2, <1>3, <1>4, <1>5, <1>6, <1>7, <1>8, <1>9, <1>10

\* The rooms of the server, as clients see them, behave as the directory: one
\* room for each client, rooms that close for good, a host among the members.
THEOREM DirectoryImplemented == Spec => ImplementsDirectory
BY DirectoryInit, NextDirectory, Invariance, PTL DEF Spec, ImplementsDirectory, Directory!Spec
=============================================================================
