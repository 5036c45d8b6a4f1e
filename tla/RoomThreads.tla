---------------------------- MODULE RoomThreads ----------------------------
(***************************************************************************)
(* The handlers of RoomServer that seat and unseat clients, access by      *)
(* access: the server runs one thread for each connection and the accept   *)
(* loop, and takes no lock (backend/server/server.cpp,                     *)
(* room/room_manager.cpp, room/room.cpp).                                  *)
(*                                                                         *)
(* A step is one access to memory that other threads use: reading or       *)
(* writing one field of one slot or the host slot, one operation of a map, *)
(* one increment of a counter.  Each is taken to be atomic, which is more  *)
(* than C++ promises; their order in different threads is free.            *)
(*                                                                         *)
(* A thread keeps a Room* across statements.  Using it after rooms_ has    *)
(* deleted the room is undefined behaviour: the action TouchFreed, after   *)
(* which the model says nothing.                                           *)
(*                                                                         *)
(* Abstractions.  Of a slot there is what says who sits in it; names,      *)
(* ready flags and metrics decide nothing here.  What is sent is left out: *)
(* a broadcast is a use of the Room*, and so is a handler that changes     *)
(* only what is left out.                                                  *)
(***************************************************************************)
EXTENDS Integers

CONSTANTS
    Fds,       \* the socket descriptors the process can hand out
    NoFd,      \* client_fd of a cleared slot (-1 in the code)
    NumSlots,  \* size of slots_
    MaxConns,  \* bound: connections accepted in a behaviour
    MaxRooms   \* bound: rooms created in a behaviour

ASSUME ThreadsAssumption ==
    /\ NoFd \notin Fds
    /\ NumSlots \in Nat \ {0}
    /\ MaxConns \in Nat
    /\ MaxRooms \in Nat

VARIABLES
    open,          \* descriptors the kernel has given out
    clients,       \* clients_: fd -> client_id; NoId when absent
    nextClientId,  \* next_client_id_
    live,          \* the keys of rooms_
    rooms,         \* rooms_: room id -> room; NewRoom when absent
    roomOf,        \* fd_to_room_: fd -> room; NoRoom when absent
    roomCounter,   \* room_counter_
    thread,        \* connection -> its descriptor and what its thread is doing
    contended,     \* history: rooms whose slots two threads have written at once
    corrupted      \* history: freed memory has been used

maps == <<open, clients, nextClientId, live, roomOf, roomCounter, corrupted>>
vars == <<maps, rooms, thread, contended>>

SlotIdx == 0 .. NumSlots - 1
NoHost == -1
NoRoom == 0
NoId == 0
RoomIds == 1 .. MaxRooms
Conns == 1 .. MaxConns     \* connections, by the client_id they are given

Slot == [occupied : BOOLEAN, fd : Fds \cup {NoFd}, cid : Conns \cup {NoId}]
FreeSlot == [occupied |-> FALSE, fd |-> NoFd, cid |-> NoId]
Room == [slots : [SlotIdx -> Slot], host : SlotIdx \cup {NoHost}]
NewRoom == [slots |-> [i \in SlotIdx |-> FreeSlot], host |-> NoHost]

Occupied(rm) == {i \in SlotIdx : rm.slots[i].occupied}

\* The statements of add_player from the one that follows the finding of a free
\* slot, and those of remove_player from the one that follows the finding of its own.
Filling == {"occupying", "writingFd", "writingId", "testingHost", "takingHost"}
Clearing == {"vacating", "clearingFd", "clearingId", "unhosting", "electing"}
Writing == Filling \cup Clearing

\* The statements that follow a Room* pointer.
UsesRoom == Writing \cup {"joining", "leaving", "counting", "deleting", "sending"}

\* Where the thread of a connection stands.  "accepted": the accept loop has the
\* descriptor and has not stored its entry.
Steps == UsesRoom \cup {"none", "accepted", "idle", "indexing", "erasing", "closing", "done"}

\* A thread: its descriptor, its statement, and the locals of its handler: the
\* Room*, a slot index, and whether the handler is the end of the connection.
Thread == [fd : Fds \cup {NoFd}, at : Steps, room : RoomIds \cup {NoRoom}, slot : SlotIdx,
           quitting : BOOLEAN]
NoThread == [fd |-> NoFd, at |-> "none", room |-> NoRoom, slot |-> 0, quitting |-> FALSE]

At(c, step) == thread[c].at = step
Fd(c) == thread[c].fd
MyRoom(c) == rooms[thread[c].room]
MySlot(c) == MyRoom(c).slots[thread[c].slot]

\* The statement step, which follows the Room* of the thread to a room of rooms_.
InRoom(c, step) == At(c, step) /\ thread[c].room \in live

Go(c, step) == thread' = [thread EXCEPT ![c].at = step]

\* A loop over the slots starts at the first, and goes on to the next.
Loop(c, step) == thread' = [thread EXCEPT ![c].at = step, ![c].slot = 0]
LastSlot(c) == thread[c].slot = NumSlots - 1
NextSlot(c) == ~LastSlot(c) /\ thread' = [thread EXCEPT ![c].slot = @ + 1]

\* The end of a handler: its locals are gone, and the thread waits for the next
\* message or finishes the hang-up.
Return(c) ==
    thread' = [thread EXCEPT ![c] =
        [NoThread EXCEPT !.fd = Fd(c), !.at = IF thread[c].quitting THEN "erasing" ELSE "idle"]]

Init ==
    /\ open = {}
    /\ clients = [f \in Fds |-> NoId]
    /\ nextClientId = 1
    /\ live = {}
    /\ rooms = [r \in RoomIds |-> NewRoom]
    /\ roomOf = [f \in Fds |-> NoRoom]
    /\ roomCounter = 1
    /\ thread = [c \in Conns |-> NoThread]
    /\ contended = {}
    /\ corrupted = FALSE

-----------------------------------------------------------------------------
(* The accept loop, and the end of a connection. *)

\* accept returns; one connection at a time is between accept and its thread.
Accept(fd) ==
    /\ fd \notin open
    /\ nextClientId <= MaxConns
    /\ \A c \in Conns : ~At(c, "accepted")
    /\ open' = open \cup {fd}
    /\ nextClientId' = nextClientId + 1
    /\ thread' = [thread EXCEPT ![nextClientId] = [NoThread EXCEPT !.fd = fd, !.at = "accepted"]]
    /\ UNCHANGED <<clients, live, rooms, roomOf, roomCounter, corrupted>>

\* clients_[client_fd] = info; hello; the thread starts.
Register(c) ==
    /\ At(c, "accepted")
    /\ clients' = [clients EXCEPT ![Fd(c)] = c]
    /\ Go(c, "idle")
    /\ UNCHANGED <<open, nextClientId, live, rooms, roomOf, roomCounter, corrupted>>

\* Mutant: the descriptor is closed first and its entry erased afterwards.
EraseClient_AfterClose(c) ==
    /\ \/ /\ At(c, "erasing")
          /\ open' = open \ {Fd(c)}
          /\ Go(c, "closing")
          /\ UNCHANGED clients
       \/ /\ At(c, "closing")
          /\ clients' = [clients EXCEPT ![Fd(c)] = NoId]
          /\ Go(c, "done")
          /\ UNCHANGED open
    /\ UNCHANGED <<nextClientId, live, rooms, roomOf, roomCounter, corrupted>>

EraseClient(c) ==
    /\ At(c, "erasing")
    /\ clients' = [clients EXCEPT ![Fd(c)] = NoId]
    /\ Go(c, "closing")
    /\ UNCHANGED <<open, nextClientId, live, rooms, roomOf, roomCounter, corrupted>>

\* close: from here on the kernel may hand the descriptor out again.
Close(c) ==
    /\ At(c, "closing")
    /\ open' = open \ {Fd(c)}
    /\ Go(c, "done")
    /\ UNCHANGED <<clients, nextClientId, live, rooms, roomOf, roomCounter, corrupted>>

-----------------------------------------------------------------------------
(* Entering a room. *)

\* create_room up to rooms_[room_id] = ...: nobody else knows the room before that.
CreateRoom(c) ==
    LET r == roomCounter
    IN  /\ At(c, "idle")
        /\ roomOf[Fd(c)] = NoRoom
        /\ r <= MaxRooms
        /\ roomCounter' = r + 1
        /\ live' = live \cup {r}
        /\ rooms' = [rooms EXCEPT ![r] =
               [NewRoom EXCEPT !.slots[0] = [occupied |-> TRUE, fd |-> Fd(c), cid |-> clients[Fd(c)]],
                               !.host = 0]]
        /\ thread' = [thread EXCEPT ![c].at = "indexing", ![c].room = r, ![c].slot = 0]
        /\ UNCHANGED <<open, clients, nextClientId, roomOf, corrupted>>

\* Mutant: join_room without the ALREADY_IN_ROOM check.
JoinRoom_Unchecked(c, r) ==
    /\ At(c, "idle")
    /\ r \in live
    /\ thread' = [thread EXCEPT ![c].at = "joining", ![c].room = r, ![c].slot = 0]
    /\ UNCHANGED <<maps, rooms>>

\* join_room, join_random: not in a room yet; the pointer is taken from rooms_.
JoinRoom(c, r) ==
    /\ At(c, "idle")
    /\ roomOf[Fd(c)] = NoRoom
    /\ r \in live
    /\ thread' = [thread EXCEPT ![c].at = "joining", ![c].room = r, ![c].slot = 0]
    /\ UNCHANGED <<maps, rooms>>

\* add_player: look for a slot that is not occupied.
FindFreeSlot(c) ==
    /\ InRoom(c, "joining")
    /\ \/ ~MySlot(c).occupied /\ Go(c, "occupying")
       \/ MySlot(c).occupied /\ NextSlot(c)
       \/ MySlot(c).occupied /\ LastSlot(c) /\ Return(c)
    /\ UNCHANGED <<maps, rooms>>

\* The statement step writes the slot of the thread, and next follows.
WriteSlot(c, step, slot, next) ==
    /\ InRoom(c, step)
    /\ rooms' = [rooms EXCEPT ![thread[c].room].slots[thread[c].slot] = slot]
    /\ Go(c, next)
    /\ UNCHANGED maps

\* The statement step writes the host slot.
WriteHost(c, host) == rooms' = [rooms EXCEPT ![thread[c].room].host = host]

\* add_player: the fields of the slot that was found free, in their order.
FillSlot(c) ==
    \/ WriteSlot(c, "occupying", [MySlot(c) EXCEPT !.occupied = TRUE], "writingFd")
    \/ WriteSlot(c, "writingFd", [MySlot(c) EXCEPT !.fd = Fd(c)], "writingId")
    \/ WriteSlot(c, "writingId", [MySlot(c) EXCEPT !.cid = clients[Fd(c)]], "testingHost")

\* add_player: who finds no host becomes host.
TestHost(c) ==
    /\ InRoom(c, "testingHost")
    /\ Go(c, IF MyRoom(c).host = NoHost THEN "takingHost" ELSE "indexing")
    /\ UNCHANGED <<maps, rooms>>

TakeHost(c) ==
    /\ InRoom(c, "takingHost")
    /\ WriteHost(c, thread[c].slot)
    /\ Go(c, "indexing")
    /\ UNCHANGED maps

\* fd_to_room_[fd] = room.
IndexRoom(c) ==
    /\ At(c, "indexing")
    /\ roomOf' = [roomOf EXCEPT ![Fd(c)] = thread[c].room]
    /\ Go(c, "sending")
    /\ UNCHANGED <<open, clients, nextClientId, live, rooms, roomCounter, corrupted>>

-----------------------------------------------------------------------------
(* ready, unready, set_private, set_username, start_game and input look the  *)
(* room up, change what is left out here, and broadcast: all of it a use of   *)
(* the pointer, of which the last one stands for them all.                    *)

LookUpRoom(c) ==
    /\ At(c, "idle")
    /\ roomOf[Fd(c)] # NoRoom
    /\ thread' = [thread EXCEPT ![c].at = "sending", ![c].room = roomOf[Fd(c)]]
    /\ UNCHANGED <<maps, rooms>>

\* broadcast_room_state.
SendState(c) ==
    /\ InRoom(c, "sending")
    /\ Return(c)
    /\ UNCHANGED <<maps, rooms>>

-----------------------------------------------------------------------------
(* Leaving a room: exit_room, and the hang-up. *)

\* Mutant: remove_fd leaves the index entry where it is.
Unindex_Keeps(c, quitting) ==
    /\ thread' = [thread EXCEPT ![c].at = "leaving", ![c].room = roomOf[Fd(c)],
                                ![c].slot = 0, ![c].quitting = quitting]
    /\ UNCHANGED roomOf

\* remove_fd: erase the index entry and keep the pointer.
Unindex(c, quitting) ==
    /\ roomOf' = [roomOf EXCEPT ![Fd(c)] = NoRoom]
    /\ thread' = [thread EXCEPT ![c].at = "leaving", ![c].room = roomOf[Fd(c)],
                                ![c].slot = 0, ![c].quitting = quitting]

ExitRoom(c) ==
    /\ At(c, "idle")
    /\ roomOf[Fd(c)] # NoRoom
    /\ Unindex(c, FALSE)
    /\ UNCHANGED <<open, clients, nextClientId, live, rooms, roomCounter, corrupted>>

\* Mutant: the hang-up does not remove the client from its room.
HangUp_KeepsSeat(c) ==
    /\ At(c, "idle")
    /\ Go(c, "erasing")
    /\ UNCHANGED <<maps, rooms>>

\* recv returned 0 or an error.
HangUp(c) ==
    /\ At(c, "idle")
    /\ \/ /\ roomOf[Fd(c)] # NoRoom
          /\ Unindex(c, TRUE)
       \/ /\ roomOf[Fd(c)] = NoRoom
          /\ Go(c, "erasing")
          /\ UNCHANGED roomOf
    /\ UNCHANGED <<open, clients, nextClientId, live, rooms, roomCounter, corrupted>>

\* find_slot_by_fd: a slot that is occupied and holds the descriptor.
FindOwnSlot(c) ==
    LET mine == MySlot(c).occupied /\ MySlot(c).fd = Fd(c)
    IN  /\ InRoom(c, "leaving")
        /\ \/ mine /\ Go(c, "vacating")
           \/ ~mine /\ NextSlot(c)
           \/ ~mine /\ LastSlot(c) /\ Loop(c, "counting")
        /\ UNCHANGED <<maps, rooms>>

\* remove_player: the fields of the slot that was found, in their order.
ClearSlot(c) ==
    \/ WriteSlot(c, "vacating", [MySlot(c) EXCEPT !.occupied = FALSE], "clearingFd")
    \/ WriteSlot(c, "clearingFd", [MySlot(c) EXCEPT !.fd = NoFd], "clearingId")
    \/ WriteSlot(c, "clearingId", [MySlot(c) EXCEPT !.cid = NoId], "unhosting")

\* Mutant: remove_player does not recalculate the host.
Unhost_Not(c) ==
    /\ InRoom(c, "unhosting")
    /\ Loop(c, "counting")
    /\ UNCHANGED <<maps, rooms>>

\* recalculate_host: no host, ...
Unhost(c) ==
    /\ InRoom(c, "unhosting")
    /\ WriteHost(c, NoHost)
    /\ Loop(c, "electing")
    /\ UNCHANGED maps

\* ... and then the lowest occupied slot.
ElectHost(c) ==
    /\ InRoom(c, "electing")
    /\ \/ MySlot(c).occupied /\ WriteHost(c, thread[c].slot) /\ Loop(c, "counting")
       \/ ~MySlot(c).occupied /\ NextSlot(c) /\ UNCHANGED rooms
       \/ ~MySlot(c).occupied /\ LastSlot(c) /\ Loop(c, "counting") /\ UNCHANGED rooms
    /\ UNCHANGED maps

\* Mutant: remove_fd never deletes a room.
CountPlayers_Keeps(c) ==
    /\ InRoom(c, "counting")
    /\ \/ (MySlot(c).occupied \/ LastSlot(c)) /\ Go(c, "sending")
       \/ ~(MySlot(c).occupied \/ LastSlot(c)) /\ NextSlot(c)
    /\ UNCHANGED <<maps, rooms>>

\* Mutant: the loop over the slots runs one too far.
CountPlayers_PastEnd(c) ==
    /\ InRoom(c, "counting")
    /\ \/ MySlot(c).occupied /\ Go(c, "sending")
       \/ ~MySlot(c).occupied /\ thread' = [thread EXCEPT ![c].slot = @ + 1]
    /\ UNCHANGED <<maps, rooms>>

\* player_count: one occupied slot decides that it is not 0.
CountPlayers(c) ==
    /\ InRoom(c, "counting")
    /\ \/ MySlot(c).occupied /\ Go(c, "sending")
       \/ ~MySlot(c).occupied /\ NextSlot(c)
       \/ ~MySlot(c).occupied /\ LastSlot(c) /\ Go(c, "deleting")
    /\ UNCHANGED <<maps, rooms>>

\* rooms_.erase of a room found empty.
DeleteRoom(c) ==
    /\ InRoom(c, "deleting")
    /\ live' = live \ {thread[c].room}
    /\ rooms' = [rooms EXCEPT ![thread[c].room] = NewRoom]
    /\ Return(c)
    /\ UNCHANGED <<open, clients, nextClientId, roomOf, roomCounter, corrupted>>

-----------------------------------------------------------------------------
\* A thread follows a pointer to a room that is no longer there.
TouchFreed(c) ==
    /\ thread[c].at \in UsesRoom
    /\ thread[c].room \notin live
    /\ corrupted' = TRUE
    /\ UNCHANGED <<open, clients, nextClientId, live, rooms, roomOf, roomCounter, thread>>

Step(c) ==
    \/ Register(c)
    \/ EraseClient(c)
    \/ Close(c)
    \/ CreateRoom(c)
    \/ \E r \in RoomIds : JoinRoom(c, r)
    \/ FindFreeSlot(c)
    \/ FillSlot(c)
    \/ TestHost(c)
    \/ TakeHost(c)
    \/ IndexRoom(c)
    \/ LookUpRoom(c)
    \/ SendState(c)
    \/ ExitRoom(c)
    \/ HangUp(c)
    \/ FindOwnSlot(c)
    \/ ClearSlot(c)
    \/ Unhost(c)
    \/ ElectHost(c)
    \/ CountPlayers(c)
    \/ DeleteRoom(c)
    \/ TouchFreed(c)

\* The thread of c is writing the slots or the host of room r.
Writes(c, r) == thread[c].at \in Writing /\ thread[c].room = r

\* The rooms two threads are writing.
Contended == {r \in RoomIds : \E c, d \in Conns : c # d /\ Writes(c, r) /\ Writes(d, r)}

Next ==
    /\ ~corrupted
    /\ \/ \E fd \in Fds : Accept(fd)
       \/ \E c \in Conns : Step(c)
    /\ contended' = contended \cup Contended'

Spec == Init /\ [][Next]_vars

-----------------------------------------------------------------------------
(* Properties. *)

Running(c) == thread[c].at \notin {"none", "accepted", "closing", "done"}

\* Type invariant: every map, counter and local keeps its shape.
TypeOK ==
    /\ open \subseteq Fds
    /\ clients \in [Fds -> Conns \cup {NoId}]
    /\ nextClientId \in 1 .. MaxConns + 1
    /\ live \subseteq RoomIds
    /\ rooms \in [RoomIds -> Room]
    /\ roomOf \in [Fds -> RoomIds \cup {NoRoom}]
    /\ roomCounter \in 1 .. MaxRooms + 1
    /\ thread \in [Conns -> Thread]
    /\ contended \subseteq RoomIds
    /\ corrupted \in BOOLEAN

\* While the thread of a connection runs, its descriptor is open and clients_ has
\* its own entry under it: entries are erased before the descriptor is closed, so
\* no thread erases or reads the entry of the next owner.
ClientKnown ==
    \A c \in Conns : Running(c) => Fd(c) \in open /\ clients[Fd(c)] = c

\* An entry of fd_to_room_ belongs to a connection that is still in a handler or
\* in recv and has not begun to leave, whatever the slots have come to: the next
\* owner of a descriptor starts in no room, however hang-ups and accepts interleave.
IndexOwned ==
    \A fd \in Fds : roomOf[fd] # NoRoom =>
        \E c \in Conns : Fd(c) = fd /\ thread[c].at \in {"idle", "sending"}

\* The rooms whose slots no two threads have ever written at once.  In another
\* room anything can happen to the seats; RoomsDeleted shows what does.
Ordered == live \ contended

\* The slots and the host of room r are not being written.
Settled(r) == \A c \in Conns : ~Writes(c, r)

\* In an ordered room a seat is held by the connection whose id it shows, while
\* its thread runs: no interleaving of searches, index updates, counts, hang-ups
\* and reuses of a descriptor leaves a ghost; only overlapping writes do.
SeatOwned ==
    \A r \in Ordered : Settled(r) =>
        \A i \in Occupied(rooms[r]) :
            LET slot == rooms[r].slots[i]
            IN  /\ slot.cid \in Conns
                /\ Running(slot.cid)
                /\ ~At(slot.cid, "erasing")
                /\ Fd(slot.cid) = slot.fd

\* A client for which fd_to_room_ names an ordered room has exactly one seat there:
\* none is lost to another join and none is doubled.
SeatKept ==
    \A c \in Conns : Running(c) /\ roomOf[Fd(c)] \in Ordered =>
        \E i \in SlotIdx :
            {j \in Occupied(rooms[roomOf[Fd(c)]]) : rooms[roomOf[Fd(c)]].slots[j].fd = Fd(c)} = {i}

\* An ordered room that is empty is not forgotten: somebody is still to count its
\* players, or has found none, and will delete it.
RoomsNotLeaked ==
    \A r \in Ordered : Settled(r) /\ Occupied(rooms[r]) = {} =>
        \E c \in Conns : thread[c].at \in {"counting", "deleting"} /\ thread[c].room = r

\* An ordered room with players has one of them as its host.
HostSeated ==
    \A r \in Ordered : Settled(r) =>
        \/ rooms[r].host \in Occupied(rooms[r])
        \/ rooms[r].host = NoHost /\ Occupied(rooms[r]) = {}

\* What remove_fd promises of its result, and every handler relies on: the Room*
\* a handler uses is a room that still exists.
NoUseAfterFree == ~corrupted

\* "Delete room if empty": when all handlers have returned, some client is in each
\* room.  A leaver and a joiner that write one slot at once leave it occupied by
\* nobody, and nobody will ever delete the room.
RoomsDeleted ==
    (\A c \in Conns : thread[c].at \in {"none", "idle", "done"}) =>
        \A r \in live : \E c \in Conns : At(c, "idle") /\ roomOf[Fd(c)] = r
=============================================================================
