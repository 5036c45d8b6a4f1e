----------------------------- MODULE RoomServer -----------------------------
(***************************************************************************)
(* The server of backend/server/server.cpp with the RoomManager of         *)
(* backend/room/room_manager.cpp: connections, rooms, arena games and      *)
(* training sessions.                                                      *)
(*                                                                         *)
(* One action is one message handler run from its first to its last line:  *)
(* the serialised view of a server that runs a thread for each connection  *)
(* and takes no lock.  RoomThreads has the interleavings inside handlers.  *)
(*                                                                         *)
(* The state of the code is clients, nextClientId, live, rooms, roomOf,    *)
(* roomCounter and training.  Two history variables hold what the server   *)
(* sent: told[fd] is the last room_state sent to fd since it entered its   *)
(* room; inGame are the members whose last game message is a game_init.    *)
(***************************************************************************)
EXTENDS Room

CONSTANTS
    WordIdx,   \* the values of word_idx that clients send
    Guest,     \* the display name of a fresh connection
    Accounts,  \* the user names of the accounts in the database
    NoUser,    \* user_id of a connection that is not signed in
    MaxConns,  \* bound: connections accepted in a behaviour
    MaxRooms   \* bound: rooms created in a behaviour

\* word_idx is an int of the message.  The largest one is left out: word_idx + 1
\* would overflow.
ASSUME ServerAssumption ==
    /\ WordIdx \subseteq Int
    /\ Guest \in Names
    /\ Accounts \subseteq Names
    /\ NoUser \notin Accounts
    /\ MaxConns \in Nat
    /\ MaxRooms \in Nat

VARIABLES
    clients,       \* clients_: fd -> [id, name, user]; NoClient when absent
    nextClientId,  \* next_client_id_
    live,          \* the keys of rooms_
    rooms,         \* rooms_: room id -> room; NewRoom when absent
    roomOf,        \* fd_to_room_: fd -> room id; NoRoom when absent
    roomCounter,   \* room_counter_
    training,      \* training_sessions_: fd -> word_idx; NoEntry when absent
    told,          \* history: the last room_state sent
    inGame         \* history: who is shown a running game

roomVars == <<live, rooms, roomOf, told, inGame>>
vars == <<clients, nextClientId, live, rooms, roomOf, roomCounter, training, told, inGame>>

NoRoom == 0
RoomIds == 1 .. MaxRooms
NoClient == [id |-> 0, name |-> NoName, user |-> NoUser]
NotTold == [id |-> NoRoom]

Connected(fd) == clients[fd] # NoClient

RoomStateType == [id : RoomIds, private : BOOLEAN, host : SlotIdx \cup {NoHost},
                  slots : [SlotIdx -> Slot]]

\* broadcast_room_state: what each descriptor has been told afterwards.
BroadcastRoomState(r, rm) ==
    [f \in Fds |-> IF f \in Members(rm) THEN RoomState(r, rm) ELSE told[f]]

\* Mutant: broadcast_json sends to the ready players.
Recipients_Ready(rm) == {rm.slots[i].fd : i \in {j \in Occupied(rm) : rm.slots[j].ready}}

\* broadcast_json: who gets a game_init or a game_end.
Recipients(rm) == {rm.slots[i].fd : i \in Occupied(rm)}

Init ==
    /\ clients = [f \in Fds |-> NoClient]
    /\ nextClientId = 1
    /\ live = {}
    /\ rooms = [r \in RoomIds |-> NewRoom]
    /\ roomOf = [f \in Fds |-> NoRoom]
    /\ roomCounter = 1
    /\ training = [f \in Fds |-> NoEntry]
    /\ told = [f \in Fds |-> NotTold]
    /\ inGame = {}

-----------------------------------------------------------------------------
(* Connections. *)

\* accept: the kernel hands out a descriptor that is not open.
Accept(fd) ==
    /\ ~Connected(fd)
    /\ nextClientId <= MaxConns
    /\ clients' = [clients EXCEPT ![fd] = [id |-> nextClientId, name |-> Guest, user |-> NoUser]]
    /\ nextClientId' = nextClientId + 1
    /\ UNCHANGED <<roomVars, roomCounter, training>>

\* remove_fd, then room_state to those who stay.
LeaveRoom(fd) ==
    LET r  == roomOf[fd]
        rm == RemovePlayer(rooms[r], fd)
    IN  /\ roomOf' = [roomOf EXCEPT ![fd] = NoRoom]
        /\ inGame' = inGame \ {fd}
        /\ \/ /\ PlayerCount(rm) = 0
              /\ live' = live \ {r}
              /\ rooms' = [rooms EXCEPT ![r] = NewRoom]
              /\ told' = [told EXCEPT ![fd] = NotTold]
           \/ /\ PlayerCount(rm) > 0
              /\ rooms' = [rooms EXCEPT ![r] = rm]
              /\ told' = [BroadcastRoomState(r, rm) EXCEPT ![fd] = NotTold]
              /\ UNCHANGED live

\* Mutant: a hang-up closes the descriptor without remove_fd.
Disconnect_KeepsSeat(fd) ==
    /\ Connected(fd)
    /\ clients' = [clients EXCEPT ![fd] = NoClient]
    /\ UNCHANGED <<nextClientId, roomVars, roomCounter, training>>

\* recv returned 0 or an error.  training_sessions_ keeps its entry.
Disconnect(fd) ==
    /\ Connected(fd)
    /\ clients' = [clients EXCEPT ![fd] = NoClient]
    /\ IF roomOf[fd] = NoRoom THEN UNCHANGED roomVars ELSE LeaveRoom(fd)
    /\ UNCHANGED <<nextClientId, roomCounter, training>>

-----------------------------------------------------------------------------
(* Accounts: what sign-in means for the connection.  The database is in the  *)
(* module Accounts of the plan.                                              *)

\* Mutant: only the caller's own connection is asked whether the account is in use.
OnSignIn_OwnOnly(fd, user) ==
    /\ Connected(fd)
    /\ clients[fd].user # user
    /\ clients' = [clients EXCEPT ![fd] = [id |-> @.id, name |-> user, user |-> user]]
    /\ UNCHANGED <<nextClientId, roomVars, roomCounter, training>>

\* The password was right; the account must not be signed in anywhere.  The
\* connection takes the account's name; a slot it already holds does not.
OnSignIn(fd, user) ==
    /\ Connected(fd)
    /\ \A f \in Fds : clients[f].user # user
    /\ clients' = [clients EXCEPT ![fd] = [id |-> @.id, name |-> user, user |-> user]]
    /\ UNCHANGED <<nextClientId, roomVars, roomCounter, training>>

OnSignOut(fd) ==
    /\ Connected(fd)
    /\ clients' = [clients EXCEPT ![fd] = [@ EXCEPT !.user = NoUser]]
    /\ UNCHANGED <<nextClientId, roomVars, roomCounter, training>>

-----------------------------------------------------------------------------
(* Rooms. *)

\* add_player, fd_to_room_ and room_state, on room rm stored under id r.
Enter(fd, r, rm) ==
    LET joined == AddPlayer(rm, fd, clients[fd].id, clients[fd].name)
    IN  /\ Free(rm) # {}
        /\ rooms' = [rooms EXCEPT ![r] = joined]
        /\ roomOf' = [roomOf EXCEPT ![fd] = r]
        /\ told' = BroadcastRoomState(r, joined)

OnCreateRoom(fd) ==
    /\ Connected(fd)
    /\ roomOf[fd] = NoRoom
    /\ roomCounter <= MaxRooms
    /\ roomCounter' = roomCounter + 1
    /\ live' = live \cup {roomCounter}
    /\ Enter(fd, roomCounter, NewRoom)
    /\ UNCHANGED <<clients, nextClientId, training, inGame>>

\* Mutant: join_room without the ALREADY_IN_ROOM check.
OnJoinRoom_Unchecked(fd, r) ==
    /\ Connected(fd)
    /\ r \in live
    /\ Enter(fd, r, rooms[r])
    /\ UNCHANGED <<clients, nextClientId, live, roomCounter, training, inGame>>

OnJoinRoom(fd, r) ==
    /\ Connected(fd)
    /\ roomOf[fd] = NoRoom
    /\ r \in live
    /\ Enter(fd, r, rooms[r])
    /\ UNCHANGED <<clients, nextClientId, live, roomCounter, training, inGame>>

\* Any public room with a free slot: the order of rooms_ is a hash order.
OnJoinRandom(fd) ==
    /\ Connected(fd)
    /\ roomOf[fd] = NoRoom
    /\ \E r \in live :
          /\ ~rooms[r].private
          /\ PlayerCount(rooms[r]) < NumSlots
          /\ Enter(fd, r, rooms[r])
    /\ UNCHANGED <<clients, nextClientId, live, roomCounter, training, inGame>>

OnExitRoom(fd) ==
    /\ Connected(fd)
    /\ roomOf[fd] # NoRoom
    /\ LeaveRoom(fd)
    /\ UNCHANGED <<clients, nextClientId, roomCounter, training>>

\* Mutant: the room changes and nobody is told.
Update_Silent(fd, rm) ==
    /\ rooms' = [rooms EXCEPT ![roomOf[fd]] = rm]
    /\ UNCHANGED <<live, roomOf, told, inGame>>

\* The room of fd becomes rm and its members are sent room_state.
Update(fd, rm) ==
    /\ rooms' = [rooms EXCEPT ![roomOf[fd]] = rm]
    /\ told' = BroadcastRoomState(roomOf[fd], rm)
    /\ UNCHANGED <<live, roomOf, inGame>>

\* on_ready and on_unready.
OnReady(fd, ready) ==
    /\ Connected(fd)
    /\ roomOf[fd] # NoRoom
    /\ Update(fd, SetReady(rooms[roomOf[fd]], fd, ready))
    /\ UNCHANGED <<clients, nextClientId, roomCounter, training>>

OnSetPrivate(fd, private) ==
    /\ Connected(fd)
    /\ roomOf[fd] # NoRoom
    /\ IsHost(rooms[roomOf[fd]], fd)
    /\ Update(fd, SetPrivate(rooms[roomOf[fd]], private))
    /\ UNCHANGED <<clients, nextClientId, roomCounter, training>>

OnSetUsername(fd, name) ==
    /\ Connected(fd)
    /\ clients' = [clients EXCEPT ![fd] = [@ EXCEPT !.name = name]]
    /\ IF roomOf[fd] = NoRoom
       THEN UNCHANGED roomVars
       ELSE Update(fd, UpdateDisplayName(rooms[roomOf[fd]], fd, name))
    /\ UNCHANGED <<nextClientId, roomCounter, training>>

-----------------------------------------------------------------------------
(* Games. *)

\* Nothing asks whether a game is already running: the host may restart it.
OnStartGame(fd) ==
    LET r == roomOf[fd]
    IN  /\ Connected(fd)
        /\ r # NoRoom
        /\ IsHost(rooms[r], fd)
        /\ CanStart(rooms[r])
        /\ rooms' = [rooms EXCEPT ![r] = StartGame(rooms[r])]
        /\ inGame' = inGame \cup Recipients(rooms[r])
        /\ UNCHANGED <<clients, nextClientId, live, roomOf, roomCounter, training, told>>

\* training_sessions_[fd] is overwritten, whatever room fd is in.
OnStartTraining(fd) ==
    /\ Connected(fd)
    /\ training' = [training EXCEPT ![fd] = 0]
    /\ UNCHANGED <<clients, nextClientId, roomVars, roomCounter>>

\* on_input, first branch: a descriptor with a session is training.
OnTrainingInput(fd, w, late) ==
    LET next == NextWord(training[fd], w)
    IN  /\ Connected(fd)
        /\ training[fd] # NoEntry
        /\ training' = [training EXCEPT ![fd] =
                            IF late \/ next >= TotalWords THEN NoEntry ELSE next]
        /\ UNCHANGED <<clients, nextClientId, roomVars, roomCounter>>

\* on_input, second branch: score the input, then end the game if it is over.
OnArenaInput(fd, w, late) ==
    LET r      == roomOf[fd]
        scored == ProcessInput(rooms[r], fd, w)
        ended  == EndGame(scored)
    IN  /\ Connected(fd)
        /\ training[fd] = NoEntry
        /\ r # NoRoom
        /\ rooms[r].started
        /\ \/ /\ ~IsGameEnded(scored, late)
              /\ rooms' = [rooms EXCEPT ![r] = scored]
              /\ UNCHANGED <<told, inGame>>
           \/ /\ IsGameEnded(scored, late)
              /\ rooms' = [rooms EXCEPT ![r] = ended]
              /\ told' = BroadcastRoomState(r, ended)
              /\ inGame' = inGame \ Recipients(scored)
        /\ UNCHANGED <<clients, nextClientId, live, roomOf, roomCounter, training>>

-----------------------------------------------------------------------------
Next ==
    \E fd \in Fds :
        \/ Accept(fd)
        \/ Disconnect(fd)
        \/ \E user \in Accounts : OnSignIn(fd, user)
        \/ OnSignOut(fd)
        \/ OnCreateRoom(fd)
        \/ \E r \in RoomIds : OnJoinRoom(fd, r)
        \/ OnJoinRandom(fd)
        \/ OnExitRoom(fd)
        \/ \E ready \in BOOLEAN : OnReady(fd, ready)
        \/ \E private \in BOOLEAN : OnSetPrivate(fd, private)
        \/ \E name \in Names : OnSetUsername(fd, name)
        \/ OnStartGame(fd)
        \/ OnStartTraining(fd)
        \/ \E w \in WordIdx, late \in BOOLEAN : OnTrainingInput(fd, w, late)
        \/ \E w \in WordIdx, late \in BOOLEAN : OnArenaInput(fd, w, late)

Spec == Init /\ [][Next]_vars

-----------------------------------------------------------------------------
(* Properties. *)

\* Type invariant: every variable keeps the shape of the map, counter or flag
\* it stands for, and whatever word_idx clients send, progress is absent or not negative.
TypeOK ==
    /\ clients \in [Fds -> [id : Nat, name : Names \cup {NoName},
                             user : Accounts \cup {NoUser}]]
    /\ nextClientId \in Nat \ {0}
    /\ live \in SUBSET RoomIds
    /\ rooms \in [RoomIds -> RoomType]
    /\ roomOf \in [Fds -> RoomIds \cup {NoRoom}]
    /\ roomCounter \in Nat \ {0}
    /\ training \in [Fds -> Progress]
    /\ told \in [Fds -> RoomStateType \cup {NotTold}]
    /\ inGame \in SUBSET Fds

\* fd_to_room_ and the slots agree, both ways, in every interleaving of create,
\* join, exit and disconnect: a descriptor that maps to a room holds exactly one
\* slot there, and a descriptor seated anywhere maps to that room and no other.
Membership ==
    /\ \A fd \in Fds : roomOf[fd] # NoRoom =>
          /\ roomOf[fd] \in live
          /\ \E i \in SlotIdx : SlotsOf(rooms[roomOf[fd]], fd) = {i}
    /\ \A r \in live : \A fd \in Members(rooms[r]) : roomOf[fd] = r

\* Every room in rooms_ has a host and its slot is occupied: host-only actions
\* always have somebody to take them, and an empty room is never kept.
HostSeated == \A r \in live : rooms[r].host \in Occupied(rooms[r])

\* A seat belongs to the connection that now owns its descriptor: the client_id
\* copied into the slot is the one in clients_, across hang-ups and reuse of the
\* descriptor by another connection.
SlotIdentity ==
    \A r \in live : \A i \in Occupied(rooms[r]) :
        LET slot == rooms[r].slots[i]
        IN  /\ Connected(slot.fd)
            /\ slot.cid = clients[slot.fd].id

\* Two connections never have the same client_id, and none has an id that
\* next_client_id_ will hand out again.
UniqueIds ==
    \A f \in Fds : Connected(f) =>
        /\ clients[f].id \in 1 .. nextClientId - 1
        /\ \A g \in Fds : Connected(g) /\ clients[g].id = clients[f].id => f = g

\* Between handlers every member's last room_state is the room's state: each
\* change that room_state shows is followed by a broadcast to all who stay.
ToldCurrent ==
    \A fd \in Fds : roomOf[fd] # NoRoom =>
        told[fd] = RoomState(roomOf[fd], rooms[roomOf[fd]])

\* player_metrics_ has entries for seated players only, so a player who leaves
\* and returns (or the next owner of its descriptor) inherits no progress.
MetricsOwned ==
    \A r \in live : \A fd \in Fds :
        rooms[r].metrics[fd] # NoEntry => fd \in Members(rooms[r])

\* A client whose last game message was game_init is seated in a room whose game
\* is running: game_end reaches everybody who was shown the game.
GameScreensAgree ==
    \A fd \in inGame : roomOf[fd] # NoRoom /\ rooms[roomOf[fd]].started

\* An account is signed in on one connection at a time, also when its previous
\* connection hung up without signing out.
SignedInOnce ==
    \A f, g \in Fds :
        clients[f].user # NoUser /\ clients[f].user = clients[g].user => f = g

\* Progress in a game is lost only by a restart, which takes it from everybody at
\* once: no input, join or departure moves another player back.
ProgressKept ==
    [][\A r \in live \cap live' :
          (\E fd \in Members(rooms[r]) \cap Members(rooms'[r]) :
                rooms'[r].metrics[fd] < rooms[r].metrics[fd])
          => \A fd \in Members(rooms'[r]) : rooms'[r].metrics[fd] = 0]_vars

\* The documented effect of an input in a game: it updates the game.  No input of
\* a client that is shown a running arena game goes to a training session.
ArenaInputScored ==
    [][\A fd \in inGame, w \in WordIdx, late \in BOOLEAN :
          ~OnTrainingInput(fd, w, late)]_vars

-----------------------------------------------------------------------------
(* Refinement: the rooms of the server are those of the abstract directory.  *)

\* Who is in each room, and the descriptor of its host.
MembersOf == [r \in RoomIds |-> IF r \in live THEN Members(rooms[r]) ELSE {}]
HostOf == [r \in RoomIds |-> IF r \in live THEN rooms[r].slots[rooms[r].host].fd ELSE NoFd]

Directory ==
    INSTANCE RoomDirectory WITH
        Clients <- Fds,
        Nobody <- NoFd,
        Capacity <- NumSlots,
        opened <- roomCounter - 1,
        members <- MembersOf,
        host <- HostOf

\* The server implements the directory: what clients see of rooms is that each
\* client is in at most one, that a room opens once and closes when it empties,
\* and that the host changes only when somebody leaves, to somebody who is there.
\* The last is the code's rule and not the documented one ("Host is automatically the
\* lowest occupied slot"): who fills a slot below the host's does not become host.
ImplementsDirectory == Directory!Spec
=============================================================================
