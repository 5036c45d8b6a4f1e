# Verification of the KBH typing game

The program is a multiplayer typing game: a C++ server (`KBH-IT4062E/backend`)
that keeps rooms, games, training sessions and sign-ins, and an SDL client
(`KBH-IT4062E/frontend`). They exchange one JSON object per line over TCP. The
modules here are translated from the C++ source; paths below are relative to the
repository root, `server.cpp` is `KBH-IT4062E/backend/server/server.cpp`, and so on.

## 1. Inventory

| Part | State | Operations | Talks to |
|---|---|---|---|
| Room (`room/room.cpp`) | eight slots, host slot, privacy, `game_started_`, `player_metrics_` | add/remove player, ready, privacy, rename, start, input, end, rankings | called by the manager and the handlers |
| RoomManager (`room/room_manager.cpp`) | `rooms_`, `fd_to_room_`, `room_counter_` | create, join by id, join random, remove a descriptor | owns rooms, called by handlers |
| Server (`server/server.cpp`) | `clients_`, `next_client_id_`, `training_sessions_`, one receive buffer per connection | accept, hang-up, 18 message types | one thread per connection; everything above and the database, no lock anywhere |
| Database (`database/database.cpp`, `New_DB.sql`) | accounts, paragraphs, results; one pqxx connection | authenticate, create, change password, save, rank | called by handlers of all threads on the same connection |
| Client application (`frontend/src/app`, `core`, `state`) | view stack, deferred actions, last events | route changes driven by the user and by network events | polls the network queue |
| Client network (`frontend/src/net`) | socket, flags, event queue behind a mutex | connect, disconnect, send, receiver thread | one thread feeding the application |
| Screens and overlays (`frontend/src/screens`, `overlays`) | what the user typed, pending answers | send requests, push and pop views | application, network |
| Legacy game modes and typing engines (`backend/gamemode`, `backend/typing_engine`, `frontend/src/typing`), `TestModule` | - | - | not called by the running program |

What is hard to get right here, and hard to test:

* **One fact in several records.** A seat is `fd_to_room_`, a slot and a metrics
  entry, a host is an index into the slots, a client's name and id are copied
  into its slot. Each handler must update all of them.
* **Descriptors as keys.** Every map is keyed by the socket descriptor, and the
  kernel reuses descriptors at once.
* **Telling the others.** Each change must be followed by a `room_state`; each
  `game_init` must eventually be followed by a `game_end`.
* **Threads without locks.** Handlers of different clients interleave at any
  statement.
* **Games end only on input**, so a game nobody types in never ends; and an input
  does not say which game it belongs to.
* **One database connection** for all threads, and transactions that nest.
* **Late answers in the client**: what a network event pops is whatever view is
  on top when it arrives.
* **Two threads and a socket in the client**: `recv` cuts the stream anywhere, the
  other end may go at any time, and closing the window has to stop a thread that may
  be blocked.
* **Typing is counted twice**, by the game screen and by the server from the events
  the screen recorded, with times each client computes for itself.

What makes each part correct: a room always has a seated host and loses nobody's
progress; the manager seats a client in at most one room and opens and closes
rooms like a directory; the server never lets one connection inherit another's
seat, id, account, progress or session, and tells every member each change; a
game that starts ends for everybody; the client never loses its last view and its
receiver thread can always be joined. Not all of that is true of the code: section 3 says
where it fails. `PROJECT.json` lists the hazards one by one,
at their lines, with the properties that watch them.

## 2. Modules

### Room
The class `Room`, one operator per method, over a room record: `slots`, `host`
(`host_slot_idx_`), `private`, `started` (`game_started_`) and `metrics`
(`player_metrics_`, `NoEntry` for an absent key). `RemovePlayer` contains the
`recalculate_host` call, `EndGame` the loop that clears ready flags, `NextWord` the
default-constructed map entry of `player_metrics_[fd]`. Of a player's statistics
only `word_idx` is kept: nothing the server decides depends on the others. An input may name any int as its
word, in the paragraph or not (`NextWord`); only the largest is left out, whose
successor overflows (`room.cpp:149`). Time is one bit, `late`: whether the game's duration is over when the handler looks.
`total_words_` is positive since `get_random_paragraph` returns a sentence also
when the database fails.

### RoomServer
`Server` and `RoomManager` together. The variables are the fields of those classes
(`clients`, `nextClientId`, `rooms` with `live` for its keys, `roomOf` for
`fd_to_room_`, `roomCounter`, `training`), and two history variables for what was
sent: `told`, each seated client's last `room_state`, and `inGame`, the clients
whose last game message is a `game_init`.

| Action | Code |
|---|---|
| `Accept`, `Disconnect` | the loop of `start`, the `n <= 0` branch of `handle_client` |
| `OnCreateRoom`, `OnJoinRoom`, `OnJoinRandom`, `OnExitRoom` | the handlers of those names with the manager's functions they call |
| `OnReady` | `on_ready` and `on_unready` |
| `OnSetPrivate`, `OnSetUsername` | the handlers of those names |
| `OnStartGame`, `OnStartTraining` | the handlers of those names |
| `OnTrainingInput`, `OnArenaInput` | the two branches of `on_input` |
| `OnSignIn`, `OnSignOut` | the successful path of the handlers of those names |

A message the handler refuses changes nothing and is a stuttering step. One action
is one handler from its first to its last line: this is the serialised server, the
one the protocol document describes ("Messages processed sequentially in order
received", `NETWORK_PROTOCOL.md:890`).

### RoomDirectory
What rooms promise, without slots and descriptors: rooms are opened in order, a
client is in at most one, a room closes for good when it empties, and the host
changes only when somebody leaves and is then somebody who stays. `RoomServer`
implements it under the mapping `Directory` at the end of that module.

### MCRoomServer
Declares the symmetry of descriptors; its three configurations are the runs below.

### Room_proofs, RoomServer_proofs
The theorems about `Room` and `RoomServer`, section 4.

### RoomThreads
The handlers that seat and unseat clients, access by access, for the server as it is: a
thread per connection, an accept loop, no lock. A step is one read or write of one field of
one slot or of the host slot, one operation on a map, or one increment of a counter.
`thread[c]` is connection `c`'s descriptor, its next statement, and the locals of its
handler (the `Room*` and a slot index).

| Statements in order | Code |
|---|---|
| `Accept`, `Register` | `accept`; `clients_[client_fd] = info` and the new thread |
| `CreateRoom` | `create_room`; the room is private to the thread until it is stored |
| `JoinRoom`, `FindFreeSlot` per slot, `FillSlot` per field, `TestHost`, `TakeHost`, `IndexRoom` | `join_room` (and `join_random`, which looks up a subset of the rooms) and `add_player` |
| `LookUpRoom` | `on_ready`, `on_unready`, for every handler that uses a room and changes no seat |
| `ExitRoom` or `HangUp`, `FindOwnSlot` per slot, `ClearSlot` per field, `Unhost`, `ElectHost` per slot, `CountPlayers` per slot, `DeleteRoom` | `remove_fd`, `remove_player`, `recalculate_host`, `player_count` |
| `SendState` | `broadcast_room_state`, as the last use of the `Room*` |
| `EraseClient`, `Close` | the end of `handle_client` |

Each access is taken to be atomic: that is more than C++ promises of fields and containers two
threads use without a lock, so what the module shows violated is violated in the program.
`TouchFreed` is the use of a `Room*` after `rooms_` deleted it; the behaviour after that is
undefined, and the model stops. Two threads that write the slots of one room at once can mix
their fields: a leaver sets `occupied` to false, a joiner takes the slot and fills it, and the
leaver goes on to set `client_fd` to -1. The history variable `contended` is the set of rooms
to which that kind of overlap (of any two of `add_player` after its search and
`remove_player` after its search) has happened. The promises about seats, `SeatOwned`, `SeatKept`,
`RoomsNotLeaked` and `HostSeated`, are stated for the other rooms (`Ordered`) while nobody
writes them (`Settled`), where searches, counts, index updates, hang-ups, accepts and
deletions of all threads still interleave freely; they are not true of the program beyond
that, and the run `threads_leaked` shows what happens: an occupied slot that nobody owns and
a room that is never deleted. `IndexOwned` and `ClientKnown` hold in every room. What is sent
is left out, with names, ready flags and metrics, which decide nothing about a seat.

### ClientViews
The SDL client up to its socket: `stack` is `ViewStack::stack`, `deferred` is
`App::deferred`, `user`, `roomState`, `gameInit` and `gameEnd` are the fields of
`AppState` that navigation reads, `toServer` and `inbox` the two directions of the
connection. `phase` is the place in a frame of `App::run`: SDL events, then messages,
then `processDeferred`.

| Action | Code |
|---|---|
| `TitleScreen` ... `MatchResultOverlay` | the buttons and keys of the screen or overlay of that name, enabled while it is on top |
| `PollEvent` with `OnSignInResponse`, ... | the `switch` over network events: `AppState` at once, the view stack deferred |
| `RunDeferred` with `RunNavigation`, `RunPopSignIn`, `RunExitMenu`, `RunReturnLobby` | `processDeferred` and the deferred functions |

A message looks at the view on top when it is taken, and its deferred function at the
one on top when it runs. The loop takes at most ten messages a frame; here it may stop
after any number, because `inbox` holds the receiver's queue together with what the
network still carries, so no counter is needed. `autoStartTraining` is set and consumed
in one step (`UserResultOverlay`): `Router::change` calls `TitleScreen::onEnter` at once.
Left out are texts of errors, drawing, hovering, the text fields, `game_state` (it moves
the knights), `EnterRoomOverlay`, which nothing opens, and the client without a
connection.

### ClientSession
`ClientViews` with the server as one client meets it. `srv` is what the server knows
about this client: account, seat, host and ready flag, whether there are others and
all of them ready, the game of its room, its training session, and the saved results. The
other players are the free choices of `OthersAct` (they come, go, get ready, start and
end games), the database is the free choice between success and refusal.
`haste` counts how often the user clicked while something was under way; a user with
`haste = 0` waits for every answer.

### Arena
The games of one room with everybody who plays them. The room is module `Room` again,
the server's side (`OnReady`, `OnStartGame`, `OnInput`, `OnExitRoom`) its handlers one at
a time, and each client is the views that a game moves: the lobby, game screens with their game and
next word, the match result. `textInput` is SDL's, which `GameScreen::onExit`
switches off for good. `late` says that the running game's duration is over, and `TimeUp`
is the clock passing it. The module asks what a room and its clients promise
together, and above all whether a game ends, since the server looks for the end only
while it handles an input and a client sends inputs only from the game screen.

`on_input` is there with both of its branches: a client in `Trainees` may come with a training
session it has left unfinished, on this connection or by the last owner of its descriptor
(`training`). Such a session is asked first (`server.cpp:491-656`) and takes the client's
inputs (`TakenByTraining`) until it ends with a last word or with its time, and then opens a result
on whatever view is there; only what comes after that is scored in the room (`ScoredInRoom`).
`taken` counts the words of the running game it took. A button of the match result
forgets the `game_init` in `AppState`, also one that has arrived in the same frame (`LeaveResult`): the
game screen it opens then has no game and sends nothing.

Abstractions: handlers run one at a time (`Typing` interleaves those of the inputs); a
hang-up is an exit; a client asks for a seat when nothing of it is under way, starts no training
while it has one, and does not take back a ready flag (`RoomServer` has `on_unready`); `room_state` is
left out and the lobby's buttons show the room as it is; a frame takes one message, but for
the frame of `LeaveResult`. `late`, `players`, `taken` and `stray` are reset when no game runs, to keep
states apart only by what matters.

### Accounts
The handlers that use the database, one thread per connection, down to the statements
of `Database`. `tables` is what is committed of `app_user` and `game_result`, `txn` the
transaction registered with the one `pqxx::connection` together with the tables as it
sees them, `lost` says that the connection is gone (libpqxx 7 does not reconnect by itself), `user` is
`clients_[fd].user_id`, and `thread` has each connection's next statement and the
arguments of its call. `told` is a history variable: the tables as the successful
calls describe them.

| Action | Code |
|---|---|
| `OnSignIn`, `OnCreateAccount`, `OnChangePassword`, `OnSaveResult`, `OnNeedParagraph`, `OnLeaderboard` | the handlers up to their call of `Database`; `OnSaveResult` also the end of a training session in `on_input`, `OnNeedParagraph` also `on_create_room` |
| `OnSignOut` | `on_sign_out`, and the same done by a hang-up |
| `Begin` | the constructor of `pqxx::work`, which throws while there is another |
| `Read`, `Authenticate`, `Write` | the query of the call; `Accepts` and `Written` are the functions of `New_DB.sql`, and `Refuses` adds that the CHECK constraints may refuse a result (`New_DB.sql:49-53`) |
| `Commit`, `CommitThrows`, `ExecThrows` | `txn.commit()`, and the same two on a lost connection |
| `CheckLoggedIn`, `SetUser` | the rest of `on_sign_in` |

Every exit from a call other than `Commit` destroys the `pqxx::work` uncommitted (`Rollback`) and
returns the failure value, so what the program answers depends on whether another
thread happens to be inside a call. Two threads in libpqxx at once are a data race; here
the test for another transaction and its registration are one step, so what is shown
violated is violated without help from the race, and what holds is what the design
gives when libpqxx's own bookkeeping works.

### Channel
What one direction of a connection promises: what is put in is taken in order, each
message once; when the sender goes a suffix of what is pending may be lost, when the
receiver goes all of it is; and as long as there is a receiver, what is pending is taken.
The last part, `Delivers`, is stated as `Delivery` and `Drained` and not as fairness of
`Take`, since TLC cannot evaluate ENABLED under a refinement mapping.

### Connection
One client's connection from both ends, thread by thread. `up` and `down` are what TCP
carries in each direction as sequences of tokens, a message being a body and `NL`, so
that `recv` can return half of one, or one and a half; `recvBuffer`, `recv_buffer`, `queue`,
`connected`, `shouldStop` and `joinable` are the fields of those names. `Junk` is the body
of the two answers `parse_event` does not know. `handled` and `polled` are history
variables, what `handle_message` was called with and what `poll_event` returned.

| Action | Code |
|---|---|
| `Connect` | `NetClient::connect`, called once by `App::init`; a failure leaves the game offline |
| `Send` | a `send_*` function: the test of `connected_`, `send_json_internal` |
| `PollEvent` | `poll_event` in `App::run` |
| `Quit`, `Disconnect`, `Shutdown`, `Join`, `Destroy` | `App::shutdown`, `disconnect` statement by statement, the end of `main` |
| `CheckLoop`, `Receive`, `ReceiveEnd`, `TakeLine` | `receive_thread`: the loop's test, `recv` with data and without, the loop over lines |
| `Accept`, `HandleClientReceive`, `HandleClientLine`, `HandleClientEnd` | the loop of `start`, `handle_client` |
| `SendJson` | `send_json` and `broadcast_json` towards this client |
| `ServerGoes` | external: the server's process ends, and what it has sent may be cut |

A `send` to the other side after its end is either lost or ends the sender by SIGPIPE
(`killed`, for the server `down`); `aborted` is `std::terminate` in the destructor of a
thread that was not joined. `Up` and `Down` map the two directions to `Channel`: pending is
what is queued and what is complete in buffer and stream, without `Junk`. Abstractions: the
network itself neither loses nor reorders what TCP carries, creating a thread does not
fail, and `sockfd_`, which `disconnect` writes while `receive_thread` may read it, gives
`recv` either the socket that was shut down or no socket: both end the loop.

### Typing
One game from the keys to the ranking. `screen` is what a `GameScreen` keeps (`word`,
`input` for `playerInput`, `events` for `currentWordCharEvents`, `opened` for
`local_game_start`), `inputs` the messages under way, `metrics` the counts and the latest
time of `player_metrics_`, `rankings` the order in the `game_end` sent. `hand`,
`committed` and `late` are history variables: the keys as they were pressed, by the true
clock, and the words scored after the time was over.

| Action | Code |
|---|---|
| `OnEnter` | `GameScreen::onEnter` with `loadGameStateFromServer`, when `game_init` has arrived |
| `Type`, `Erase`, `Space`, `Close` | the branches of `GameScreen::handleEvent`, with `sendInputToServer` |
| `OnInput` | the arena branch of `on_input` with `process_input` (`ProcessInput`, `Replay`, `Matching`), `is_game_ended`, `get_rankings` |
| `OnExitRoom`, `OnJoinRoom` | what leaving and joining do to seats and metrics |

`on_input` runs on the thread of its connection and takes no lock, so it is taken apart
wherever another thread can come between (`handler` says where each thread is): `TakeInput` is
the test for a running game (`server.cpp:660`), `ScoreInput` the call of `process_input`
(line 673), `CheckEnd` the look at the clock and at everybody's progress (line 706), `ReadSlot` the
look of `get_rankings` at one slot, `Announce` the `game_end`, and `EndGame` the call of
`end_game` (line 729). A thread may read the metrics of a player while the thread of that player
is in `process_input`: it may then find each number old or new, and the entry is not `whole`.
Several threads can find the game over before one of them ends it; each then announces an
order of its own.

A behaviour begins after `start_game` and stops when the game is over and the inputs under
way are handled. Left out are `wpm` (the accuracy is the pair `correct`, `total`), restarts and
training sessions that take words before the arena branch does, which `Arena` has, and the accesses by
which a seat is taken or left, which `RoomThreads` has; `is_game_ended` reads all slots in one
step. The training branch of `on_input` repeats `process_input` line by line for one player.

### RoomThreads_proofs, ClientSession_proofs, Arena_proofs, Accounts_proofs, Connection_proofs, Typing_proofs
The theorems about the module each is named after, section 4.

## 3. Runs

| Run | Instance | Shows |
|---|---|---|
| `server` | 2 descriptors, 3 connections, 1 room of 2 slots, 1 account, 1 word, inputs for words -3 and 1 | `TypeOK`; `Membership`, `SlotIdentity`, `SignedInOnce`, `ToldCurrent`, `MetricsOwned` across hang-ups and reuse of a descriptor; `GameScreensAgree`: everyone shown a game is told its end; `ProgressKept`: progress is only lost by a restart; `ImplementsDirectory` |
| `server_training` | as `server` | violated: `ArenaInputScored`, the documented effect of an input |
| `threads` | 3 descriptors, 3 connections, 2 rooms of 2 slots, access by access, within `Explored` | `TypeOK`; `ClientKnown`: no thread meets another connection's entry; `IndexOwned`: nobody inherits an entry of `fd_to_room_`; in rooms no two threads have written at once, `SeatOwned`: no ghost seats, `SeatKept`: no seat lost or doubled, `RoomsNotLeaked`, `HostSeated` |
| `threads_freed` | 2 connections, 1 room | violated: `NoUseAfterFree` |
| `threads_leaked` | 2 connections, 1 room | violated: `RoomsDeleted`, what `remove_fd` says of an empty room |
| `client` | 2 accounts, 2 games, 2 requests and 2 messages under way, 4 views stacked by the user, 2 hasty clicks | `TypeOK`; `FormsAnswered`: for a user who waits, an answer to a form finds that form on top; `RoomCurrent`: the lobby's room is the server's; `InStep` and `SavesPlayed` for a user who waits |
| `client_return` | 1 account, 1 game, no hasty click | violated: `ReturnReachesLobby`, what the match result's button says it does |
| `arena` | 2 clients, 2 slots, 1 word, 2 games, 2 seats taken after the founder's, 1 request of each under way, 1 client with an unfinished training | `TypeOK`; `WordsScored`: what was typed was scored, or taken by that training before, or is under way; `EndsUnlessAbandoned`: if players type on, a game that nobody leaves, joins or brings a training to ends (liveness) |
| `accounts` | 3 threads, 1 account, 2 passwords, 2 results | `TypeOK`; `Released`: no call leaves its transaction behind; `AnswersTrue`: what was answered is what is stored; `SignedInCommitted`; `OldPasswordGiven`: a password gives way only to who knew it |
| `accounts_twice` | 2 threads, 1 account, 1 password | violated: `SignedInOnce`, what `on_sign_in` says it refuses |
| `connection` | 3 messages of the server, 2 of the client, a server that may be down or go | `TypeOK`; `ImplementsChannels`: both directions hand on in order and once (refinement); `Delivers`: and all of it to a receiver that stays (liveness); `EndsOnOwnTerms`: the client is neither aborted nor killed before the server is gone; `Closes`: a closed window ends the process (liveness) |
| `typing` | 2 players, words of 1 and 2 letters, 3 keys each, the game over at the second of 2 clock values, 1 seat taken again | `TypeOK`; `ScoredAsTyped`: counts and words are what was typed; `OneLateWordEach`: the time being over, at most one more word of each player counts; `RankedFairly`: the order announced goes by words and then by each player's time on its own screen |

Bounds. `MaxConns` and `MaxRooms` cap the two counters, which nothing else bounds;
no handler reads their values except to hand them out. Two slots are the fewest
with which a room can start a game; with two clients it is full, and each of them
can be the host that leaves and is replaced. The third connection is the one that takes
over a used descriptor. With one word, the inputs that name word 1 lie past the end of the
paragraph and those that name word -3 before its beginning: progress that passes the
end, a repeated input, one that must not set progress back, and a late one all occur. The theorems of section 4 show
every property of this run for any number of descriptors, slots, rooms and words, so
the instance is kept small; a room that turns a third client away is in the run
`threads`. Descriptors are symmetric: the code compares them for equality only. Deadlock
is not checked: clients may stop coming, and the server then waits in `accept` for ever.

In `threads` three connections on three descriptors meet in one of two rooms, with a descriptor
reused when one has gone: two joins and a departure overlap, and a room empties while
somebody joins. `Explored` follows a room that two threads have written at once only as long as
there have been two connections and one room; the invariants say little of such a room,
and the theorems have no such bound. The two violated runs need no more than that.

For the client, two accounts are the fewest with which the wrong one can be signed in;
two games, one that replaces the other's data in `AppState`; two messages in the queue,
the pair `game_end`, `room_state` the server sends in a row; four views, the deepest
stack the buttons reach (game screen, guest result, sign-in, account form); what
messages push on top is limited by `MaxGames` alone. Two deferred
actions in a frame are enough for one to act on what the other left. Two hasty
clicks let a user both leave a view and press something else before an answer comes. `InStep` and `SavesPlayed` are stated for `haste = 0` only, as the
program cannot keep them otherwise: a user who closes the join dialog before the answer
comes sits in a room behind the title screen, and one who presses sign-in twice and
signs out is signed in again by the second answer.

In `arena` two clients and two slots let a game be left by one of two players and joined
by somebody new; two games, a restart over unhandled inputs. One word separates having
typed nothing, something under way, and having finished; one client brings an unfinished
training, which takes all of its words, some or none. Clients are not declared
symmetric there: symmetry is unsound for liveness.

In `accounts` three threads are the fewest with one inside its transaction, one refused because
of it, and a third that is past `authenticate` or in its own call next. Passwords are only
compared, so two suffice for a right, a wrong and a new one; calls about
different accounts touch different rows and meet in the connection only, which calls
about one account do as well. `MaxResults` caps a count that no statement reads. Deadlock
is checked there: a thread in `recv` can always be asked for something.

In `connection` three messages of the server are `hello`, one queued behind it and one that
may be unknown to the client, and two of the client let one be handled while another is
cut off. A token for the body and one for the end of a message give `recv` every kind of
cut: inside a message, between two, and after several. In `typing` three keys are a letter
typed wrong, erased, and the first word typed; or both words; the clock is before the end of the
game or at it, so screens open and words are completed and scored before and after that
moment in any order, also while another thread makes the ranking. Players are symmetric: no player is special in the code.

Fairness. `Arena` and `Connection` assume it, in `FairSpec`. In `Arena`, taking a request
is weakly fair, since the thread of a connection loops over `recv` and handles what arrives; so is
taking an event, since `App::run` polls the queue every frame, and `TimeUp`, since time
passes. Nothing is assumed of the users: that who stays on the game screen types the next
word at some point is the premise of `EndsUnlessAbandoned`, in its formula. Without it, as
without "unless the players leave or escape", the property fails, as noted below. In
`Connection` the steps of the receiver thread, of the server's thread, of `disconnect`, the
accept loop and the polling of each frame are weakly fair, since both processes are scheduled
and none of these steps waits for the user; nobody has to send, to quit or to go away. All
the other properties are safety properties.

What the violated runs show:

* `ArenaInputScored`. `on_input` looks for a training session first
  (`server.cpp:492`), and only a finished session is erased: leaving the training
  screen does not, and neither does a hang-up (`server.cpp:77-88`). A client (or the
  next owner of its descriptor) that then plays an arena game types into the old
  session, and the other players never see it move.
* `NoUseAfterFree`. `join_room` takes the `Room*` (`room_manager.cpp:43`), the last
  player's `remove_fd` deletes the room (line 93), and the joiner fills a slot of freed
  memory. The same pointer kept from `remove_fd` to the broadcast, and the loss of a
  seat to a racing join (`room.cpp:31`), lead there too.
* `RoomsDeleted`. "Delete room if empty" (`room_manager.cpp:91`). A leaver sets `occupied` to
  false (`room.cpp:54`), a joiner takes the slot for free and fills it, and the leaver goes on
  to set `client_fd` to -1 (line 55): the slot stays occupied by a descriptor nobody has,
  `find_slot_by_fd` does not find it, `player_count` is never 0 again, and the room is listed
  for ever.
* `ReturnReachesLobby`. "Pop overlay and GameScreen to return to LobbyScreen"
  (`MatchResultOverlay.cpp:240`). A player who joins during a game gets no `game_init` and
  stays in the lobby, but `game_end` goes to every member and pushes the match result
  on the lobby (`App.cpp:367`). The two pops then leave no view at all.
* `SignedInOnce` (of `Accounts`). "Check if user is already logged in" (`server.cpp:886`): two
  threads whose `authenticate` calls follow each other both find nobody signed in, and only then
  set `user_id` (line 899). `RoomServer` has the same property for handlers run one at a
  time, where it holds: the order of statements is what breaks it.

Noted without a run: `send` at `server.cpp:185` and `197` is called without MSG_NOSIGNAL
and nothing ignores SIGPIPE, so a broadcast to a client that is gone before its own
thread noticed can end the process (a step of `Connection`); once the server has hung up,
closing the client's window aborts it in `~NetClient`, since `disconnect` returns at
`NetClient.cpp:74` without joining the receiver (`EndsOnOwnTerms` says that nothing less
does); `NETWORK_PROTOCOL.md:858-865` shows fifty seconds of typing and then the end of the
game, but the clock is read only while an input is handled (`server.cpp:706`) and
`GameScreen` sends nothing after the last word (`GameScreen.cpp:76`), so a game whose deadline passes while
nobody types does not end, and who has finished and whose opponent leaves or escapes waits
for ever; `room_state` is promised to every player after every change
(`NETWORK_PROTOCOL.md:575`), but a broadcast is built first and sent later
(`server.cpp:222-258`), so of two threads the one with the older message can send last;
`handleReturnLobby` goes on using `this` after the first of its two pops has destroyed the
overlay it belongs to (`MatchResultOverlay.cpp:234-246`); an input with the largest int as its
word overflows at `word_idx + 1` (`room.cpp:149`); "Convert local time to server time"
(`GameScreen.cpp:69`) takes the arrival of `game_init` for the start, so times are early by
that delay, which is what makes `RankedFairly` a comparison of screens and not of clocks;
`leaderboard` reads the top eight and the caller's rank in two transactions
(`server.cpp:1008-1013`), so they can contradict each other; the `game_state` of the last game
is never cleared and moves the knights of the next one until its first message
(`GameScreen.cpp:122`); `NETWORK_PROTOCOL.md` says malformed JSON closes the
connection, while `server.cpp:116-118` skips the line; Escape on the game screen goes
"back to lobby" (`GameScreen.cpp:96`), but under a training game there is no lobby, and no
view is left; `NETWORK_PROTOCOL.md:576` says the host is automatically the lowest
occupied slot, but a newcomer becomes host only when there is none (`room.cpp:39`) and the
host is recomputed only after a departure (`room.cpp:63`), so when slot 0 leaves and is
filled again the host sits in a higher slot (`RoomDirectory` states the code's rule, with which `ImplementsDirectory` agrees); the answers to the account forms "Pop the
CreateAccountOverlay" and "Pop the ChangePasswordOverlay" (`App.cpp:239`, `262`) but pop
whatever is on top, at worst the title screen when the form was closed before; no stored result
has its paragraph, since `get_paragraph_id` constructs its transaction inside that of
`save_training_result` (`database.cpp:224`) and fails; and a request that finds the
database connection occupied is refused as "Invalid username or password" or "Username
already exists" (`server.cpp:881`, `935`).

Every property of a passing run has a mutant: a definition changed the way a
plausible mistake would change the code, kept next to the original and named after
it, with which TLC finds the property violated.

## 4. Proofs

`Room_proofs` has the facts about the operators of `Room`: which slot a newcomer
gets, that a departure frees exactly one, that the host is an occupied slot
whenever there is one, and which operators leave the seats alone (`SameSeats`).
They hold for every `NumSlots` and `TotalWords` at least 1.

`RoomServer_proofs` proves for every set of descriptors, names and accounts, and
every bound, that the specification keeps

| Theorem | Property |
|---|---|
| `TypeCorrect` | `TypeOK` |
| `MembershipHolds` | `Membership` |
| `HostSeatedHolds` | `HostSeated` |
| `SlotIdentityHolds` | `SlotIdentity` |
| `UniqueIdsHolds` | `UniqueIds` |
| `ToldCurrentHolds` | `ToldCurrent` |
| `SignedInOnceHolds` | `SignedInOnce` |

None of the first six is inductive alone. A join keeps a descriptor in one seat
only if it was in none, which is what the index `roomOf` says; a departure leaves a
seated host only if the room is not empty; a hang-up keeps slot identities only
because the descriptor had exactly one seat; a new room's id is fresh only because
live ids are below the counter. `Inv` is the conjunction: types, rooms with a seated
host (`RoomsOK`), `roomOf` as the inverse of being seated (`Index`), identities,
what was told, and the two counters above everything handed out. It has one lemma
per action (`AcceptStep`, `DisconnectStep`, ...), most of them instances of three
general ones: a handler that touches no room, one that changes a room but no seat,
and one that seats or removes a client. `SignedInOnce` is inductive on its own given
`TypeOK`. The assumptions are the two named ASSUMEs of `Room` and `RoomServer`.

It goes on with `MetricsOwnedHolds`, `GameScreensAgreeHolds` and
`ProgressKeptHolds`. It first says of each method of `Room` what it does to progress
(`Advances`: those who stay move forward or not at all, and only members have
progress; a start puts every member at 0). `GameScreensAgree` needs `Inv`: the
recipients of `game_end` are those who were shown the game because `Index` makes
"has this room" and "holds a slot in it" the same, and nobody is told of a game
while seated elsewhere. `ProgressKept` is an action property; its step needs only
`Inv`, since all that matters is which room a handler replaces and by what.

It ends with `DirectoryImplemented`, the refinement `ImplementsDirectory`:
`CreateOpens`, `JoinEnters` and `LeaveLeaves` map a handler to `Open`, `Enter` and
`Leave`, and `SeatsShown` says the rest show nothing. Two facts carry it: a client
without an entry in `fd_to_room_` is in no room (`Index`), and a room with a free
slot has fewer members than slots (`RoomForMore`, by counting), so the free slot
`add_player` finds is the capacity check of the directory.

`RoomThreads_proofs` proves for every number of descriptors, connections, rooms and slots

| Theorem | Property |
|---|---|
| `TypeCorrect` | `TypeOK` |
| `ClientKnownHolds` | `ClientKnown` |
| `IndexOwnedHolds` | `IndexOwned` |
| `SeatOwnedHolds` | `SeatOwned` |
| `SeatKeptHolds` | `SeatKept` |
| `RoomsNotLeakedHolds` | `RoomsNotLeaked` |
| `HostSeatedHolds` | `HostSeated` |

With a lock, a seat would be known from `fd_to_room_`. Without one, `fd_to_room_` lags
behind the slots on the way in and runs ahead of them on the way out, so the invariant
says where the holder of a seat knows its room from at each statement (`Holder`): the local
`Room*` after `occupied` was written and until the index is, and again from the erasure
of the index until `occupied` is cleared; the index otherwise. For each ordered room, `Seats`
says that an occupied slot is that of a holder, as far as the holder has filled it and has
searched for it (`Sits`), and that each holder has exactly one; `FreeSlots` that the slot a
writer has found is still the way it found it; `Host` what the host slot may be at
each statement of its writer; `Leak` that some thread is on its way to delete an empty room. A
writer may rely on what it found because the others in its room only read
(`WriterStep`, `Alone`), and a room that is written by two leaves the ordered ones in the
same step (`Recorded`). `Descriptors`, `Quitting` and `NewIds` hold without regard to that: an open
descriptor has one connection, and a room's id is nobody's before it is given out; so do the
theorems `ClientKnownHolds` and `IndexOwnedHolds`. `Inv` is the conjunction, with one lemma per statement.
`NoUseAfterFree` and `RoomsDeleted` stay runs: they are violated.

`ClientSession_proofs` proves for every set of accounts and every bound

| Theorem | Property |
|---|---|
| `TypeCorrect` | `TypeOK` |
| `FormsAnsweredHolds` | `FormsAnswered` |
| `RoomCurrentHolds` | `RoomCurrent` |
| `InStepHolds` | `InStep` |
| `SavesPlayedHolds` | `SavesPlayed` |

`RoomCurrent` speaks of moments when nothing is under way; on the way there it is
`SeatKnown` that holds: a seated client has an exit pending, or the last `room_state` in
its queue, or the one in `AppState` when the queue has none, is the seat's. It survives
because every handler that changes what a seat shows appends a `room_state` last
(`ToldNow`), what comes without one changes nothing shown (`ToldMore`), taking a
message moves it from the queue to `AppState` (`ToldTaken`), and only an exit clears
`AppState`, which is then pending until the seat is gone (`ExitPending`). `Inv` is `TypeOK`
and `SeatKnown`, with one lemma per kind of step: the user's clicks, messages, deferred
actions, handlers, and the other players.

`FormsAnswered`, `InStep` and `SavesPlayed` are about a user who waits, and quiet moments say nothing of
how one was reached. `Patient` therefore lists, for a run without hasty clicks, the
situations client and server can be in together: `InRoom` (on the views of the room, with
one of the buttons of the match result clicked, leaving, or just arriving), `OutOfRoom`
(nothing under way; one request, its answer, or one deferred action, each with the views it may
find; or messages of a room just left), and `Training`. What each says of the views is what
the handler of the next message relies on: a sign-in answer pops the sign-in view because
it is still on top, a result is pushed on the game it belongs to. `SavedPast` (what is
saved was played) makes every new training game unsaved. TLC checked `Patient` as an
invariant, also with more games, messages and views than the run `client` has, before it was proved: each situation has a
lemma per kind of step that says which situation follows (`UserInRoom`,
`ServerOutOfRoom`, `RunTraining`, ...), and `NextPatient` puts them together.

`Arena_proofs` proves for every number of clients, slots, words, games and requests under way

| Theorem | Property |
|---|---|
| `TypeCorrect` | `TypeOK` |
| `WordsScoredHolds` | `WordsScored` |

`WordsScored` relates a screen with a score across a channel; between them there may be
no screen yet. `Tracked` says for every player of the running game that there is a word `w`
such that the inputs of this game under way carry exactly the words from the one that
should come next (`Reached`: after what the room has scored or the unfinished training has
taken) up to `w`, in order (`Carries`), that a screen of this game is at `w`, and
that `w` is 0 while the `game_init` is still under way. It needs `Once`, that a game is shown to a
player by one screen or one message and not by both, and `Known`, that nothing under way
or on a screen is of a game that was not started, so that a new game starts with nothing
of its own in any channel; `Numbered` tells a running game from the screen that opened without
one. `AppendInput` and `TailInput` are what typing a word and scoring one do to
`Carries`, `AppendOther` and `TailOther` say that other requests do not matter; `ShowStep` and `ResultSteps`
cover the buttons, `TrainingStep` and `RoomInputStep` the two branches of `on_input`, and `Started` a
start. `TailInput` is where the score comes in: the first input under way carries the word
`Reached`, so `process_input` or the training moves it on by one. The theorems are about `Spec`,
without fairness.

`Accounts_proofs` proves for every set of connections, accounts and passwords

| Theorem | Property |
|---|---|
| `TypeCorrect` | `TypeOK` |
| `ReleasedHolds` | `Released` |
| `AnswersTrueHolds` | `AnswersTrue` |
| `SignedInCommittedHolds` | `SignedInCommitted` |
| `OldPasswordGivenHolds` | `OldPasswordGiven` |

What carries them is `Seen`: a thread whose transaction is registered sees the committed
tables, and at its commit those tables with its own write, which they accept. It needs
`Released`, by which at most one thread is there, so that nobody else can have committed in between;
then a commit writes to `tables` what it writes to `told` (`CommitProperties`), and the old
password it replaces is the committed one (`WrittenProperties`). `Inv` adds types and the
arguments of calls. `ThreadStep` and `EndStep` are the two general lemmas, a step of a
thread outside a transaction and one that ends it; every statement is an instance of
one of them or of `WriteStep`. The assumptions are those of `AccountsAssumption`.

`Connection_proofs` proves for every number of messages

| Theorem | Property |
|---|---|
| `TypeCorrect` | `TypeOK` |
| `EndsOnOwnTermsHolds` | `EndsOnOwnTerms` |
| `ImplementsChannelsHolds` | `ImplementsChannels` |

Types need that a line ends at the first `NL` of a buffer (`LineEndProperties`), so that
whatever `recv` cut off, what is parsed is one whole body or nothing (`LineProperties`). How the process ends
rests on who may clear `connected_` under a thread that is not joined: that thread,
which does so only when the server is gone or the socket was shut down, and `disconnect`,
which shuts it down and goes on to join (`Inv`).

`ImplementsChannels` is the refinement of `Channel` by each direction. `Complete`, the messages in
a stream of tokens, is a recursive function; that it exists and obeys its equations is
proved by induction in the form of a set without a least element (`StepsExist`, `CompleteSteps`). What a
receiver has buffered and what has not arrived are one stream, and `DownWhole` and
`UpWhole` say what it looks like: bodies and ends of messages alternate (`Framed`), it is
cut only when its sender is gone, and a server thread in `recv` has no line left, so that
`HandleClientEnd` throws nothing away. TLC checked both before they were proved. Then `recv`
changes nothing (`Received`), a message sent is put at the end (`AddedToStream`), a line parsed is
the message at the front (`LineOfStream`, which holds for the client's `find` and
`erase` as for the server's), and what is lost with the sender is a suffix of what is pending
(`CutFromStream`). One lemma per direction and process (`DownMain`, `UpServer`, ...) maps the steps to
`Put`, `Take`, `End`, `Cut` or a stutter.

`Typing_proofs` proves for every paragraph, set of players, duration and number of keys

| Theorem | Property |
|---|---|
| `TypeCorrect` | `TypeOK` |
| `ScoredAsTypedHolds` | `ScoredAsTyped` |
| `OneLateWordHolds` | `OneLateWordEach` |
| `RankedFairlyHolds` | `RankedFairly` |

The server replays the keys of a word (`Replay`) and adds up letters (`SumOf`), both recursive
functions over sequences. That they exist and obey their equations is proved by induction
in the form of a set without a least element (`InductionOnNat`, `InductionOnSeq`, from the well-foundedness of `<`), which needs
no theorem with an operator parameter; `RecursionOnSeq` builds the function, `ReplayAppend` and `SumStep` are
what the steps use. `Inv` says for each player: what is on the screen is what its
events play back to, and the last event carries the time of the last key by the clock of its
screen (`Keyboard`); every word completed is scored or under way, in order and with its
own events (`UnderWay`); and the metrics are the sums over the words completed first (`Scored`).
`Announced` says of every entry a thread has made for its ranking, and of the announced ones,
that the player had then completed that many words, the last of them at that time on its own
screen, if the entry was not read while the player's thread was scoring (`Fits`); words
completed are never taken back, so this stays true while the other threads go on.
`LateInv` follows a thread through `on_input`: a word scored late sends it to the look at the
clock, which is then over for good, so the thread ends the game before it takes another. The assumption is
`TypingAssumption`; that the players are finitely many is used for the ranking.

With these, every invariant, action property and refinement that a passing run checks is proved for
every value of the constants; so are `HostSeated` for handlers one at a time and
`UniqueIds`, which no run repeats. Only model-checked are the liveness
properties `EndsUnlessAbandoned`, `Delivers` and `Closes`. Liveness under fairness and
`ENABLED` are out of the prover's reach and stay with TLC; modules with theorems use no
RECURSIVE operator.

## 5. Plan

1. `Room`, `RoomServer`, `RoomDirectory` with their proofs, the refinement included (this
   state).
2. `RoomThreads`, the same handlers access by access, with the proofs of all its
   invariants (this state).
3. `ClientViews` and `ClientSession` with the proofs of all its properties (this
   state).
4. `Arena` with the liveness of a game and the proof of `WordsScored` (this state).
5. `Accounts` with the proofs of all its properties (this state); `SignedInOnce` is violated.
6. `Connection` and `Channel`: receiver thread, flags, queue and the end of a connection, with
   the proofs of `EndsOnOwnTerms` and of the refinement (this state).
7. `Typing`: keys, scoring and ranking, with the proofs of all its properties (this state).

## 6. Not modelled

Reading the configuration, socket set-up and logging; the layout of JSON and of the
screen; `time_sync`, which answers from the clock and keeps nothing; the legacy game
modes and typing engines and `TestModule`, which the program never calls; the contents of
the leaderboard and of the paragraphs, which are read and shown and decide nothing; wpm, a
quotient of what `Typing` counts.
