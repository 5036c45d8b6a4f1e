--------------------------- MODULE ClientSession ---------------------------
(***************************************************************************)
(* One client (ClientViews) and the server of backend/server as that       *)
(* client meets it: two FIFO channels, the handlers run one request at a   *)
(* time, and what the other players of its room do arrives in between.     *)
(*                                                                         *)
(* The rooms, the other clients and the games are those of RoomServer;     *)
(* here they are reduced to what this client can tell apart.  `srv` is the *)
(* server's state about the client, and the free choices stand for the     *)
(* database and for the other players.                                     *)
(***************************************************************************)
EXTENDS ClientViews

CONSTANTS
    MaxInbox,   \* bound: messages on their way to the client
    MaxGames    \* bound: games in a behaviour

ASSUME SessionAssumption ==
    /\ MaxInbox \in Nat \ {0}
    /\ MaxGames \in Nat

VARIABLES
    srv,        \* the server's state about this client
    games       \* how many games there were, to give each its id

vars == <<clientVars, srv, games>>

\* user: the account the connection is signed in with.  in: it has a seat, and
\* then host and ready are its own and others says that there is another player
\* and all the others are ready.  game: the running game of its room.  training:
\* its training session.  saved: the training results in the database.
ServerState ==
    [user : Users \cup {NoUser}, in : BOOLEAN, host : BOOLEAN, ready : BOOLEAN,
     others : BOOLEAN, game : Game, training : Game, saved : SUBSET Nat]

Init ==
    /\ InitClient
    /\ srv = [user |-> NoUser, in |-> FALSE, host |-> FALSE, ready |-> FALSE,
              others |-> FALSE, game |-> NoGame, training |-> NoGame, saved |-> {}]
    /\ games = 0

RoomStateOf(s) == [host |-> s.host, ready |-> s.ready, canStart |-> s.ready /\ s.others]
RoomState(s) == [type |-> "room_state", room |-> RoomStateOf(s)]
GameInit(g) == [type |-> "game_init", game |-> g]
GameEnd(g) == [type |-> "game_end", game |-> g]

\* The server's state becomes s and it sends the client the messages ms.
Answer(s, ms) ==
    /\ srv' = s
    /\ Len(inbox) + Len(ms) <= MaxInbox
    /\ inbox' = inbox \o ms

\* A refusal changes a text at most.
Ignore == UNCHANGED <<srv, inbox>>

NextGame(training) == [id |-> games + 1, training |-> training]

-----------------------------------------------------------------------------
(* Handlers: the request is the head of toServer. *)

OnSignIn(m) ==
    /\ m.type = "sign_in"
    /\ \/ Ignore
       \/ /\ srv.user # m.user
          /\ Answer([srv EXCEPT !.user = m.user], <<[type |-> "sign_in", user |-> m.user]>>)
    /\ UNCHANGED games

OnSignOut(m) ==
    /\ m.type = "sign_out"
    /\ Answer([srv EXCEPT !.user = NoUser], <<>>)
    /\ UNCHANGED games

OnCreateAccount(m) ==
    /\ m.type = "create_account"
    /\ Ignore \/ Answer(srv, <<[type |-> "create_account"]>>)
    /\ UNCHANGED games

OnChangePassword(m) ==
    /\ m.type = "change_password"
    /\ Ignore \/ Answer(srv, <<[type |-> "change_password"]>>)
    /\ UNCHANGED games

OnLeaderboard(m) ==
    /\ m.type = "leaderboard"
    /\ Answer(srv, <<[type |-> "leaderboard"]>>)
    /\ UNCHANGED games

OnCreateRoom(m) ==
    /\ m.type = "create_room"
    /\ \/ srv.in /\ Ignore
       \/ /\ ~srv.in
          /\ LET s == [srv EXCEPT !.in = TRUE, !.host = TRUE]
             IN  Answer(s, <<RoomState(s)>>)
    /\ UNCHANGED games

\* A seat in somebody's room: perhaps all are ready, perhaps a game is running.
OnJoin(m) ==
    /\ m.type \in {"join_room", "join_random"}
    /\ \/ Ignore /\ UNCHANGED games
       \/ /\ ~srv.in
          /\ \E others \in BOOLEAN, running \in BOOLEAN :
                LET s == [srv EXCEPT !.in = TRUE, !.others = others,
                                     !.game = IF running THEN NextGame(FALSE) ELSE NoGame]
                IN  /\ running => games < MaxGames
                    /\ games' = IF running THEN games + 1 ELSE games
                    /\ Answer(s, <<RoomState(s)>>)

\* on_exit_room: no answer; the room, and its game, go on without the client.
OnExitRoom(m) ==
    /\ m.type = "exit_room"
    /\ Answer([srv EXCEPT !.in = FALSE, !.host = FALSE, !.ready = FALSE, !.others = FALSE,
                          !.game = NoGame], <<>>)
    /\ UNCHANGED games

\* Mutant: a ready flag changes without a broadcast.
OnReady_Silent(m) ==
    /\ m.type \in {"ready", "unready"}
    /\ \/ ~srv.in /\ Ignore
       \/ srv.in /\ Answer([srv EXCEPT !.ready = (m.type = "ready")], <<>>)
    /\ UNCHANGED games

\* on_ready and on_unready.
OnReady(m) ==
    /\ m.type \in {"ready", "unready"}
    /\ \/ ~srv.in /\ Ignore
       \/ /\ srv.in
          /\ LET s == [srv EXCEPT !.ready = (m.type = "ready")]
             IN  Answer(s, <<RoomState(s)>>)
    /\ UNCHANGED games

OnSetPrivate(m) ==
    /\ m.type = "set_private"
    /\ IF srv.in /\ srv.host THEN Answer(srv, <<RoomState(srv)>>) ELSE Ignore
    /\ UNCHANGED games

\* start_game starts or restarts the game of the room.
StartGame ==
    /\ games < MaxGames
    /\ games' = games + 1
    /\ Answer([srv EXCEPT !.game = NextGame(FALSE)], <<GameInit(NextGame(FALSE))>>)

OnStartGame(m) ==
    /\ m.type = "start_game"
    /\ IF srv.in /\ srv.host /\ srv.ready /\ srv.others
       THEN StartGame
       ELSE Ignore /\ UNCHANGED games

OnStartTraining(m) ==
    /\ m.type = "start_training"
    /\ games < MaxGames
    /\ games' = games + 1
    /\ Answer([srv EXCEPT !.training = NextGame(TRUE)], <<GameInit(NextGame(TRUE))>>)

\* game_end, then end_game and the room_state after it.
EndArenaGame ==
    LET s == [srv EXCEPT !.game = NoGame, !.ready = FALSE, !.others = FALSE]
    IN  Answer(s, <<GameEnd(srv.game), RoomState(s)>>)

\* The result of a signed-in user is saved when the training ends, unless the
\* database refuses it.
EndTraining ==
    \E saved \in {srv.saved, srv.saved \cup {srv.training.id}} :
        /\ srv.user = NoUser => saved = srv.saved
        /\ Answer([srv EXCEPT !.training = NoGame, !.saved = saved], <<GameEnd(srv.training)>>)

\* on_input: a training session comes first; the input may be the last.
OnInput(m) ==
    /\ m.type = "input"
    /\ \/ Ignore
       \/ srv.training # NoGame /\ EndTraining
       \/ srv.training = NoGame /\ srv.game # NoGame /\ EndArenaGame
    /\ UNCHANGED games

OnSaveTrainingResult(m) ==
    /\ m.type = "save_training_result"
    /\ \/ Ignore
       \/ srv.user # NoUser /\ Answer([srv EXCEPT !.saved = @ \cup {m.end.id}], <<>>)
    /\ UNCHANGED games

ServerHandles ==
    /\ toServer # <<>>
    /\ toServer' = Tail(toServer)
    /\ LET m == Head(toServer)
       IN  \/ OnSignIn(m)
           \/ OnSignOut(m)
           \/ OnCreateAccount(m)
           \/ OnChangePassword(m)
           \/ OnLeaderboard(m)
           \/ OnCreateRoom(m)
           \/ OnJoin(m)
           \/ OnExitRoom(m)
           \/ OnReady(m)
           \/ OnSetPrivate(m)
           \/ OnStartGame(m)
           \/ OnStartTraining(m)
           \/ OnInput(m)
           \/ OnSaveTrainingResult(m)
    /\ UNCHANGED <<stack, phase, deferred, appState, haste>>

-----------------------------------------------------------------------------
(* The other players of the room. *)

\* They come, go, get ready or not; when the host goes the client may become it.
OthersChange ==
    /\ \E host \in {srv.host, TRUE}, others \in BOOLEAN :
          LET s == [srv EXCEPT !.host = host, !.others = others]
          IN  s # srv /\ Answer(s, <<RoomState(s)>>)
    /\ UNCHANGED games

OthersStart == ~srv.host /\ srv.ready /\ srv.others /\ StartGame

OthersEnd == srv.game # NoGame /\ EndArenaGame /\ UNCHANGED games

OthersAct ==
    /\ srv.in
    /\ OthersChange \/ OthersStart \/ OthersEnd
    /\ UNCHANGED <<stack, phase, deferred, appState, toServer, haste>>

-----------------------------------------------------------------------------
Next ==
    \/ ClientNext /\ UNCHANGED <<srv, games>>
    \/ ServerHandles
    \/ OthersAct

Spec == Init /\ [][Next]_vars

-----------------------------------------------------------------------------
(* Properties. *)

\* Type invariant: routes on the stack, known actions deferred, AppState holds
\* what messages carry, and the phases after the first have something to run.
TypeOK ==
    /\ stack \in Seq(Routes)
    /\ phase \in {"input", "net", "run"}
    /\ deferred \in Seq(Deferrable)
    /\ user \in Users \cup {NoUser}
    /\ roomState \in RoomStateMsg \cup {NoRoomState}
    /\ gameInit \in Game
    /\ gameEnd \in Game
    /\ toServer \in Seq(Request)
    /\ inbox \in Seq(Message)
    /\ haste \in Nat
    /\ srv \in ServerState
    /\ games \in Nat
    /\ phase # "input" => deferred # <<>>

Shown(route) == \E i \in DOMAIN stack : stack[i] = route

\* The form that an action deferred for an answer is meant to close.
FormOf(d) ==
    CASE d = "PopSignIn" -> "SignIn"
      [] d = "PopCreateAccount" -> "CreateAccount"
      [] d = "PopChangePassword" -> "ChangePassword"

\* The answer to a form finds the form: whoever waits for it does not lose another
\* view instead, although the actions pop whatever is on top when they run, one
\* frame and several messages after the form was sent.
FormsAnswered ==
    haste = 0 /\ deferred # <<>> =>
        LET d == Head(deferred)
        IN  /\ d # "Pop"
            /\ d \in {"PopSignIn", "PopCreateAccount", "PopChangePassword"} => On(FormOf(d))

\* When nothing is under way and the server has the client seated, AppState has
\* the room_state of that seat: no exit, late message or end of a game leaves
\* the lobby with another one.
RoomCurrent == Quiet /\ srv.in => roomState = RoomStateOf(srv)

\* A user who never acts while something is under way stays in step with the
\* server, whatever the other players do meanwhile: once all is quiet they agree
\* on who is signed in, the lobby is shown only to a client with a seat, and the
\* title screen and the profile only to one without.
InStep ==
    haste = 0 /\ Quiet =>
        /\ user = srv.user
        /\ Shown("Lobby") => srv.in
        /\ Shown("Title") \/ Shown("Profile") => ~srv.in

\* What such a user saves after signing in is the training game just played, it
\* was not saved before, and the server knows who saves it.
SavesPlayed ==
    haste = 0 => \A i \in DOMAIN toServer :
        LET m == toServer[i]
        IN  m.type = "save_training_result" =>
                /\ m.end.training
                /\ m.init = m.end
                /\ m.end.id \notin srv.saved
                /\ srv.user # NoUser

\* "Pop overlay and GameScreen to return to LobbyScreen": where the button of the
\* match result leads.  A player who joined while the game was running has no
\* game screen, so the second pop takes the lobby and leaves no view at all.
ReturnReachesLobby ==
    [][deferred # <<>> /\ Head(deferred) = "ReturnLobby" /\ RunDeferred
          => On("Lobby")']_vars
=============================================================================
