---------------------------- MODULE ClientViews ----------------------------
(***************************************************************************)
(* The SDL client of frontend/src: the stack of screens and overlays       *)
(* (core/ViewStack, core/Router), what the user can do on each of them     *)
(* (screens/, overlays/), what the main loop does with each message of the *)
(* server and with the actions it defers to the end of the frame           *)
(* (app/App.cpp), and the part of AppState that navigation reads.          *)
(*                                                                         *)
(* One frame of App::run is: any number of user actions, then messages     *)
(* from the queue, then the deferred actions.  `phase` is the place in the *)
(* frame.  The loop takes at most ten messages in a frame and stops early  *)
(* when the queue is empty; here it may stop anywhere, because `inbox` is  *)
(* the queue together with what is still on its way.                       *)
(*                                                                         *)
(* Abstractions.  A text field is either filled in acceptably or the       *)
(* button does nothing.  Error texts, hovering, drawing and typing inside  *)
(* a word are left out, and so are the answers that only change a text.    *)
(* A game screen uncovered by the end of another one gets no text from SDL *)
(* and sends nothing; here it may send, and the server refuses or scores.  *)
(* autoStartTraining is set and consumed within UserResultOverlay.  Of     *)
(* room_state there is what the buttons of the lobby read.  AppState's     *)
(* game_state only moves the knights and is left out.                      *)
(***************************************************************************)
EXTENDS Integers, SequencesExt

CONSTANTS
    Users,        \* the accounts the user can sign in with
    NoUser,       \* AppState when isAuthenticated is false
    MaxStack,     \* bound: views the user stacks up
    MaxPending,   \* bound: requests on their way to the server
    MaxDeferred,  \* bound: actions deferred in one frame
    MaxHaste      \* bound: clicks while something is under way

ASSUME ClientAssumption ==
    /\ NoUser \notin Users
    /\ MaxStack \in Nat \ {0}
    /\ MaxPending \in Nat \ {0}
    /\ MaxDeferred \in Nat \ {0}
    /\ MaxHaste \in Nat

VARIABLES
    stack,      \* ViewStack::stack, the routes of its views, top last
    phase,      \* the place in the frame: "input", "net" or "run"
    deferred,   \* App::deferred, and the part of it processDeferred still runs
    user,       \* AppState: isAuthenticated and username
    roomState,  \* AppState::roomState; NoRoomState when hasRoom() is false
    gameInit,   \* AppState::gameInit; NoGame when hasGameInit() is false
    gameEnd,    \* AppState::gameEnd; NoGame when hasGameEnd() is false
    toServer,   \* requests sent and not yet handled by the server
    inbox,      \* messages of the server not yet taken by App::run
    haste       \* history: how often the user acted while something was under way

appState == <<user, roomState, gameInit, gameEnd>>
clientVars == <<stack, phase, deferred, appState, toServer, inbox, haste>>

Screens == {"Title", "Lobby", "Game", "Profile"}
Overlays == {"JoinRoom", "Leaderboard", "SignIn", "CreateAccount", "ChangePassword",
             "GuestResult", "UserResult", "MatchResult"}
Routes == Screens \cup Overlays

\* A game as its game_init and game_end name it: training or an arena game.
Game == [id : Nat, training : BOOLEAN]
NoGame == [id |-> 0, training |-> FALSE]

RoomStateMsg == [host : BOOLEAN, ready : BOOLEAN, canStart : BOOLEAN]
NoRoomState == [host |-> FALSE]

Request == [type : {"create_room", "join_room", "join_random", "exit_room", "ready", "unready",
                    "set_private", "start_game", "start_training", "input", "sign_out",
                    "create_account", "change_password", "leaderboard"}]
           \cup [type : {"sign_in"}, user : Users]
           \cup [type : {"save_training_result"}, init : Game, end : Game]
Message == [type : {"create_account", "change_password", "leaderboard"}]
           \cup [type : {"sign_in"}, user : Users]
           \cup [type : {"room_state"}, room : RoomStateMsg]
           \cup [type : {"game_init", "game_end"}, game : Game]

\* The actions App::run and MatchResultOverlay defer.
Deferrable == {"Pop", "PopSignIn", "PopCreateAccount", "PopChangePassword", "ToLobby", "ToGame", "PushGame", "PushGuestResult",
               "PushUserResult", "PushMatchResult", "PushLeaderboard", "ExitMenu",
               "ReturnLobby"}

\* Nothing is under way between the user and the server.
Quiet == toServer = <<>> /\ inbox = <<>> /\ deferred = <<>>

InitClient ==
    /\ stack = <<"Title">>
    /\ phase = "input"
    /\ deferred = <<>>
    /\ user = NoUser
    /\ roomState = NoRoomState
    /\ gameInit = NoGame
    /\ gameEnd = NoGame
    /\ toServer = <<>>
    /\ inbox = <<>>
    /\ haste = 0

-----------------------------------------------------------------------------
(* The view stack. *)

IsTop(s, route) == s # <<>> /\ Last(s) = route
On(route) == IsTop(stack, route)

Popped(s) == IF s = <<>> THEN s ELSE Front(s)
ReplacedTop(s, route) == Append(Popped(s), route)

-----------------------------------------------------------------------------
(* The user.  Each action is one button, with every key that does the same.  *)

\* The user need not wait for an answer, or for what the others do.
CountHaste ==
    /\ haste' = IF Quiet THEN haste ELSE haste + 1
    /\ haste' <= MaxHaste

\* A click that leaves the stack s and sends the requests reqs.
Click(s, reqs) ==
    /\ phase = "input"
    /\ Len(s) > Len(stack) => Len(s) <= MaxStack
    /\ Len(toServer) + Len(reqs) <= MaxPending
    /\ stack' = s
    /\ toServer' = toServer \o reqs
    /\ CountHaste
    /\ UNCHANGED <<phase, deferred, gameInit, gameEnd, inbox>>

Push(route) == Click(Append(stack, route), <<>>)

Change(route) == Click(<<route>>, <<>>)
Back == Click(Popped(stack), <<>>)
Send(req) == Click(stack, <<req>>)

\* The buttons that change nothing in AppState.
TitleScreen ==
    /\ On("Title")
    /\ \/ Click(<<"Lobby">>, <<[type |-> "create_room"]>>)
       \/ Push("JoinRoom")
       \/ Send([type |-> "start_training"])
       \/ Send([type |-> "leaderboard"])
       \/ IF user # NoUser THEN Change("Profile") ELSE Push("SignIn")
    /\ UNCHANGED <<user, roomState>>

LobbyReady ==
    /\ On("Lobby")
    /\ Send([type |-> IF roomState # NoRoomState /\ roomState.ready THEN "unready" ELSE "ready"])
    /\ UNCHANGED <<user, roomState>>

\* The start and the private button are the host's.
LobbyHost ==
    /\ On("Lobby")
    /\ roomState.host
    /\ \/ roomState.canStart /\ Send([type |-> "start_game"])
       \/ Send([type |-> "set_private"])
    /\ UNCHANGED <<user, roomState>>

\* Mutant: the button leaves the lobby without telling the server.
LobbyExit_Silent ==
    /\ On("Lobby")
    /\ Change("Title")
    /\ roomState' = NoRoomState
    /\ UNCHANGED user

LobbyExit ==
    /\ On("Lobby")
    /\ Click(<<"Title">>, <<[type |-> "exit_room"]>>)
    /\ roomState' = NoRoomState
    /\ UNCHANGED user

\* Typing the current word and a space: sent when there is a game_init.
GameWord ==
    /\ On("Game")
    /\ gameInit # NoGame
    /\ Send([type |-> "input"])
    /\ UNCHANGED <<user, roomState>>

GameEscape ==
    /\ On("Game")
    /\ Back
    /\ UNCHANGED <<user, roomState>>

ProfileScreen ==
    /\ On("Profile")
    /\ Change("Title") \/ Push("ChangePassword")
    /\ UNCHANGED <<user, roomState>>

ProfileSignOut ==
    /\ On("Profile")
    /\ Click(<<"Title">>, <<[type |-> "sign_out"]>>)
    /\ user' = NoUser
    /\ UNCHANGED roomState

JoinRoomOverlay ==
    /\ On("JoinRoom")
    /\ Back \/ Send([type |-> "join_room"]) \/ Send([type |-> "join_random"])
    /\ UNCHANGED <<user, roomState>>

LeaderboardOverlay ==
    /\ On("Leaderboard")
    /\ Back
    /\ UNCHANGED <<user, roomState>>

SignInOverlay ==
    /\ On("SignIn")
    /\ \/ Back
       \/ Push("CreateAccount")
       \/ \E u \in Users : Send([type |-> "sign_in", user |-> u])
    /\ UNCHANGED <<user, roomState>>

\* Mutant: the form goes as soon as it is sent.
CreateAccountOverlay_Closes ==
    /\ On("CreateAccount")
    /\ Back \/ Click(Popped(stack), <<[type |-> "create_account"]>>)
    /\ UNCHANGED <<user, roomState>>

CreateAccountOverlay ==
    /\ On("CreateAccount")
    /\ Back \/ Send([type |-> "create_account"])
    /\ UNCHANGED <<user, roomState>>

ChangePasswordOverlay ==
    /\ On("ChangePassword")
    /\ Back \/ (user # NoUser /\ Send([type |-> "change_password"]))
    /\ UNCHANGED <<user, roomState>>

GuestResultOverlay ==
    /\ On("GuestResult")
    /\ Change("Title") \/ Push("SignIn")
    /\ UNCHANGED <<user, roomState>>

\* Exit, or "try again": TitleScreen::onEnter finds the flag and starts training.
UserResultOverlay ==
    /\ On("UserResult")
    /\ Change("Title") \/ Click(<<"Title">>, <<[type |-> "start_training"]>>)
    /\ UNCHANGED <<user, roomState>>

\* Both buttons defer: a second click in the same frame defers again.
MatchResultOverlay ==
    /\ On("MatchResult")
    /\ phase = "input"
    /\ Len(deferred) < MaxDeferred
    /\ \E d \in {"ExitMenu", "ReturnLobby"} : deferred' = Append(deferred, d)
    /\ CountHaste
    /\ UNCHANGED <<stack, phase, appState, toServer, inbox>>

UserActs ==
    \/ TitleScreen
    \/ LobbyReady
    \/ LobbyHost
    \/ LobbyExit
    \/ GameWord
    \/ GameEscape
    \/ ProfileScreen
    \/ ProfileSignOut
    \/ JoinRoomOverlay
    \/ LeaderboardOverlay
    \/ SignInOverlay
    \/ CreateAccountOverlay
    \/ ChangePasswordOverlay
    \/ GuestResultOverlay
    \/ UserResultOverlay
    \/ MatchResultOverlay

-----------------------------------------------------------------------------
(* Messages of the server.  What changes AppState does so at once, what      *)
(* changes the view stack is deferred; both look at the view on top now.     *)

\* Mutant: the loop waits for deferred actions that are not there.
Defer_Waits(d) ==
    /\ deferred' = deferred \o d
    /\ phase' = "net"

Defer(d) ==
    /\ deferred' = deferred \o d
    /\ phase' = IF deferred' = <<>> THEN "input" ELSE "net"

OnSignInResponse(m) ==
    /\ m.type = "sign_in"
    /\ user' = m.user
    /\ Defer(<<IF On("SignIn") THEN "PopSignIn" ELSE "Pop">>)
    /\ UNCHANGED <<roomState, gameInit, gameEnd>>

OnCreateAccountResponse(m) ==
    /\ m.type = "create_account"
    /\ Defer(<<"PopCreateAccount">>)
    /\ UNCHANGED appState

OnChangePasswordResponse(m) ==
    /\ m.type = "change_password"
    /\ Defer(<<"PopChangePassword">>)
    /\ UNCHANGED appState

OnRoomState(m) ==
    /\ m.type = "room_state"
    /\ roomState' = m.room
    /\ Defer(IF On("JoinRoom") THEN <<"ToLobby">> ELSE <<>>)
    /\ UNCHANGED <<user, gameInit, gameEnd>>

OnGameInit(m) ==
    /\ m.type = "game_init"
    /\ gameInit' = m.game
    /\ Defer(<<IF m.game.training THEN "ToGame" ELSE "PushGame">>)
    /\ UNCHANGED <<user, roomState, gameEnd>>

\* Mutant: every training result is shown as a guest's.
OnGameEnd_AsGuest(m) ==
    /\ m.type = "game_end"
    /\ gameEnd' = m.game
    /\ Defer(<<IF m.game.training THEN "PushGuestResult" ELSE "PushMatchResult">>)
    /\ UNCHANGED <<user, roomState, gameInit>>

OnGameEnd(m) ==
    /\ m.type = "game_end"
    /\ gameEnd' = m.game
    /\ Defer(<<IF ~m.game.training THEN "PushMatchResult"
               ELSE IF user # NoUser THEN "PushUserResult" ELSE "PushGuestResult">>)
    /\ UNCHANGED <<user, roomState, gameInit>>

OnLeaderboardResponse(m) ==
    /\ m.type = "leaderboard"
    /\ Defer(<<"PushLeaderboard">>)
    /\ UNCHANGED appState

\* Takes the first message of the queue.
PollEvent ==
    /\ phase # "run"
    /\ inbox # <<>>
    /\ Len(deferred) < MaxDeferred
    /\ inbox' = Tail(inbox)
    /\ LET m == Head(inbox)
       IN  \/ OnSignInResponse(m)
           \/ OnCreateAccountResponse(m)
           \/ OnChangePasswordResponse(m)
           \/ OnRoomState(m)
           \/ OnGameInit(m)
           \/ OnGameEnd(m)
           \/ OnLeaderboardResponse(m)
    /\ UNCHANGED <<stack, toServer, haste>>

-----------------------------------------------------------------------------
(* processDeferred.  None of the actions defers another. *)

Navigate(s) == stack' = s /\ UNCHANGED <<appState, toServer>>

RunNavigation(d) ==
    \/ d \in {"Pop", "PopCreateAccount", "PopChangePassword"} /\ Navigate(Popped(stack))
    \/ d = "ToLobby" /\ Navigate(<<"Lobby">>)
    \/ d = "ToGame" /\ Navigate(<<"Game">>)
    \/ d = "PushGame" /\ Navigate(Append(stack, "Game"))
    \/ d = "PushGuestResult" /\ Navigate(Append(stack, "GuestResult"))
    \/ d = "PushUserResult" /\ Navigate(Append(stack, "UserResult"))
    \/ d = "PushMatchResult" /\ Navigate(Append(stack, "MatchResult"))
    \/ d = "PushLeaderboard" /\ Navigate(Append(stack, "Leaderboard"))

\* The overlay goes; a guest's result below it is saved and becomes the user's.
RunPopSignIn(d) ==
    /\ d = "PopSignIn"
    /\ LET s == Popped(stack)
       IN  \/ /\ IsTop(s, "GuestResult")
              /\ stack' = ReplacedTop(s, "UserResult")
              /\ toServer' = IF gameEnd # NoGame /\ gameInit # NoGame
                             THEN Append(toServer, [type |-> "save_training_result",
                                                    init |-> gameInit, end |-> gameEnd])
                             ELSE toServer
           \/ /\ ~IsTop(s, "GuestResult")
              /\ stack' = s
              /\ UNCHANGED toServer
    /\ UNCHANGED appState

\* MatchResultOverlay::handleExitMenu.
RunExitMenu(d) ==
    /\ d = "ExitMenu"
    /\ stack' = <<"Title">>
    /\ toServer' = Append(toServer, [type |-> "exit_room"])
    /\ roomState' = NoRoomState
    /\ gameInit' = NoGame
    /\ gameEnd' = NoGame
    /\ UNCHANGED user

\* MatchResultOverlay::handleReturnLobby pops the overlay and what is below it.
RunReturnLobby(d) ==
    /\ d = "ReturnLobby"
    /\ stack' = Popped(Popped(stack))
    /\ gameInit' = NoGame
    /\ gameEnd' = NoGame
    /\ UNCHANGED <<user, roomState, toServer>>

RunDeferred ==
    /\ deferred # <<>>
    /\ deferred' = Tail(deferred)
    /\ phase' = IF deferred' = <<>> THEN "input" ELSE "run"
    /\ LET d == Head(deferred)
       IN  RunNavigation(d) \/ RunPopSignIn(d) \/ RunExitMenu(d) \/ RunReturnLobby(d)
    /\ UNCHANGED <<inbox, haste>>

ClientNext == UserActs \/ PollEvent \/ RunDeferred
=============================================================================
