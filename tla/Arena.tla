-------------------------------- MODULE Arena --------------------------------
(***************************************************************************)
(* The games of one room with everybody who plays them: the room (module   *)
(* Room), the handlers of backend/server/server.cpp that touch its game,   *)
(* run one at a time, and for each player the views of the client that a   *)
(* game moves, a channel of requests and a channel of game messages.       *)
(*                                                                         *)
(* The question is whether a game that was started ends.  The server only  *)
(* looks for the end while it handles an input, and a client sends inputs  *)
(* only from the game screen and only until its last word.                 *)
(*                                                                         *)
(* A client may bring a training session it has left unfinished, which is  *)
(* the first to be asked about its inputs.                                 *)
(*                                                                         *)
(* Abstractions.  Handlers run one at a time (module Typing interleaves    *)
(* those of the inputs).  A hang-up is an exit.  A client asks for a seat  *)
(* when nothing of it is under way, starts no training while it has one,   *)
(* and takes no ready back.  room_state is left out: the ready and the     *)
(* start button of the lobby show the room as it is.  Of the messages the  *)
(* frame of a click on the match result takes, only a game_init differs    *)
(* from one taken later; module ClientViews has the frames.                *)
(***************************************************************************)
EXTENDS Room, SequencesExt

CONSTANTS
    Founder,     \* the client that has just created the room
    MaxGames,    \* bound: games started in a behaviour
    MaxJoins,    \* bound: seats taken after that
    Trainees,    \* bound: the clients that may have left a training unfinished
    MaxPending   \* bound: requests of a client on their way to the server

ASSUME ArenaAssumption ==
    /\ MaxGames \in Nat
    /\ MaxJoins \in Nat
    /\ Founder \in Fds
    /\ Trainees \subseteq Fds
    /\ Names # {}
    /\ MaxPending \in Nat \ {0}

VARIABLES
    room,        \* the Room; with nobody in it, after it was deleted
    late,        \* the duration of its running game is over
    game,        \* history: how many games were started
    players,     \* history: who was sent the game_init of the running game
    stray,       \* history: it was given an input typed in an earlier one
    joins,       \* history: how many seats were taken
    training,    \* per client: training_sessions_ has an entry for it
    taken,       \* history, per client: how many words of the running game the session has taken
    stack,       \* per client: ViewStack::stack, top last
    textInput,   \* per client: SDL text input is on
    toServer,    \* per client: requests not yet handled
    inbox        \* per client: game_init and game_end not yet taken

roomVars == <<room, late, game, players, stray, joins, training, taken>>
viewVars == <<stack, textInput>>
vars == <<roomVars, viewVars, toServer, inbox>>

\* A game screen knows its game, 0 if there was no game_init to read, and the
\* index of the word to type next.
GameScreen(g, w) == [view |-> "Game", game |-> g, word |-> w]
Other(v) == [view |-> v, game |-> 0, word |-> 0]
View == [view : {"Title", "Lobby", "Game", "Result", "TrainingResult"},
         game : Nat, word : 0 .. TotalWords]

Request == [type : {"exit", "start", "ready"}]
           \cup [type : {"input"}, word : 0 .. TotalWords - 1, game : Nat]
Event == [type : {"game_init", "game_end"}, game : Nat \ {0}]
         \cup [type : {"training_end"}, game : {0}]

Seated(c) == c \in Members(room)

Init ==
    /\ \E name \in Names : room = AddPlayer(NewRoom, Founder, 1, name)
    /\ late = FALSE
    /\ game = 0
    /\ players = {}
    /\ stray = FALSE
    /\ joins = 0
    /\ \E S \in SUBSET Trainees : training = [c \in Fds |-> c \in S]
    /\ taken = [c \in Fds |-> 0]
    /\ stack = [c \in Fds |-> <<Other(IF c = Founder THEN "Lobby" ELSE "Title")>>]
    /\ textInput = [c \in Fds |-> FALSE]
    /\ toServer = [c \in Fds |-> <<>>]
    /\ inbox = [c \in Fds |-> <<>>]

-----------------------------------------------------------------------------
(* The user. *)

OnView(c, v) == stack[c] # <<>> /\ Last(stack[c]).view = v

Popped(s) == IF s = <<>> THEN s ELSE Front(s)

Send(c, req) ==
    /\ Len(toServer[c]) < MaxPending
    /\ toServer' = [toServer EXCEPT ![c] = Append(@, req)]

\* The views of c become s.
Show(c, s) == stack' = [stack EXCEPT ![c] = s]
StopTextInput(c) == textInput' = [textInput EXCEPT ![c] = FALSE]

\* join_room; the answer opens the lobby.  A training may have been left before.
JoinRoom(c) ==
    /\ OnView(c, "Title")
    /\ toServer[c] = <<>> /\ inbox[c] = <<>>
    /\ Members(room) # {} /\ ~Seated(c) /\ Free(room) # {}
    /\ joins < MaxJoins
    /\ joins' = joins + 1
    /\ \E name \in Names : room' = AddPlayer(room, c, 1, name)
    /\ \E t \in {training[c], c \in Trainees} : training' = [training EXCEPT ![c] = t]
    /\ Show(c, <<Other("Lobby")>>)
    /\ UNCHANGED <<late, game, players, stray, taken, textInput, toServer, inbox>>

\* The ready button, while it does not say "unready".
LobbyReady(c) ==
    /\ OnView(c, "Lobby")
    /\ Seated(c)
    /\ ~room.slots[SlotOf(room, c)].ready
    /\ Send(c, [type |-> "ready"])
    /\ UNCHANGED <<roomVars, viewVars, inbox>>

LobbyStart(c) ==
    /\ OnView(c, "Lobby")
    /\ IsHost(room, c) /\ CanStart(room)
    /\ game < MaxGames
    /\ Send(c, [type |-> "start"])
    /\ UNCHANGED <<roomVars, viewVars, inbox>>

LobbyExit(c) ==
    /\ OnView(c, "Lobby")
    /\ Send(c, [type |-> "exit"])
    /\ Show(c, <<Other("Title")>>)
    /\ UNCHANGED <<roomVars, textInput, inbox>>

\* Mutant: the word after the last is sent too.
TypeWord_PastEnd(c) ==
    /\ OnView(c, "Game") /\ textInput[c]
    /\ LET v == Last(stack[c])
       IN  /\ v.game # 0
           /\ v.word <= TotalWords
           /\ Send(c, [type |-> "input", word |-> v.word, game |-> v.game])
           /\ Show(c, Append(Front(stack[c]), GameScreen(v.game, v.word + 1)))
    /\ UNCHANGED <<roomVars, textInput, inbox>>

\* A game screen that is on top and can be typed on: the current word is typed
\* and sent.  As long as text input is on there is a game_init, except on the
\* screen that came without one: that sends nothing.
TypeWord(c) ==
    /\ OnView(c, "Game") /\ textInput[c]
    /\ LET v == Last(stack[c])
       IN  /\ v.game # 0
           /\ v.word < TotalWords
           /\ Send(c, [type |-> "input", word |-> v.word, game |-> v.game])
           /\ Show(c, Append(Front(stack[c]), GameScreen(v.game, v.word + 1)))
    /\ UNCHANGED <<roomVars, textInput, inbox>>

\* onExit of a game screen stops text input, and no onResume starts it again.
GameEscape(c) ==
    /\ OnView(c, "Game")
    /\ Show(c, Popped(stack[c]))
    /\ StopTextInput(c)
    /\ UNCHANGED <<roomVars, toServer, inbox>>

\* What a button of the match result defers: the views become s and the
\* game_init, if there is one, is forgotten; also the one that the frame of the
\* click has taken, whose game screen opens next and finds none.
LeaveResult(c, s) ==
    \/ /\ Show(c, s)
       /\ StopTextInput(c)
       /\ UNCHANGED inbox
    \/ /\ inbox[c] # <<>> /\ Head(inbox[c]).type = "game_init"
       /\ inbox' = [inbox EXCEPT ![c] = Tail(@)]
       /\ Show(c, Append(s, GameScreen(0, 0)))
       /\ textInput' = [textInput EXCEPT ![c] = TRUE]

ResultReturnLobby(c) ==
    /\ OnView(c, "Result")
    /\ LeaveResult(c, Popped(Popped(stack[c])))
    /\ UNCHANGED <<roomVars, toServer>>

ResultExitMenu(c) ==
    /\ OnView(c, "Result")
    /\ Send(c, [type |-> "exit"])
    /\ LeaveResult(c, <<Other("Title")>>)
    /\ UNCHANGED roomVars

\* The exit button of the result of a training leaves the views, and not the room.
TrainingExitMenu(c) ==
    /\ OnView(c, "TrainingResult")
    /\ Show(c, <<Other("Title")>>)
    /\ StopTextInput(c)
    /\ UNCHANGED <<roomVars, toServer, inbox>>

\* App::run: a game screen or a result is pushed on whatever is on top.
TakeEvent(c) ==
    /\ inbox[c] # <<>>
    /\ inbox' = [inbox EXCEPT ![c] = Tail(@)]
    /\ LET e == Head(inbox[c])
       IN  \/ /\ e.type = "game_init"
              /\ Show(c, Append(stack[c], GameScreen(e.game, 0)))
              /\ textInput' = [textInput EXCEPT ![c] = TRUE]
           \/ /\ e.type = "game_end"
              /\ Show(c, Append(stack[c], Other("Result")))
              /\ UNCHANGED textInput
           \/ /\ e.type = "training_end"
              /\ Show(c, Append(stack[c], Other("TrainingResult")))
              /\ UNCHANGED textInput
    /\ UNCHANGED <<roomVars, toServer>>

-----------------------------------------------------------------------------
(* The server. *)

\* broadcast_json: every occupied slot gets the event.
Broadcast(rm, e) ==
    inbox' = [c \in Fds |-> IF c \in Members(rm) THEN Append(inbox[c], e) ELSE inbox[c]]

OnReady(c, m) ==
    /\ m.type = "ready"
    /\ room' = SetReady(room, c, TRUE)
    /\ UNCHANGED <<late, game, players, stray, joins, training, taken, inbox>>

\* start_game, also over a running game; the start time is taken anew.
OnStartGame(c, m) ==
    /\ m.type = "start"
    /\ IF Seated(c) /\ IsHost(room, c) /\ CanStart(room) /\ game < MaxGames
       THEN /\ room' = StartGame(room)
            /\ late' = FALSE
            /\ game' = game + 1
            /\ players' = Members(room)
            /\ stray' = FALSE
            /\ taken' = [d \in Fds |-> 0]
            /\ UNCHANGED <<joins, training>>
            /\ Broadcast(room, [type |-> "game_init", game |-> game + 1])
       ELSE UNCHANGED <<roomVars, inbox>>

NoGameRuns ==
    /\ late' = FALSE
    /\ players' = {}
    /\ stray' = FALSE
    /\ taken' = [d \in Fds |-> 0]

\* An unfinished training takes the input, whatever it was typed for.  With a
\* last word or with its time over it ends.
TakenByTraining(c, m) ==
    /\ training[c]
    /\ taken' = IF m.game = game THEN [taken EXCEPT ![c] = m.word + 1] ELSE taken
    /\ \/ UNCHANGED <<training, inbox>>
       \/ /\ training' = [training EXCEPT ![c] = FALSE]
          /\ inbox' = [inbox EXCEPT ![c] = Append(@, [type |-> "training_end", game |-> 0])]
    /\ UNCHANGED <<room, late, game, players, stray, joins>>

\* Any other input is scored in the game that runs when it arrives.
ScoredInRoom(c, m) ==
    LET scored == ProcessInput(room, c, m.word)
    IN  /\ ~training[c]
        /\ \/ /\ ~(Seated(c) /\ room.started)
              /\ UNCHANGED <<roomVars, inbox>>
           \/ /\ Seated(c) /\ room.started
              /\ ~IsGameEnded(scored, late)
              /\ room' = scored
              /\ stray' = (stray \/ m.game # game)
              /\ UNCHANGED <<late, game, players, joins, training, taken, inbox>>
           \/ /\ Seated(c) /\ room.started
              /\ IsGameEnded(scored, late)
              /\ room' = EndGame(scored)
              /\ NoGameRuns
              /\ Broadcast(scored, [type |-> "game_end", game |-> game])
              /\ UNCHANGED <<game, joins, training>>

OnInput(c, m) ==
    /\ m.type = "input"
    /\ TakenByTraining(c, m) \/ ScoredInRoom(c, m)

\* The last to leave deletes the room, and its game with it.
OnExitRoom(c, m) ==
    LET rm == RemovePlayer(room, c)
    IN  /\ m.type = "exit"
        /\ \/ /\ Members(rm) # {}
              /\ room' = rm
              /\ UNCHANGED <<late, players, stray, taken>>
           \/ /\ Members(rm) = {}
              /\ room' = NewRoom
              /\ NoGameRuns
        /\ UNCHANGED <<game, joins, training, inbox>>

Handle(c) ==
    /\ toServer[c] # <<>>
    /\ toServer' = [toServer EXCEPT ![c] = Tail(@)]
    /\ LET m == Head(toServer[c])
       IN  OnReady(c, m) \/ OnStartGame(c, m) \/ OnInput(c, m) \/ OnExitRoom(c, m)
    /\ UNCHANGED viewVars

\* The clock passes game_start_time_ + game_duration_ms_.
TimeUp ==
    /\ room.started /\ ~late
    /\ late' = TRUE
    /\ UNCHANGED <<room, game, players, stray, joins, training, taken, viewVars, toServer, inbox>>

-----------------------------------------------------------------------------
Next ==
    \/ \E c \in Fds :
          \/ JoinRoom(c)
          \/ LobbyReady(c)
          \/ LobbyStart(c)
          \/ LobbyExit(c)
          \/ TypeWord(c)
          \/ GameEscape(c)
          \/ ResultReturnLobby(c)
          \/ ResultExitMenu(c)
          \/ TrainingExitMenu(c)
          \/ TakeEvent(c)
          \/ Handle(c)
    \/ TimeUp

Spec == Init /\ [][Next]_vars

\* Exactly the steps Handle(c) take a request of c, and only c takes its events.
Takes(q, c) == q[c] # <<>> /\ q' = [q EXCEPT ![c] = Tail(@)]

\* The thread of a connection handles what was sent, the frame loop takes what
\* has arrived, and time passes.  Nothing is assumed of the users.
FairSpec ==
    /\ Spec
    /\ WF_vars(TimeUp)
    /\ \A c \in Fds : WF_toServer(Takes(toServer, c)) /\ WF_inbox(Takes(inbox, c))

-----------------------------------------------------------------------------
(* Properties. *)

\* Type invariant: channels and views hold what the handlers and screens put in.
TypeOK ==
    /\ room \in RoomType
    /\ late \in BOOLEAN
    /\ game \in Nat
    /\ players \in SUBSET Fds
    /\ stray \in BOOLEAN
    /\ joins \in Nat
    /\ training \in [Fds -> BOOLEAN]
    /\ taken \in [Fds -> Nat]
    /\ stack \in [Fds -> Seq(View)]
    /\ textInput \in [Fds -> BOOLEAN]
    /\ toServer \in [Fds -> Seq(Request)]
    /\ inbox \in [Fds -> Seq(Event)]

\* The inputs of game g in a channel.
InputsOf(q, g) == {i \in DOMAIN q : q[i].type = "input" /\ q[i].game = g}

\* The inputs of game g in a channel carry the words from w up to v, each once
\* and in order.
Carries(q, g, w, v) ==
    /\ w <= v
    /\ {q[i].word : i \in InputsOf(q, g)} = w .. v - 1
    /\ \A i, j \in InputsOf(q, g) : i < j => q[i].word < q[j].word

\* The word of the running game that c's next input should bring: what the room
\* has scored, or else what the session has taken.
Reached(c) == IF taken[c] > room.metrics[c] THEN taken[c] ELSE room.metrics[c]

\* No word is lost, doubled or overtaken between a keyboard and the server: what
\* a player has typed in the running game was scored by the room or, before
\* that, taken by a training it had left unfinished, and from there on is under
\* way.  It takes a restart of a running game, whose players may still have
\* inputs of the old game under way, to break that.
WordsScored ==
    room.started /\ ~stray => \A c \in Members(room) :
        \A i \in DOMAIN stack[c] :
            LET v == stack[c][i]
            IN  v.view = "Game" /\ v.game = game =>
                    Carries(toServer[c], game, Reached(c), v.word)

\* c has the running game on its screen, or will have.
Plays(c) ==
    \/ /\ OnView(c, "Game") /\ Last(stack[c]).game = game
    \/ \E i \in DOMAIN inbox[c] : inbox[c][i] = [type |-> "game_init", game |-> game]

\* Somebody has joined, left or escaped since the game was started.
Abandoned == Members(room) # players \/ \E c \in players : ~Plays(c)

Untrained == \A c \in Members(room) : ~training[c]

\* If whoever is on a game screen types on, a game ends that no player leaves,
\* that nobody joins and to which no player brings an unfinished training: with
\* its deadline or without, however the inputs interleave.  The premise is the
\* users', not the program's: a game whose deadline passes while nobody types
\* goes on, for no clock of the server ends it.
EndsUnlessAbandoned ==
    (\A c \in Fds : WF_vars(TypeWord(c)))
        => (room.started /\ Untrained ~> ~room.started \/ Abandoned)
=============================================================================
