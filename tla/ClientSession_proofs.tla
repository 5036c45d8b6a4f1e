------------------------ MODULE ClientSession_proofs ------------------------
(***************************************************************************)
(* Theorems about ClientSession for every set of accounts and every bound. *)
(*                                                                         *)
(* RoomCurrent speaks of quiet states only.  SeatKnown says what is true   *)
(* on the way there: as long as no exit is pending, the last room_state in *)
(* the queue, or the one in AppState if there is none, is the seat's.      *)
(*                                                                         *)
(* InStep and SavesPlayed speak of a user who waits.  Patient lists the    *)
(* situations such a user can be in, in a room, out of one or in training, *)
(* with what may be under way in each.                                     *)
(***************************************************************************)
EXTENDS ClientSession, SequenceTheorems, TLAPS

HasExit(q) == \E i \in DOMAIN q : q[i].type = "exit_room"

NoRoomStateIn(q) == \A i \in DOMAIN q : q[i].type # "room_state"

\* A client with the queue q and the room state r comes to know the seat of s.
SeatTold(q, r, s) ==
    \/ \E i \in DOMAIN q :
          /\ q[i] = RoomState(s)
          /\ \A j \in DOMAIN q : j > i => q[j].type # "room_state"
    \/ r = RoomStateOf(s) /\ NoRoomStateIn(q)

SeatKnown == srv.in => HasExit(toServer) \/ SeatTold(inbox, roomState, srv)

Inv == TypeOK /\ SeatKnown

-----------------------------------------------------------------------------
(* Sequences: the stack, the queue and the pending requests. *)

\* Messages and requests in the sequences a step adds.
LEMMA Requests ==
    /\ \A t \in {"create_room", "join_room", "join_random", "exit_room", "ready", "unready",
                 "set_private", "start_game", "start_training", "input", "sign_out",
                 "create_account", "change_password", "leaderboard"} : [type |-> t] \in Request
    /\ \A u \in Users : [type |-> "sign_in", user |-> u] \in Request
    /\ \A g, h \in Game :
          [type |-> "save_training_result", init |-> g, end |-> h] \in Request
BY DEF Request

LEMMA Messages ==
    /\ \A t \in {"create_account", "change_password", "leaderboard"} : [type |-> t] \in Message
    /\ \A u \in Users : [type |-> "sign_in", user |-> u] \in Message
    /\ \A s \in ServerState : RoomState(s) \in Message
    /\ \A g \in Game : GameInit(g) \in Message /\ GameEnd(g) \in Message
BY DEF Message, RoomState, RoomStateOf, RoomStateMsg, ServerState, GameInit, GameEnd

LEMMA FrontProperties ==
    ASSUME NEW S, NEW s \in Seq(S), s # <<>>
    PROVE  /\ Front(s) \in Seq(S)
           /\ Len(Front(s)) = Len(s) - 1
           /\ \A i \in 1 .. Len(s) - 1 : Front(s)[i] = s[i]
<1>1. Len(s) \in Nat \ {0}
  BY EmptySeq
<1> DEFINE n == Len(s) - 1
<1>2. n \in Nat /\ 1 \in Int
  BY <1>1
<1>3. \A i \in 1 .. n : s[i] \in S
  BY <1>1, ElementOfSeq
<1>4. Front(s) = SubSeq(s, 1, n)
  BY DEF Front
<1> HIDE DEF n
<1>5. /\ SubSeq(s, 1, n) \in Seq(S)
      /\ Len(SubSeq(s, 1, n)) = IF 1 <= n THEN n - 1 + 1 ELSE 0
      /\ \A i \in 1 .. n - 1 + 1 : SubSeq(s, 1, n)[i] = s[1 + i - 1]
  BY <1>2, <1>3, SubSeqProperties
<1>6. n = 0 \/ 1 <= n
  BY <1>2
<1>7. /\ Front(s) \in Seq(S)
      /\ Len(Front(s)) = n
      /\ \A i \in 1 .. n : Front(s)[i] = s[i]
  BY <1>2, <1>4, <1>5, <1>6
<1> QED BY <1>7 DEF n

LEMMA PoppedType ==
    ASSUME NEW S, NEW s \in Seq(S)
    PROVE  Popped(s) \in Seq(S)
BY FrontProperties DEF Popped

LEMMA ExitKept ==
    ASSUME NEW q \in Seq(Request), NEW p \in Seq(Request)
    PROVE  /\ q \o p \in Seq(Request)
           /\ HasExit(q) => HasExit(q \o p)
           /\ HasExit(p) => HasExit(q \o p)
<1> DEFINE r == q \o p
<1>1. /\ r \in Seq(Request)
      /\ Len(r) = Len(q) + Len(p)
      /\ \A i \in 1 .. Len(q) + Len(p) : r[i] = IF i <= Len(q) THEN q[i] ELSE p[i - Len(q)]
  BY ConcatProperties
<1>2. /\ Len(q) \in Nat /\ DOMAIN q = 1 .. Len(q)
      /\ Len(p) \in Nat /\ DOMAIN p = 1 .. Len(p)
      /\ DOMAIN r = 1 .. Len(r)
  BY <1>1, LenProperties
<1> HIDE DEF r
<1>3. HasExit(q) => HasExit(r)
  BY <1>1, <1>2 DEF HasExit
<1>4. ASSUME NEW j \in DOMAIN p, p[j].type = "exit_room"
      PROVE  HasExit(r)
  <2>1. Len(q) + j \in DOMAIN r /\ r[Len(q) + j] = p[j]
    BY <1>1, <1>2
  <2> QED BY <1>4, <2>1 DEF HasExit
<1> QED BY <1>1, <1>3, <1>4 DEF HasExit, r

LEMMA ExitPending ==
    ASSUME NEW q \in Seq(Request), q # <<>>, HasExit(q), Head(q).type # "exit_room"
    PROVE  HasExit(Tail(q))
<1>1. Len(q) \in Nat \ {0} /\ DOMAIN q = 1 .. Len(q)
  BY EmptySeq, LenProperties
<1>2. PICK i \in DOMAIN q : q[i].type = "exit_room"
  BY DEF HasExit
<1>3. i # 1
  BY <1>2
<1>4. i - 1 \in DOMAIN Tail(q) /\ Tail(q)[i - 1] = q[i]
  BY <1>1, <1>3
<1> QED BY <1>2, <1>4 DEF HasExit

\* Messages that are no room_state leave what the client comes to know.
LEMMA ToldMore ==
    ASSUME NEW q \in Seq(Message), NEW ms \in Seq(Message), NEW r, NEW s,
           SeatTold(q, r, s), NoRoomStateIn(ms)
    PROVE  SeatTold(q \o ms, r, s)
<1> DEFINE t == q \o ms
<1>1. /\ t \in Seq(Message)
      /\ Len(t) = Len(q) + Len(ms)
      /\ \A i \in 1 .. Len(q) + Len(ms) : t[i] = IF i <= Len(q) THEN q[i] ELSE ms[i - Len(q)]
  BY ConcatProperties
<1>2. /\ Len(q) \in Nat /\ DOMAIN q = 1 .. Len(q)
      /\ Len(ms) \in Nat /\ DOMAIN ms = 1 .. Len(ms)
      /\ DOMAIN t = 1 .. Len(t)
  BY <1>1, LenProperties
<1> HIDE DEF t
<1>3. \A i \in DOMAIN t : \/ i \in DOMAIN q /\ t[i] = q[i]
                          \/ i > Len(q) /\ t[i].type # "room_state"
  <2> SUFFICES ASSUME NEW i \in DOMAIN t, i > Len(q)
               PROVE  t[i].type # "room_state"
    BY <1>1, <1>2
  <2>1. i - Len(q) \in DOMAIN ms /\ t[i] = ms[i - Len(q)]
    BY <1>1, <1>2
  <2> QED BY <2>1 DEF NoRoomStateIn
<1>4. \A i \in DOMAIN q : i \in DOMAIN t /\ t[i] = q[i]
  BY <1>1, <1>2
<1>5. SeatTold(t, r, s)
  BY <1>2, <1>3, <1>4 DEF SeatTold, NoRoomStateIn
<1> QED BY <1>5 DEF t

\* A room_state at the end of what is sent tells the client its seat.
LEMMA ToldNow ==
    ASSUME NEW q \in Seq(Message), NEW ms \in Seq(Message), NEW r, NEW s,
           ms # <<>>, ms[Len(ms)] = RoomState(s)
    PROVE  SeatTold(q \o ms, r, s)
<1> DEFINE t == q \o ms
<1>1. /\ t \in Seq(Message)
      /\ Len(t) = Len(q) + Len(ms)
      /\ \A i \in 1 .. Len(q) + Len(ms) : t[i] = IF i <= Len(q) THEN q[i] ELSE ms[i - Len(q)]
  BY ConcatProperties
<1>2. Len(q) \in Nat /\ Len(ms) \in Nat \ {0} /\ DOMAIN t = 1 .. Len(t)
  BY <1>1, LenProperties, EmptySeq
<1> HIDE DEF t
<1>3. Len(t) \in DOMAIN t /\ t[Len(t)] = RoomState(s)
  BY <1>1, <1>2
<1>4. \A j \in DOMAIN t : ~(j > Len(t))
  BY <1>1, <1>2
<1> QED BY <1>3, <1>4 DEF SeatTold, t

\* Taking a message leaves what the client comes to know.
LEMMA ToldTaken ==
    ASSUME NEW q \in Seq(Message), q # <<>>, NEW r, NEW s, SeatTold(q, r, s)
    PROVE  SeatTold(Tail(q), IF Head(q).type = "room_state" THEN Head(q).room ELSE r, s)
<1> DEFINE t == Tail(q)
<1>1. /\ Len(q) \in Nat \ {0}
      /\ DOMAIN q = 1 .. Len(q)
      /\ Head(q) = q[1]
  BY EmptySeq, LenProperties
<1>2. /\ DOMAIN t = 1 .. Len(q) - 1
      /\ \A i \in DOMAIN t : t[i] = q[i + 1]
  BY <1>1, HeadTailProperties, LenProperties
<1> HIDE DEF t
<1>3. CASE \E i \in DOMAIN q : /\ q[i] = RoomState(s)
                               /\ \A j \in DOMAIN q : j > i => q[j].type # "room_state"
  <2> PICK i \in DOMAIN q : /\ q[i] = RoomState(s)
                           /\ \A j \in DOMAIN q : j > i => q[j].type # "room_state"
    BY <1>3
  <2>1. CASE i = 1
    <3>1. NoRoomStateIn(t)
      BY <1>1, <1>2, <2>1 DEF NoRoomStateIn
    <3>2. Head(q).type = "room_state" /\ Head(q).room = RoomStateOf(s)
      BY <1>1, <2>1 DEF RoomState
    <3> QED BY <3>1, <3>2 DEF SeatTold, t
  <2>2. CASE i # 1
    <3>1. i - 1 \in DOMAIN t /\ t[i - 1] = RoomState(s)
      BY <1>1, <1>2, <2>2
    <3>2. \A j \in DOMAIN t : j > i - 1 => t[j].type # "room_state"
      BY <1>1, <1>2
    <3> QED BY <3>1, <3>2 DEF SeatTold, t
  <2> QED BY <2>1, <2>2
<1>4. CASE r = RoomStateOf(s) /\ NoRoomStateIn(q)
  <2>1. NoRoomStateIn(t) /\ Head(q).type # "room_state"
    BY <1>1, <1>2, <1>4 DEF NoRoomStateIn
  <2> QED BY <1>4, <2>1 DEF SeatTold, t
<1> QED BY <1>3, <1>4 DEF SeatTold

-----------------------------------------------------------------------------
(* The shapes of a step. *)

\* A step of the client that takes no message.
LEMMA ClientStep ==
    ASSUME Inv, UNCHANGED <<inbox, srv, games>>,
           stack' \in Seq(Routes),
           phase' \in {"input", "net", "run"}, deferred' \in Seq(Deferrable),
           phase' # "input" => deferred' # <<>>,
           user' \in Users \cup {NoUser}, gameInit' \in Game, gameEnd' \in Game,
           roomState' \in RoomStateMsg \cup {NoRoomState},
           toServer' \in Seq(Request), haste' \in Nat,
           HasExit(toServer') \/ (~HasExit(toServer) /\ roomState' = roomState)
    PROVE  Inv'
<1>1. TypeOK'
  BY DEF Inv, TypeOK
<1>2. SeatKnown'
  BY DEF Inv, SeatKnown
<1> QED BY <1>1, <1>2 DEF Inv

\* A click, on a button that may clear the room state when it sends an exit.
LEMMA ClickStep ==
    ASSUME Inv, UNCHANGED <<srv, games>>,
           NEW s \in Seq(Routes), NEW reqs \in Seq(Request), Click(s, reqs),
           user' \in Users \cup {NoUser},
           roomState' = roomState \/ (roomState' = NoRoomState /\ HasExit(reqs))
    PROVE  Inv'
<1>1. toServer \in Seq(Request) /\ toServer' = toServer \o reqs
  BY DEF Inv, TypeOK, Click
<1>2. toServer' \in Seq(Request) /\ (HasExit(toServer) \/ HasExit(reqs) => HasExit(toServer'))
  BY <1>1, ExitKept
<1>3. haste' \in Nat
  BY DEF Inv, TypeOK, Click, CountHaste
<1> QED BY <1>2, <1>3, ClientStep DEF Inv, TypeOK, Click

\* The server sends ms: the seat it knows is left, told at the end, or the same.
LEMMA SentStep ==
    ASSUME Inv, UNCHANGED <<stack, phase, deferred, appState, haste>>,
           toServer' \in Seq(Request), srv' \in ServerState, games' \in Nat,
           NEW ms \in Seq(Message), inbox' = inbox \o ms,
           \/ ~srv'.in
           \/ ms # <<>> /\ ms[Len(ms)] = RoomState(srv')
           \/ /\ srv'.in = srv.in /\ RoomStateOf(srv') = RoomStateOf(srv)
              /\ NoRoomStateIn(ms)
              /\ HasExit(toServer) => HasExit(toServer')
    PROVE  Inv'
<1>1. inbox \in Seq(Message)
  BY DEF Inv, TypeOK
<1>2. TypeOK'
  BY <1>1, ConcatProperties DEF Inv, TypeOK, appState
<1>3. SeatKnown'
  <2>1. CASE ~srv'.in
    BY <2>1 DEF SeatKnown
  <2>2. CASE ms # <<>> /\ ms[Len(ms)] = RoomState(srv')
    BY <1>1, <2>2, ToldNow DEF SeatKnown
  <2>3. CASE /\ srv'.in = srv.in /\ RoomStateOf(srv') = RoomStateOf(srv)
             /\ NoRoomStateIn(ms)
             /\ HasExit(toServer) => HasExit(toServer')
    <3>1. SeatTold(inbox, roomState, srv) => SeatTold(inbox', roomState, srv)
      BY <1>1, <2>3, ToldMore
    <3>2. SeatTold(inbox', roomState, srv) => SeatTold(inbox', roomState, srv')
      BY <2>3 DEF SeatTold, RoomState
    <3> QED BY <2>3, <3>1, <3>2 DEF Inv, SeatKnown, appState
  <2> QED BY <2>1, <2>2, <2>3
<1> QED BY <1>2, <1>3 DEF Inv

-----------------------------------------------------------------------------
(* The steps of the client. *)

LEMMA UserActsStep ==
    ASSUME Inv, UserActs, UNCHANGED <<srv, games>>
    PROVE  Inv'
<1> USE DEF Back, Push, Change, Send
<1>1. /\ stack \in Seq(Routes) /\ Popped(stack) \in Seq(Routes)
      /\ <<>> \in Seq(Request)
      /\ user \in Users \cup {NoUser} /\ NoUser \in Users \cup {NoUser}
  BY PoppedType DEF Inv, TypeOK
<1>2. \A route \in Routes : <<route>> \in Seq(Routes)
  OBVIOUS
<1>3. \A route \in Routes : Append(stack, route) \in Seq(Routes)
  BY <1>1, AppendProperties
<1>4. \A req \in Request :
          <<req>> \in Seq(Request) /\ (req.type = "exit_room" => HasExit(<<req>>))
  <2> SUFFICES ASSUME NEW req \in Request
               PROVE  <<req>> \in Seq(Request) /\ (req.type = "exit_room" => HasExit(<<req>>))
    OBVIOUS
  <2>1. <<req>>[1] = req /\ 1 \in DOMAIN <<req>>
    OBVIOUS
  <2> QED BY <2>1 DEF HasExit
<1>5. \A s \in Seq(Routes), reqs \in Seq(Request) :
          /\ Click(s, reqs)
          /\ user' \in Users \cup {NoUser}
          /\ roomState' = roomState \/ (roomState' = NoRoomState /\ HasExit(reqs))
          => Inv'
  BY ClickStep
<1>6. \A req \in Request : Click(stack, <<req>>) /\ UNCHANGED <<user, roomState>> => Inv'
  BY <1>1, <1>4, <1>5
<1>7. \A s \in Seq(Routes) : Click(s, <<>>) /\ UNCHANGED <<user, roomState>> => Inv'
  BY <1>1, <1>5
<1>8. \A route \in Routes, req \in Request :
          Click(<<route>>, <<req>>) /\ UNCHANGED <<user, roomState>> => Inv'
  BY <1>1, <1>2, <1>4, <1>5
<1>9. \A route \in Routes :
          Click(Append(stack, route), <<>>) /\ UNCHANGED <<user, roomState>> => Inv'
  BY <1>3, <1>7
<1> HIDE DEF Back, Push, Change, Send
<1>10. CASE TitleScreen
  BY <1>2, <1>6, <1>7, <1>8, <1>9, <1>10, Requests
     DEF TitleScreen, Push, Send, Change, Routes, Screens, Overlays
<1>11. CASE LobbyReady
  BY <1>6, <1>11, Requests DEF LobbyReady, Send
<1>12. CASE LobbyHost
  BY <1>6, <1>12, Requests DEF LobbyHost, Send
<1>13. CASE LobbyExit
  BY <1>1, <1>2, <1>4, <1>5, <1>13, Requests DEF LobbyExit, Routes, Screens
<1>14. CASE GameWord
  BY <1>6, <1>14, Requests DEF GameWord, Send
<1>15. CASE GameEscape
  BY <1>1, <1>7, <1>15 DEF GameEscape, Back
<1>16. CASE ProfileScreen
  BY <1>2, <1>7, <1>9, <1>16
     DEF ProfileScreen, Push, Change, Routes, Screens, Overlays
<1>17. CASE ProfileSignOut
  BY <1>1, <1>2, <1>4, <1>5, <1>17, Requests DEF ProfileSignOut, Routes, Screens
<1>18. CASE JoinRoomOverlay
  BY <1>1, <1>6, <1>7, <1>18, Requests DEF JoinRoomOverlay, Back, Send
<1>19. CASE LeaderboardOverlay
  BY <1>1, <1>7, <1>19 DEF LeaderboardOverlay, Back
<1>20. CASE SignInOverlay
  BY <1>1, <1>6, <1>7, <1>9, <1>20, Requests
     DEF SignInOverlay, Back, Push, Send, Routes, Overlays
<1>21. CASE CreateAccountOverlay
  BY <1>1, <1>6, <1>7, <1>21, Requests DEF CreateAccountOverlay, Back, Send
<1>22. CASE ChangePasswordOverlay
  BY <1>1, <1>6, <1>7, <1>22, Requests DEF ChangePasswordOverlay, Back, Send
<1>23. CASE GuestResultOverlay
  BY <1>2, <1>7, <1>9, <1>23
     DEF GuestResultOverlay, Push, Change, Routes, Screens, Overlays
<1>24. CASE UserResultOverlay
  BY <1>2, <1>7, <1>8, <1>24, Requests DEF UserResultOverlay, Change, Routes, Screens
<1>25. CASE MatchResultOverlay
  <2>1. deferred' \in Seq(Deferrable) /\ phase' = "input" /\ haste' \in Nat
    BY <1>25, AppendProperties DEF MatchResultOverlay, Inv, TypeOK, Deferrable, CountHaste
  <2> QED BY <1>1, <1>25, <2>1, ClientStep DEF MatchResultOverlay, appState, Inv, TypeOK
<1> QED BY <1>10, <1>11, <1>12, <1>13, <1>14, <1>15, <1>16, <1>17, <1>18, <1>19, <1>20,
           <1>21, <1>22, <1>23, <1>24, <1>25 DEF UserActs

LEMMA PollEventStep ==
    ASSUME Inv, PollEvent, UNCHANGED <<srv, games>>
    PROVE  Inv'
<1> DEFINE m == Head(inbox)
<1>1. inbox \in Seq(Message) /\ inbox # <<>> /\ inbox' = Tail(inbox)
  BY DEF Inv, TypeOK, PollEvent
<1>2. m \in Message /\ inbox' \in Seq(Message)
  BY <1>1, HeadTailProperties
<1>3. /\ m.type = "sign_in" => m.user \in Users
      /\ m.type = "room_state" => m.room \in RoomStateMsg
      /\ m.type \in {"game_init", "game_end"} => m.game \in Game
  BY <1>2 DEF Message
<1>4. roomState' = IF m.type = "room_state" THEN m.room ELSE roomState
  BY <1>2 DEF PollEvent, OnSignInResponse, OnCreateAccountResponse, OnChangePasswordResponse,
              OnRoomState, OnGameInit, OnGameEnd, OnLeaderboardResponse, appState
<1>5. SeatTold(inbox, roomState, srv) => SeatTold(inbox', roomState', srv)
  BY <1>1, <1>4, ToldTaken
<1>6. SeatKnown'
  BY <1>5 DEF Inv, SeatKnown, PollEvent
<1>7. /\ user' \in Users \cup {NoUser}
      /\ roomState' \in RoomStateMsg \cup {NoRoomState}
      /\ gameInit' \in Game
      /\ gameEnd' \in Game
  BY <1>3 DEF Inv, TypeOK, PollEvent, OnSignInResponse, OnCreateAccountResponse,
              OnChangePasswordResponse, OnRoomState, OnGameInit, OnGameEnd,
              OnLeaderboardResponse, appState
<1> HIDE DEF m
<1>8. \E d \in Seq(Deferrable) : Defer(d)
  <2>1. <<>> \in Seq(Deferrable) /\ \A a \in Deferrable : <<a>> \in Seq(Deferrable)
    OBVIOUS
  <2>2. CASE OnSignInResponse(m)
    BY <2>1, <2>2 DEF OnSignInResponse, Deferrable
  <2>3. CASE OnCreateAccountResponse(m)
    BY <2>1, <2>3 DEF OnCreateAccountResponse, Deferrable
  <2>4. CASE OnChangePasswordResponse(m)
    BY <2>1, <2>4 DEF OnChangePasswordResponse, Deferrable
  <2>5. CASE OnRoomState(m)
    BY <2>1, <2>5 DEF OnRoomState, Deferrable
  <2>6. CASE OnGameInit(m)
    BY <2>1, <2>6 DEF OnGameInit, Deferrable
  <2>7. CASE OnGameEnd(m)
    BY <2>1, <2>7 DEF OnGameEnd, Deferrable
  <2>8. CASE OnLeaderboardResponse(m)
    BY <2>1, <2>8 DEF OnLeaderboardResponse, Deferrable
  <2> QED BY <2>2, <2>3, <2>4, <2>5, <2>6, <2>7, <2>8 DEF PollEvent, m
<1>9. /\ deferred' \in Seq(Deferrable)
      /\ phase' \in {"input", "net", "run"}
      /\ phase' # "input" => deferred' # <<>>
  BY <1>8, ConcatProperties DEF Inv, TypeOK, Defer
<1>10. TypeOK'
  BY <1>2, <1>7, <1>9 DEF Inv, TypeOK, PollEvent
<1> QED BY <1>6, <1>10 DEF Inv

LEMMA RunDeferredStep ==
    ASSUME Inv, RunDeferred, UNCHANGED <<srv, games>>
    PROVE  Inv'
<1> DEFINE d == Head(deferred)
<1>1. /\ deferred' \in Seq(Deferrable)
      /\ phase' \in {"input", "net", "run"}
      /\ phase' # "input" => deferred' # <<>>
  BY HeadTailProperties DEF Inv, TypeOK, RunDeferred
<1>2. /\ stack \in Seq(Routes) /\ toServer \in Seq(Request)
      /\ Popped(stack) \in Seq(Routes) /\ Popped(Popped(stack)) \in Seq(Routes)
  BY PoppedType DEF Inv, TypeOK
<1>3. \A s \in Seq(Routes), route \in {"Game", "GuestResult", "UserResult", "MatchResult", "Leaderboard"} :
          Append(s, route) \in Seq(Routes)
  BY AppendProperties DEF Routes, Screens, Overlays
<1>4. \A route \in Routes : <<route>> \in Seq(Routes)
  OBVIOUS
<1>5. \A r \in Request :
          /\ Append(toServer, r) \in Seq(Request)
          /\ HasExit(toServer) \/ r.type = "exit_room" => HasExit(Append(toServer, r))
  <2> SUFFICES ASSUME NEW r \in Request
               PROVE  /\ Append(toServer, r) \in Seq(Request)
                      /\ HasExit(toServer) \/ r.type = "exit_room" => HasExit(Append(toServer, r))
    OBVIOUS
  <2>1. Append(toServer, r) = toServer \o <<r>>
    BY <1>2, AppendIsConcat
  <2>2. <<r>> \in Seq(Request) /\ <<r>>[1] = r /\ 1 \in DOMAIN <<r>>
    OBVIOUS
  <2>3. r.type = "exit_room" => HasExit(<<r>>)
    BY <2>2 DEF HasExit
  <2> QED BY <1>2, <2>1, <2>2, <2>3, ExitKept
<1>6. CASE RunNavigation(d)
  <2>1. stack' \in Seq(Routes)
    BY <1>2, <1>3, <1>4, <1>6 DEF RunNavigation, Navigate, Routes, Screens
  <2>2. UNCHANGED <<appState, toServer>>
    BY <1>6 DEF RunNavigation, Navigate
  <2> QED BY <1>1, <2>1, <2>2, ClientStep DEF RunDeferred, appState, Inv, TypeOK
<1>7. CASE RunPopSignIn(d)
  <2>1. stack' \in Seq(Routes)
    BY <1>2, <1>3, <1>7 DEF RunPopSignIn, ReplacedTop
  <2>2. toServer' \in Seq(Request) /\ (HasExit(toServer) => HasExit(toServer'))
    BY <1>2, <1>5, <1>7, Requests DEF RunPopSignIn, Inv, TypeOK
  <2>3. UNCHANGED appState
    BY <1>7 DEF RunPopSignIn
  <2> QED BY <1>1, <2>1, <2>2, <2>3, ClientStep DEF RunDeferred, appState, Inv, TypeOK
<1>8. CASE RunExitMenu(d)
  <2>1. stack' \in Seq(Routes)
    BY <1>4, <1>8 DEF RunExitMenu, Routes, Screens
  <2>2. toServer' \in Seq(Request) /\ HasExit(toServer')
    BY <1>5, <1>8, Requests DEF RunExitMenu
  <2> QED BY <1>1, <1>8, <2>1, <2>2, ClientStep
          DEF RunExitMenu, RunDeferred, Inv, TypeOK, NoGame, Game
<1>9. CASE RunReturnLobby(d)
  BY <1>1, <1>2, <1>9, ClientStep DEF RunReturnLobby, RunDeferred, Inv, TypeOK, NoGame, Game
<1> QED BY <1>6, <1>7, <1>8, <1>9 DEF RunDeferred

-----------------------------------------------------------------------------
(* The steps of the server. *)

ClientUnchanged == UNCHANGED <<stack, phase, deferred, appState, haste>>

\* What the handlers answer, as sequences of messages.
LEMMA Answers ==
    /\ <<>> \in Seq(Message) /\ NoRoomStateIn(<<>>)
    /\ \A m \in Message : /\ <<m>> \in Seq(Message)
                          /\ m.type # "room_state" => NoRoomStateIn(<<m>>)
                          /\ <<m>> # <<>> /\ <<m>>[Len(<<m>>)] = m
    /\ \A m, n \in Message : /\ <<m, n>> \in Seq(Message)
                             /\ <<m, n>> # <<>> /\ <<m, n>>[Len(<<m, n>>)] = n
<1>1. <<>> \in Seq(Message) /\ NoRoomStateIn(<<>>)
  BY DEF NoRoomStateIn
<1>2. ASSUME NEW m \in Message
      PROVE  /\ <<m>> \in Seq(Message)
             /\ m.type # "room_state" => NoRoomStateIn(<<m>>)
             /\ <<m>> # <<>> /\ <<m>>[Len(<<m>>)] = m
  BY DEF NoRoomStateIn
<1>3. ASSUME NEW m \in Message, NEW n \in Message
      PROVE  /\ <<m, n>> \in Seq(Message)
             /\ <<m, n>> # <<>> /\ <<m, n>>[Len(<<m, n>>)] = n
  OBVIOUS
<1> QED BY <1>1, <1>2, <1>3

\* A handler that leaves the seat as it is.
LEMMA SameSeatStep ==
    ASSUME Inv, ClientUnchanged, toServer' \in Seq(Request), games' \in Nat,
           HasExit(toServer) => HasExit(toServer'),
           NEW s \in ServerState, RoomStateOf(s) = RoomStateOf(srv), s.in = srv.in,
           NEW ms \in Seq(Message), NoRoomStateIn(ms), Answer(s, ms)
    PROVE  Inv'
BY SentStep DEF Answer, ClientUnchanged

\* A handler that ends with the room_state of the seat.
LEMMA ToldSeatStep ==
    ASSUME Inv, ClientUnchanged, toServer' \in Seq(Request), games' \in Nat,
           NEW s \in ServerState, NEW ms \in Seq(Message), ms # <<>>,
           ms[Len(ms)] = RoomState(s), Answer(s, ms)
    PROVE  Inv'
BY SentStep DEF Answer, ClientUnchanged

\* A message the server refuses.
LEMMA IgnoreStep ==
    ASSUME Inv, ClientUnchanged, toServer' \in Seq(Request), games' \in Nat,
           HasExit(toServer) => HasExit(toServer'), Ignore
    PROVE  Inv'
<1>1. inbox' = inbox \o <<>>
  BY ConcatEmptySeq DEF Ignore, Inv, TypeOK
<1> QED BY <1>1, Answers, SentStep DEF Ignore, ClientUnchanged, Inv, TypeOK

\* A game starts: for OnStartGame and for another player who is the host.
LEMMA StartGameStep ==
    ASSUME Inv, ClientUnchanged, toServer' \in Seq(Request),
           HasExit(toServer) => HasExit(toServer'), StartGame
    PROVE  Inv'
<1> DEFINE s == [srv EXCEPT !.game = NextGame(FALSE)]
           ms == <<GameInit(NextGame(FALSE))>>
<1>1. NextGame(FALSE) \in Game /\ games' \in Nat /\ Answer(s, ms)
  BY DEF StartGame, NextGame, Game, Inv, TypeOK
<1>2. s \in ServerState /\ RoomStateOf(s) = RoomStateOf(srv) /\ s.in = srv.in
  BY <1>1 DEF Inv, TypeOK, ServerState, RoomStateOf
<1>3. ms \in Seq(Message) /\ NoRoomStateIn(ms)
  BY <1>1, Messages, Answers DEF GameInit
<1> HIDE DEF s, ms
<1> QED BY <1>1, <1>2, <1>3, SameSeatStep

LEMMA EndArenaGameStep ==
    ASSUME Inv, ClientUnchanged, toServer' \in Seq(Request), EndArenaGame, UNCHANGED games
    PROVE  Inv'
<1> DEFINE s == [srv EXCEPT !.game = NoGame, !.ready = FALSE, !.others = FALSE]
           ms == <<GameEnd(srv.game), RoomState(s)>>
<1>1. s \in ServerState /\ srv.game \in Game /\ games' \in Nat
  BY DEF Inv, TypeOK, ServerState, NoGame, Game
<1>2. /\ ms \in Seq(Message) /\ ms # <<>> /\ ms[Len(ms)] = RoomState(s)
  BY <1>1, Messages, Answers
<1>3. Answer(s, ms)
  BY DEF EndArenaGame
<1> HIDE DEF s, ms
<1> QED BY <1>1, <1>2, <1>3, ToldSeatStep

LEMMA ServerHandlesStep ==
    ASSUME Inv, ServerHandles
    PROVE  Inv'
<1> DEFINE m == Head(toServer)
<1>1. /\ toServer \in Seq(Request) /\ toServer # <<>> /\ toServer' = Tail(toServer)
      /\ srv \in ServerState /\ games \in Nat
      /\ ClientUnchanged
  BY DEF Inv, TypeOK, ServerHandles, ClientUnchanged
<1>2. m \in Request /\ toServer' \in Seq(Request)
  BY <1>1, HeadTailProperties
<1>3. /\ m.type = "sign_in" => m.user \in Users
      /\ m.type = "save_training_result" => m.end \in Game
  BY <1>2 DEF Request
<1>4. m.type # "exit_room" => (HasExit(toServer) => HasExit(toServer'))
  BY <1>1, ExitPending
<1>5. \A s \in ServerState, ms \in Seq(Message) :
          /\ Answer(s, ms) /\ games' \in Nat /\ m.type # "exit_room"
          /\ RoomStateOf(s) = RoomStateOf(srv) /\ s.in = srv.in /\ NoRoomStateIn(ms)
          => Inv'
  BY <1>1, <1>2, <1>4, SameSeatStep
<1>6. \A s \in ServerState :
          Answer(s, <<RoomState(s)>>) /\ games' \in Nat => Inv'
  BY <1>1, <1>2, ToldSeatStep, Messages, Answers
<1>7. Ignore /\ games' \in Nat /\ m.type # "exit_room" => Inv'
  BY <1>1, <1>2, <1>4, IgnoreStep
<1>8. \A training \in BOOLEAN : NextGame(training) \in Game
  BY <1>1 DEF NextGame, Game
<1> HIDE DEF m
<1>9. CASE OnSignIn(m)
  <2> DEFINE s == [srv EXCEPT !.user = m.user]
             ms == <<[type |-> "sign_in", user |-> m.user]>>
  <2>1. s \in ServerState /\ RoomStateOf(s) = RoomStateOf(srv) /\ s.in = srv.in
    BY <1>1, <1>3, <1>9 DEF OnSignIn, ServerState, RoomStateOf
  <2>2. ms \in Seq(Message) /\ NoRoomStateIn(ms)
    BY <1>3, <1>9, Messages, Answers DEF OnSignIn
  <2>3. /\ m.type = "sign_in" /\ games' \in Nat
        /\ Ignore \/ Answer(s, ms)
    BY <1>1, <1>9 DEF OnSignIn
  <2> HIDE DEF s, ms
  <2> QED BY <1>5, <1>7, <2>1, <2>2, <2>3
<1>10. CASE OnSignOut(m)
  BY <1>1, <1>5, <1>10, Answers DEF OnSignOut, ServerState, RoomStateOf
<1>11. CASE OnCreateAccount(m)
  BY <1>1, <1>5, <1>7, <1>11, Messages, Answers DEF OnCreateAccount
<1>12. CASE OnChangePassword(m)
  BY <1>1, <1>5, <1>7, <1>12, Messages, Answers DEF OnChangePassword
<1>13. CASE OnLeaderboard(m)
  BY <1>1, <1>5, <1>13, Messages, Answers DEF OnLeaderboard
<1>14. CASE OnCreateRoom(m)
  BY <1>1, <1>6, <1>7, <1>14 DEF OnCreateRoom, ServerState
<1>15. CASE OnJoin(m)
  <2>1. CASE Ignore /\ UNCHANGED games
    BY <1>1, <1>7, <1>15, <2>1 DEF OnJoin
  <2>2. CASE \E others \in BOOLEAN, running \in BOOLEAN :
                LET s == [srv EXCEPT !.in = TRUE, !.others = others,
                                     !.game = IF running THEN NextGame(FALSE) ELSE NoGame]
                IN  /\ games' = IF running THEN games + 1 ELSE games
                    /\ Answer(s, <<RoomState(s)>>)
    <3> PICK others \in BOOLEAN, running \in BOOLEAN :
                LET s == [srv EXCEPT !.in = TRUE, !.others = others,
                                     !.game = IF running THEN NextGame(FALSE) ELSE NoGame]
                IN  /\ games' = (IF running THEN games + 1 ELSE games)
                    /\ Answer(s, <<RoomState(s)>>)
      BY <2>2
    <3> DEFINE g == IF running THEN NextGame(FALSE) ELSE NoGame
               s == [srv EXCEPT !.in = TRUE, !.others = others, !.game = g]
    <3>1. g \in Game
      <4>1. NextGame(FALSE) \in Game /\ NoGame \in Game
        BY <1>8 DEF NoGame, Game
      <4> QED BY <4>1
    <3>2. games' \in Nat
      BY <1>1
    <3>3. s \in ServerState
      BY <1>1, <3>1 DEF ServerState
    <3>4. Answer(s, <<RoomState(s)>>)
      OBVIOUS
    <3> HIDE DEF g, s
    <3> QED BY <1>6, <3>2, <3>3, <3>4
  <2> QED BY <1>15, <2>1, <2>2 DEF OnJoin
<1>16. CASE OnExitRoom(m)
  <2> DEFINE s == [srv EXCEPT !.in = FALSE, !.host = FALSE, !.ready = FALSE, !.others = FALSE,
                              !.game = NoGame]
  <2>1. s \in ServerState /\ ~s.in
    BY <1>1 DEF ServerState, NoGame, Game
  <2>2. srv' = s /\ inbox' = inbox \o <<>> /\ games' \in Nat
    BY <1>1, <1>16 DEF OnExitRoom, Answer
  <2> HIDE DEF s
  <2> QED BY <1>1, <1>2, <2>1, <2>2, Answers, SentStep DEF ClientUnchanged
<1>17. CASE OnReady(m)
  BY <1>1, <1>6, <1>7, <1>17 DEF OnReady, ServerState
<1>18. CASE OnSetPrivate(m)
  BY <1>1, <1>6, <1>7, <1>18 DEF OnSetPrivate
<1>19. CASE OnStartGame(m)
  BY <1>1, <1>2, <1>4, <1>7, <1>19, StartGameStep DEF OnStartGame
<1>20. CASE OnStartTraining(m)
  <2> DEFINE s == [srv EXCEPT !.training = NextGame(TRUE)]
             ms == <<GameInit(NextGame(TRUE))>>
  <2>1. s \in ServerState /\ RoomStateOf(s) = RoomStateOf(srv) /\ s.in = srv.in
    BY <1>1, <1>8 DEF ServerState, RoomStateOf
  <2>2. ms \in Seq(Message) /\ NoRoomStateIn(ms)
    BY <1>8, Messages, Answers DEF GameInit
  <2>3. m.type = "start_training" /\ games' \in Nat /\ Answer(s, ms)
    BY <1>1, <1>20 DEF OnStartTraining
  <2> HIDE DEF s, ms
  <2> QED BY <1>5, <2>1, <2>2, <2>3
<1>21. CASE OnInput(m)
  <2>1. CASE Ignore
    BY <1>1, <1>7, <1>21, <2>1 DEF OnInput
  <2>2. CASE EndTraining
    <3> PICK saved \in {srv.saved, srv.saved \cup {srv.training.id}} :
               Answer([srv EXCEPT !.training = NoGame, !.saved = saved], <<GameEnd(srv.training)>>)
      BY <2>2 DEF EndTraining
    <3> DEFINE s == [srv EXCEPT !.training = NoGame, !.saved = saved]
               ms == <<GameEnd(srv.training)>>
    <3>1. srv.training \in Game /\ saved \in SUBSET Nat /\ NoGame \in Game
      BY <1>1 DEF ServerState, NoGame, Game
    <3>2. Answer(s, ms)
      OBVIOUS
    <3>3. m.type = "input" /\ games' \in Nat
      BY <1>1, <1>21 DEF OnInput
    <3>4. s \in ServerState /\ RoomStateOf(s) = RoomStateOf(srv) /\ s.in = srv.in
      BY <1>1, <3>1 DEF ServerState, RoomStateOf
    <3>5. ms \in Seq(Message) /\ NoRoomStateIn(ms)
      BY <3>1, Messages, Answers DEF GameEnd
    <3> HIDE DEF s, ms
    <3> QED BY <1>5, <3>2, <3>3, <3>4, <3>5
  <2>3. CASE EndArenaGame
    BY <1>1, <1>2, <1>21, <2>3, EndArenaGameStep DEF OnInput
  <2> QED BY <1>21, <2>1, <2>2, <2>3 DEF OnInput
<1>22. CASE OnSaveTrainingResult(m)
  <2> DEFINE saved == srv.saved \cup {m.end.id}
             s == [srv EXCEPT !.saved = saved]
  <2>1. m.type = "save_training_result" /\ games' \in Nat
    BY <1>1, <1>22 DEF OnSaveTrainingResult
  <2>2. saved \in SUBSET Nat
    BY <1>1, <1>3, <2>1 DEF ServerState, Game
  <2>3. Ignore \/ Answer(s, <<>>)
    BY <1>22 DEF OnSaveTrainingResult
  <2> HIDE DEF saved
  <2>4. s \in ServerState /\ RoomStateOf(s) = RoomStateOf(srv) /\ s.in = srv.in
    BY <1>1, <2>2 DEF ServerState, RoomStateOf
  <2> HIDE DEF s
  <2> QED BY <1>5, <1>7, <2>1, <2>3, <2>4, Answers
<1> QED BY <1>9, <1>10, <1>11, <1>12, <1>13, <1>14, <1>15, <1>16, <1>17, <1>18, <1>19, <1>20,
           <1>21, <1>22 DEF ServerHandles, m

LEMMA OthersActStep ==
    ASSUME Inv, OthersAct
    PROVE  Inv'
<1>1. /\ ClientUnchanged /\ toServer' = toServer /\ toServer' \in Seq(Request)
      /\ srv \in ServerState /\ games \in Nat
  BY DEF OthersAct, ClientUnchanged, Inv, TypeOK
<1>2. CASE OthersChange
  <2> PICK host \in {srv.host, TRUE}, others \in BOOLEAN :
          LET s == [srv EXCEPT !.host = host, !.others = others]
          IN  Answer(s, <<RoomState(s)>>)
    BY <1>2 DEF OthersChange
  <2> DEFINE s == [srv EXCEPT !.host = host, !.others = others]
  <2>1. s \in ServerState /\ Answer(s, <<RoomState(s)>>) /\ games' \in Nat
    BY <1>1, <1>2 DEF ServerState, OthersChange
  <2> HIDE DEF s
  <2> QED BY <1>1, <2>1, ToldSeatStep, Messages, Answers
<1>3. CASE OthersStart
  BY <1>1, <1>3, StartGameStep DEF OthersStart
<1>4. CASE OthersEnd
  BY <1>1, <1>4, EndArenaGameStep DEF OthersEnd
<1> QED BY <1>2, <1>3, <1>4 DEF OthersAct

-----------------------------------------------------------------------------
LEMMA InitInv == Init => Inv
<1> SUFFICES ASSUME Init
             PROVE  Inv
  OBVIOUS
<1> USE DEF Init, InitClient
<1>1. <<"Title">> \in Seq(Routes)
  BY DEF Routes, Screens
<1>2. NoGame \in Game
  BY DEF NoGame, Game
<1>3. srv \in ServerState
  BY <1>2 DEF ServerState
<1>4. TypeOK
  BY <1>1, <1>2, <1>3 DEF TypeOK
<1>5. SeatKnown
  BY DEF SeatKnown
<1> QED BY <1>4, <1>5 DEF Inv

LEMMA NextInv == Inv /\ [Next]_vars => Inv'
<1> SUFFICES ASSUME Inv, [Next]_vars
             PROVE  Inv'
  OBVIOUS
<1>1. CASE ClientNext /\ UNCHANGED <<srv, games>>
  BY <1>1, UserActsStep, PollEventStep, RunDeferredStep DEF ClientNext
<1>2. CASE ServerHandles
  BY <1>2, ServerHandlesStep
<1>3. CASE OthersAct
  BY <1>3, OthersActStep
<1>4. CASE UNCHANGED vars
  BY <1>4 DEF vars, clientVars, appState, Inv, TypeOK, SeatKnown
<1> QED BY <1>1, <1>2, <1>3, <1>4 DEF Next

LEMMA InvHolds == Spec => []Inv
BY InitInv, NextInv, PTL DEF Spec

\* The views, AppState, the two channels and the server's state keep their types.
THEOREM TypeCorrect == Spec => []TypeOK
<1>1. Inv => TypeOK
  BY DEF Inv
<1> QED BY <1>1, InvHolds, PTL

\* When nothing is under way, a seated client shows its seat as the server has it.
THEOREM RoomCurrentHolds == Spec => []RoomCurrent
<1>1. Inv => RoomCurrent
  BY DEF Inv, SeatKnown, RoomCurrent, Quiet, HasExit, SeatTold
<1> QED BY <1>1, InvHolds, PTL
-----------------------------------------------------------------------------
(* A user who waits.  As long as haste is 0 at most one request and its       *)
(* answer are under way, and the client is in one of a few situations: the    *)
(* views it shows, the messages and actions under way and what the server has *)
(* about it belong together.                                                  *)

RoomViews == {"Lobby", "Game", "MatchResult"}
AwayViews == {"Title", "Game", "MatchResult"}
PlainViews == Routes \ {"Lobby", "GuestResult"}
GuestStacks == {<<"Game", "GuestResult">>, <<"Game", "GuestResult", "SignIn">>,
                <<"Game", "GuestResult", "SignIn", "CreateAccount">>}
Pushes == {"PushGame", "PushMatchResult"}
RoomActions == Pushes \cup {"ToLobby"}
RoomRequests == {"ready", "unready", "set_private", "start_game", "input"}

ArenaGame == [id : Nat, training : {FALSE}]
ArenaMessage == [type : {"room_state"}, room : RoomStateMsg]
                \cup [type : {"game_init", "game_end"}, game : ArenaGame]

Agreed == user = srv.user

\* g is a training game that was not saved.
Played(g) == g.training /\ g.id \notin srv.saved /\ g.id <= games

Plain == stack \in Seq(PlainViews)

\* The result of a guest's training, with what a guest may do about it on top.
Guest == stack \in GuestStacks /\ gameEnd = gameInit /\ Played(gameInit)

\* In a room: on its views, perhaps with one request under way.
Playing ==
    /\ stack \in Seq(RoomViews)
    /\ deferred \in Seq(RoomActions)
    /\ toServer # <<>> => Len(toServer) = 1 /\ Head(toServer).type \in RoomRequests

\* One of the buttons of the match result was clicked.
MatchOver ==
    /\ stack \in Seq(RoomViews)
    /\ toServer = <<>>
    /\ deferred # <<>>
    /\ Head(deferred) \in {"ExitMenu", "ReturnLobby"}
    /\ Tail(deferred) \in Seq(Pushes)

\* The client has left, the server does not know it yet.
Leaving ==
    /\ stack \in Seq(AwayViews)
    /\ Len(toServer) = 1 /\ Head(toServer).type = "exit_room"
    /\ deferred \in Seq(Pushes)

\* The server has given a seat, the join dialog is still there.
Arriving ==
    /\ On("JoinRoom")
    /\ toServer = <<>>
    /\ \/ deferred = <<>> /\ inbox # <<>> /\ Head(inbox).type = "room_state"
       \/ deferred \in Seq(RoomActions) /\ deferred # <<>> /\ Head(deferred) = "ToLobby"

InRoom ==
    /\ srv.in /\ Agreed /\ srv.training = NoGame /\ srv.game \in ArenaGame
    /\ inbox \in Seq(ArenaMessage)
    /\ Playing \/ MatchOver \/ Leaving \/ Arriving

\* Out of the room, with messages of the room still under way.
Left ==
    /\ Agreed /\ stack \in Seq(AwayViews)
    /\ toServer = <<>> /\ inbox \in Seq(ArenaMessage) /\ deferred \in Seq(Pushes)

Idle == Quiet /\ Agreed /\ (Plain \/ Guest)

\* The request r, and what may be on the screen when it is under way.
Asked(r) ==
    \/ r.type \in {"leaderboard", "input", "exit_room", "start_training"} /\ Plain /\ Agreed
    \/ r.type = "change_password" /\ On("ChangePassword") /\ Plain /\ Agreed
    \/ r.type = "create_account" /\ On("CreateAccount") /\ (Plain \/ Guest) /\ Agreed
    \/ r.type = "sign_in" /\ On("SignIn") /\ (Plain \/ Guest) /\ Agreed
    \/ r.type = "sign_out" /\ Plain /\ user = NoUser
    \/ r.type = "create_room" /\ stack = <<"Lobby">> /\ Agreed
    \/ r.type \in {"join_room", "join_random"} /\ On("JoinRoom") /\ Plain /\ Agreed
    \/ /\ r.type = "save_training_result"
       /\ r.init = r.end /\ Played(r.end) /\ srv.user # NoUser /\ Plain /\ Agreed

Asking == inbox = <<>> /\ deferred = <<>> /\ Len(toServer) = 1 /\ Asked(Head(toServer))

\* The answer a.
Answered(a) ==
    \/ a.type = "create_account" /\ On("CreateAccount") /\ (Plain \/ Guest) /\ Agreed
    \/ a.type = "change_password" /\ On("ChangePassword") /\ Plain /\ Agreed
    \/ a.type = "leaderboard" /\ Plain /\ Agreed
    \/ a.type = "sign_in" /\ On("SignIn") /\ (Plain \/ Guest) /\ a.user = srv.user
    \/ /\ a.type = "game_end" /\ a.game = gameInit /\ gameInit.training
       /\ stack = <<"Game">> /\ Agreed /\ (user = NoUser => Played(gameInit))

Answering == toServer = <<>> /\ deferred = <<>> /\ Len(inbox) = 1 /\ Answered(Head(inbox))

\* What the answer, or a button of an old match result, deferred.
Deferred(d) ==
    \/ d = "PopCreateAccount" /\ On("CreateAccount") /\ (Plain \/ Guest)
    \/ d = "PopChangePassword" /\ On("ChangePassword") /\ Plain
    \/ d \in {"PushLeaderboard", "ExitMenu", "ReturnLobby", "PushUserResult"} /\ Plain
    \/ d = "PopSignIn" /\ On("SignIn") /\ (Plain \/ Guest) /\ srv.user # NoUser
    \/ d = "PushGuestResult" /\ stack = <<"Game">> /\ gameEnd = gameInit /\ Played(gameInit)

Deferring ==
    /\ toServer = <<>> /\ inbox = <<>> /\ Agreed
    /\ Len(deferred) = 1 /\ Deferred(Head(deferred))

OutOfRoom ==
    /\ ~srv.in /\ srv.game = NoGame /\ srv.training = NoGame
    /\ Left \/ Idle \/ Asking \/ Answering \/ Deferring

\* Training, from the server's game_init to its game_end.
Training ==
    /\ ~srv.in /\ srv.game = NoGame /\ Agreed /\ Played(srv.training)
    /\ \/ /\ toServer = <<>> /\ deferred = <<>> /\ Len(inbox) = 1
          /\ Head(inbox) = GameInit(srv.training)
       \/ toServer = <<>> /\ inbox = <<>> /\ deferred = <<"ToGame">> /\ gameInit = srv.training
       \/ Quiet /\ stack \in {<<"Game">>, <<>>} /\ gameInit = srv.training
       \/ /\ inbox = <<>> /\ deferred = <<>> /\ Len(toServer) = 1 /\ Head(toServer).type = "input"
          /\ stack = <<"Game">> /\ gameInit = srv.training

\* No saved result is that of a game to come.
SavedPast == \A i \in srv.saved : i <= games

Patient ==
    haste = 0 =>
        /\ SavedPast
        /\ InRoom \/ OutOfRoom \/ Training

\* The sequences a situation speaks of.
LEMMA TopIn ==
    ASSUME NEW S, NEW s \in Seq(S), NEW route, IsTop(s, route)
    PROVE  route \in S
<1>1. Len(s) \in Nat \ {0}
  BY EmptySeq DEF IsTop
<1>2. s[Len(s)] \in S
  BY <1>1, ElementOfSeq
<1> QED BY <1>2 DEF IsTop, Last

LEMMA Only ==
    ASSUME NEW S, NEW s \in Seq(S), Len(s) = 1
    PROVE  Head(s) \in S /\ s = <<Head(s)>> /\ s # <<>> /\ Tail(s) = <<>>
<1>1. s # <<>> /\ s[1] \in S
  BY EmptySeq, ElementOfSeq
<1>2. <<s[1]>> \in Seq(S) /\ Len(<<s[1]>>) = 1 /\ <<s[1]>>[1] = s[1]
  BY <1>1
<1>3. s = <<s[1]>>
  BY <1>1, <1>2, SeqEqual
<1>4. Head(s) = s[1] /\ Len(Tail(s)) = 0 /\ Tail(s) \in Seq(S)
  BY <1>1, HeadTailProperties
<1> QED BY <1>1, <1>3, <1>4, EmptySeq

LEMMA HeadKept ==
    ASSUME NEW S, NEW s \in Seq(S), s # <<>>, NEW t \in Seq(S)
    PROVE  /\ s \o t \in Seq(S) /\ s \o t # <<>>
           /\ Head(s \o t) = Head(s) /\ Tail(s \o t) = Tail(s) \o t
<1> DEFINE r == s \o t
<1>1. /\ r \in Seq(S)
      /\ Len(r) = Len(s) + Len(t)
      /\ \A i \in 1 .. Len(s) + Len(t) : r[i] = IF i <= Len(s) THEN s[i] ELSE t[i - Len(s)]
  BY ConcatProperties
<1>2. Len(s) \in Nat \ {0} /\ Len(t) \in Nat
  BY EmptySeq, LenProperties
<1>3. /\ Head(s) = s[1] /\ Tail(s) \in Seq(S) /\ Len(Tail(s)) = Len(s) - 1
      /\ \A i \in 1 .. Len(s) - 1 : Tail(s)[i] = s[i + 1]
  BY HeadTailProperties
<1> HIDE DEF r
<1>4. r # <<>> /\ Len(r) # 0
  BY <1>1, <1>2, EmptySeq
<1>5. /\ Head(r) = r[1] /\ Tail(r) \in Seq(S) /\ Len(Tail(r)) = Len(r) - 1
      /\ \A i \in 1 .. Len(r) - 1 : Tail(r)[i] = r[i + 1]
  BY <1>1, <1>4, HeadTailProperties
<1>6. Head(r) = Head(s)
  BY <1>1, <1>2, <1>3, <1>5
<1>7. /\ Tail(s) \o t \in Seq(S)
      /\ Len(Tail(s) \o t) = Len(Tail(s)) + Len(t)
      /\ \A i \in 1 .. Len(Tail(s)) + Len(t) :
            (Tail(s) \o t)[i] = IF i <= Len(Tail(s)) THEN Tail(s)[i] ELSE t[i - Len(Tail(s))]
  BY <1>3, ConcatProperties
<1>8. Tail(r) = Tail(s) \o t
  <2>1. Len(Tail(r)) = Len(Tail(s) \o t)
    BY <1>1, <1>2, <1>3, <1>5, <1>7
  <2>2. ASSUME NEW i \in 1 .. Len(Tail(r))
        PROVE  Tail(r)[i] = (Tail(s) \o t)[i]
    <3>1. i \in 1 .. Len(r) - 1 /\ i + 1 \in 1 .. Len(s) + Len(t) /\ i \in 1 .. Len(Tail(s)) + Len(t)
      BY <1>1, <1>2, <1>3, <1>5
    <3>2. Tail(r)[i] = r[i + 1]
      BY <1>5, <3>1
    <3>3. CASE i <= Len(s) - 1
      BY <1>1, <1>2, <1>3, <1>7, <3>1, <3>2, <3>3
    <3>4. CASE ~(i <= Len(s) - 1)
      <4>1. ~(i + 1 <= Len(s)) /\ ~(i <= Len(Tail(s)))
        BY <1>2, <1>3, <3>1, <3>4
      <4>2. r[i + 1] = t[i + 1 - Len(s)]
        BY <1>1, <3>1, <4>1
      <4>3. (Tail(s) \o t)[i] = t[i - Len(Tail(s))]
        BY <1>7, <3>1, <4>1
      <4>4. i + 1 - Len(s) = i - Len(Tail(s))
        BY <1>2, <1>3, <3>1
      <4> QED BY <3>2, <4>2, <4>3, <4>4
    <3> QED BY <3>3, <3>4
  <2> QED BY <1>5, <1>7, <2>1, <2>2, SeqEqual
<1> QED BY <1>1, <1>4, <1>6, <1>8 DEF r

LEMMA PoppedAppend ==
    ASSUME NEW S, NEW s \in Seq(S), NEW x \in S
    PROVE  Popped(Append(s, x)) = s
<1> DEFINE t == Append(s, x)
<1>1. /\ t \in Seq(S) /\ Len(t) = Len(s) + 1
      /\ \A i \in 1 .. Len(s) : t[i] = s[i]
  BY AppendProperties
<1>2. Len(s) \in Nat
  BY LenProperties
<1> HIDE DEF t
<1>3. t # <<>>
  BY <1>1, <1>2, EmptySeq
<1>4. Front(t) \in Seq(S) /\ Len(Front(t)) = Len(t) - 1 /\ \A i \in 1 .. Len(t) - 1 : Front(t)[i] = t[i]
  BY <1>1, <1>3, FrontProperties
<1>5. Front(t) = s
  BY <1>1, <1>2, <1>4, SeqEqual
<1> QED BY <1>3, <1>5 DEF Popped, t

LEMMA AppendTuple ==
    ASSUME NEW S, NEW a \in S, NEW b \in S, NEW c \in S, NEW d \in S
    PROVE  /\ Append(<<a>>, b) = <<a, b>>
           /\ Append(<<a, b>>, c) = <<a, b, c>>
           /\ Append(<<a, b, c>>, d) = <<a, b, c, d>>
<1>1. Append(<<a>>, b) = <<a, b>>
  <2>1. <<a>> \in Seq(S) /\ <<a, b>> \in Seq(S) /\ Len(<<a>>) = 1 /\ Len(<<a, b>>) = 2
    OBVIOUS
  <2>2. Append(<<a>>, b) \in Seq(S) /\ Len(Append(<<a>>, b)) = 2
    BY <2>1, AppendProperties
  <2>3. \A i \in 1 .. 2 : Append(<<a>>, b)[i] = <<a, b>>[i]
    BY <2>1, AppendProperties
  <2> QED BY <2>1, <2>2, <2>3, SeqEqual
<1>2. Append(<<a, b>>, c) = <<a, b, c>>
  <2>1. <<a, b>> \in Seq(S) /\ <<a, b, c>> \in Seq(S) /\ Len(<<a, b>>) = 2 /\ Len(<<a, b, c>>) = 3
    OBVIOUS
  <2>2. Append(<<a, b>>, c) \in Seq(S) /\ Len(Append(<<a, b>>, c)) = 3
    BY <2>1, AppendProperties
  <2>3. \A i \in 1 .. 3 : Append(<<a, b>>, c)[i] = <<a, b, c>>[i]
    BY <2>1, AppendProperties
  <2> QED BY <2>1, <2>2, <2>3, SeqEqual
<1>3. Append(<<a, b, c>>, d) = <<a, b, c, d>>
  <2>1. /\ <<a, b, c>> \in Seq(S) /\ <<a, b, c, d>> \in Seq(S)
        /\ Len(<<a, b, c>>) = 3 /\ Len(<<a, b, c, d>>) = 4
    OBVIOUS
  <2>2. Append(<<a, b, c>>, d) \in Seq(S) /\ Len(Append(<<a, b, c>>, d)) = 4
    BY <2>1, AppendProperties
  <2>3. \A i \in 1 .. 4 : Append(<<a, b, c>>, d)[i] = <<a, b, c, d>>[i]
    BY <2>1, AppendProperties
  <2> QED BY <2>1, <2>2, <2>3, SeqEqual
<1> QED BY <1>1, <1>2, <1>3

\* The views over a guest's result come and go one at a time.
LEMMA GuestViews ==
    /\ Append(<<"Game">>, "GuestResult") = <<"Game", "GuestResult">>
    /\ Append(<<"Game", "GuestResult">>, "SignIn") = <<"Game", "GuestResult", "SignIn">>
    /\ Append(<<"Game", "GuestResult", "SignIn">>, "CreateAccount")
          = <<"Game", "GuestResult", "SignIn", "CreateAccount">>
    /\ Popped(<<"Game", "GuestResult", "SignIn", "CreateAccount">>) = <<"Game", "GuestResult", "SignIn">>
    /\ Popped(<<"Game", "GuestResult", "SignIn">>) = <<"Game", "GuestResult">>
    /\ Popped(<<"Game", "GuestResult">>) = <<"Game">>
    /\ Popped(<<"Game">>) = <<>>
    /\ Last(<<"Game", "GuestResult", "SignIn", "CreateAccount">>) = "CreateAccount"
    /\ Last(<<"Game", "GuestResult", "SignIn">>) = "SignIn"
    /\ Last(<<"Game", "GuestResult">>) = "GuestResult"
    /\ Last(<<"Game">>) = "Game"
<1> DEFINE a == <<"Game">>
           b == <<"Game", "GuestResult">>
           c == <<"Game", "GuestResult", "SignIn">>
           d == <<"Game", "GuestResult", "SignIn", "CreateAccount">>
<1>1. /\ a \in Seq(Routes) /\ b \in Seq(Routes) /\ c \in Seq(Routes) /\ d \in Seq(Routes)
      /\ {"GuestResult", "SignIn", "CreateAccount", "Game"} \subseteq Routes /\ <<>> \in Seq(Routes)
  BY DEF Routes, Screens, Overlays
<1>2. /\ Append(<<>>, "Game") = a /\ Append(a, "GuestResult") = b
      /\ Append(b, "SignIn") = c /\ Append(c, "CreateAccount") = d
  <2> HIDE DEF a, b, c, d
  <2>1. Append(<<>>, "Game") = <<"Game">>
    OBVIOUS
  <2> QED BY <1>1, <2>1, AppendTuple DEF a, b, c, d
<1>3. Last(d) = "CreateAccount" /\ Last(c) = "SignIn" /\ Last(b) = "GuestResult" /\ Last(a) = "Game"
  BY DEF Last
<1> HIDE DEF a, b, c, d
<1>4. Popped(d) = c /\ Popped(c) = b /\ Popped(b) = a /\ Popped(a) = <<>>
  BY <1>1, <1>2, PoppedAppend
<1> QED BY <1>2, <1>3, <1>4 DEF a, b, c, d

-----------------------------------------------------------------------------
(* The clicks: a user who waits acts when all is quiet only. *)

LEMMA ClickQuiet ==
    ASSUME Quiet, NEW s, NEW reqs \in Seq(Request), Click(s, reqs)
    PROVE  /\ stack' = s /\ toServer' = reqs /\ inbox' = <<>> /\ deferred' = <<>>
           /\ UNCHANGED <<gameInit, gameEnd>>
BY ConcatEmptySeq DEF Quiet, Click

LEMMA NoRequest == <<>> \in Seq(Request)
OBVIOUS

LEMMA RequestAlone ==
    \A r \in Request : /\ <<r>> \in Seq(Request) /\ <<r>> # <<>>
                       /\ Len(<<r>>) = 1 /\ Head(<<r>>) = r
OBVIOUS

LEMMA UserInRoom ==
    ASSUME Inv, InRoom, Quiet, UserActs, UNCHANGED <<srv, games>>
    PROVE  InRoom'
<1>1. stack \in Seq(RoomViews) /\ Popped(stack) \in Seq(RoomViews)
  BY PoppedType DEF InRoom, Playing, MatchOver, Leaving, Arriving, Quiet
<1>2. \A route : On(route) => route \in RoomViews
  BY <1>1, TopIn DEF On
<1>3. /\ srv'.in /\ srv'.training = NoGame /\ srv'.game \in ArenaGame
      /\ \A u : user = u => srv'.user = u
      /\ <<>> \in Seq(ArenaMessage)
  BY DEF InRoom, Agreed
<1>4. \A s \in Seq(RoomViews), r \in Request :
          Click(s, <<r>>) /\ r.type \in RoomRequests /\ UNCHANGED user => InRoom'
  <2> SUFFICES ASSUME NEW s \in Seq(RoomViews), NEW r \in Request, UNCHANGED user,
                      Click(s, <<r>>), r.type \in RoomRequests
               PROVE  InRoom'
    OBVIOUS
  <2>1. stack' = s /\ toServer' = <<r>> /\ inbox' = <<>> /\ deferred' = <<>>
    BY RequestAlone, ClickQuiet
  <2>2. <<>> \in Seq(RoomActions) /\ Len(<<r>>) = 1 /\ Head(<<r>>) = r
    OBVIOUS
  <2>3. Playing'
    BY <2>1, <2>2 DEF Playing
  <2> QED BY <1>3, <2>1, <2>3 DEF InRoom, Agreed
<1>5. \A s \in Seq(RoomViews) : Click(s, <<>>) /\ UNCHANGED user => InRoom'
  <2> SUFFICES ASSUME NEW s \in Seq(RoomViews), UNCHANGED user, Click(s, <<>>)
               PROVE  InRoom'
    OBVIOUS
  <2>1. stack' = s /\ toServer' = <<>> /\ inbox' = <<>> /\ deferred' = <<>>
    BY NoRequest, ClickQuiet
  <2>2. Playing'
    BY <2>1 DEF Playing
  <2> QED BY <1>3, <2>1, <2>2 DEF InRoom, Agreed
<1>6. CASE LobbyReady
  BY <1>1, <1>4, <1>6, Requests DEF LobbyReady, Send, RoomRequests
<1>7. CASE LobbyHost
  BY <1>1, <1>4, <1>7, Requests DEF LobbyHost, Send, RoomRequests
<1>8. CASE LobbyExit
  <2> DEFINE r == [type |-> "exit_room"]
  <2>1. r \in Request /\ r.type = "exit_room" /\ Click(<<"Title">>, <<r>>) /\ UNCHANGED user
    BY <1>8, Requests DEF LobbyExit
  <2> HIDE DEF r
  <2>2. stack' = <<"Title">> /\ toServer' = <<r>> /\ inbox' = <<>> /\ deferred' = <<>>
    BY <2>1, RequestAlone, ClickQuiet
  <2>3. <<"Title">> \in Seq(AwayViews) /\ <<>> \in Seq(Pushes) /\ Len(<<r>>) = 1 /\ Head(<<r>>) = r
    BY DEF AwayViews
  <2>4. Leaving'
    BY <2>1, <2>2, <2>3 DEF Leaving
  <2> QED BY <1>3, <2>1, <2>2, <2>4 DEF InRoom, Agreed
<1>9. CASE GameWord
  BY <1>1, <1>4, <1>9, Requests DEF GameWord, Send, RoomRequests
<1>10. CASE GameEscape
  BY <1>1, <1>5, <1>10 DEF GameEscape, Back
<1>11. CASE MatchResultOverlay
  <2>1. PICK d \in {"ExitMenu", "ReturnLobby"} : deferred' = Append(deferred, d)
    BY <1>11 DEF MatchResultOverlay
  <2>2. deferred' = <<d>>
    BY <2>1 DEF Quiet
  <2>3. <<d>> # <<>> /\ Head(<<d>>) = d /\ Tail(<<d>>) = <<>> /\ <<>> \in Seq(Pushes)
    OBVIOUS
  <2>4. UNCHANGED <<stack, user, toServer, inbox>>
    BY <1>11 DEF MatchResultOverlay, appState
  <2>5. MatchOver'
    BY <1>1, <2>2, <2>3, <2>4 DEF MatchOver, Quiet
  <2> QED BY <1>3, <2>4, <2>5 DEF InRoom, Agreed, Quiet
<1>12. CASE \/ TitleScreen \/ ProfileScreen \/ ProfileSignOut \/ JoinRoomOverlay \/ LeaderboardOverlay
            \/ SignInOverlay \/ CreateAccountOverlay \/ ChangePasswordOverlay
            \/ GuestResultOverlay \/ UserResultOverlay
  BY <1>2, <1>12 DEF TitleScreen, ProfileScreen, ProfileSignOut, JoinRoomOverlay,
       LeaderboardOverlay, SignInOverlay, CreateAccountOverlay, ChangePasswordOverlay,
       GuestResultOverlay, UserResultOverlay, RoomViews
<1> QED BY <1>6, <1>7, <1>8, <1>9, <1>10, <1>11, <1>12 DEF UserActs

LEMMA UserTrains ==
    ASSUME Inv, Training, Quiet, UserActs, UNCHANGED <<srv, games>>
    PROVE  Training'
<1>1. /\ stack \in {<<"Game">>, <<>>} /\ gameInit = srv.training
      /\ \A route : On(route) => stack = <<"Game">> /\ route = "Game"
  BY GuestViews DEF Training, Quiet, On, IsTop
<1>2. /\ ~srv'.in /\ srv'.game = NoGame /\ (Played(srv.training))'
      /\ \A u : user = u => srv'.user = u
  BY DEF Training, Agreed, Played
<1>3. CASE GameWord
  <2> DEFINE r == [type |-> "input"]
  <2>1. r \in Request /\ r.type = "input" /\ Click(stack, <<r>>) /\ UNCHANGED user /\ On("Game")
    BY <1>3, Requests DEF GameWord, Send
  <2> HIDE DEF r
  <2>2. /\ UNCHANGED stack /\ toServer' = <<r>> /\ inbox' = <<>> /\ deferred' = <<>>
        /\ UNCHANGED gameInit
    BY <2>1, RequestAlone, ClickQuiet
  <2>3. Len(<<r>>) = 1 /\ Head(<<r>>) = r
    OBVIOUS
  <2> QED BY <1>1, <1>2, <2>1, <2>2, <2>3 DEF Training, Agreed
<1>4. CASE GameEscape
  <2>1. Click(Popped(stack), <<>>) /\ UNCHANGED user /\ On("Game")
    BY <1>4 DEF GameEscape, Back
  <2>2. Popped(stack) = <<>>
    BY <1>1, <2>1, GuestViews
  <2>3. stack' = <<>> /\ Quiet' /\ UNCHANGED gameInit
    BY <2>1, <2>2, NoRequest, ClickQuiet DEF Quiet
  <2> QED BY <1>1, <1>2, <2>1, <2>3 DEF Training, Agreed
<1> QED BY <1>1, <1>3, <1>4 DEF UserActs, TitleScreen, LobbyReady, LobbyHost, LobbyExit,
       ProfileScreen, ProfileSignOut, JoinRoomOverlay,
       LeaderboardOverlay, SignInOverlay, CreateAccountOverlay, ChangePasswordOverlay,
       GuestResultOverlay, UserResultOverlay, MatchResultOverlay

LEMMA UserOutOfRoom ==
    ASSUME Inv, OutOfRoom, Quiet, UserActs, UNCHANGED <<srv, games>>
    PROVE  OutOfRoom'
<1>1. Agreed /\ (Plain \/ Guest)
  <2>1. Left => Plain
    BY DEF Left, Plain, AwayViews, PlainViews, Routes, Screens, Overlays
  <2> QED BY <2>1 DEF OutOfRoom, Left, Idle, Asking, Answering, Deferring, Quiet
<1>2. /\ ~srv'.in /\ srv'.game = NoGame /\ srv'.training = NoGame
      /\ UNCHANGED user => Agreed'
      /\ \A g : Played(g) => Played(g)'
  BY <1>1 DEF OutOfRoom, Agreed, Played
<1>3. /\ \A route : Plain /\ On(route) => route \in PlainViews
      /\ \A route : Guest /\ On(route) => route \in {"GuestResult", "SignIn", "CreateAccount"}
  <2>1. ASSUME NEW route, Plain, On(route) PROVE route \in PlainViews
    BY <2>1, TopIn DEF Plain, On
  <2>2. ASSUME NEW route, Guest, On(route) PROVE route \in {"GuestResult", "SignIn", "CreateAccount"}
    BY <2>2, GuestViews DEF Guest, GuestStacks, On, IsTop
  <2> QED BY <2>1, <2>2
<1>4. ASSUME NEW s, Click(s, <<>>), UNCHANGED user,
             s \in Seq(PlainViews) \/ (s \in GuestStacks /\ Guest)
      PROVE  OutOfRoom'
  <2>1. stack' = s /\ Quiet' /\ UNCHANGED <<gameInit, gameEnd>>
    BY <1>4, NoRequest, ClickQuiet DEF Quiet
  <2>2. Guest => gameEnd' = gameInit' /\ Played(gameInit)'
    BY <1>2, <2>1 DEF Guest, Played
  <2> QED BY <1>2, <1>4, <2>1, <2>2 DEF OutOfRoom, Idle, Plain, Guest
<1>5. ASSUME NEW s, NEW r \in Request, Click(s, <<r>>), Asked(r)'
      PROVE  OutOfRoom'
  <2>1. toServer' = <<r>> /\ inbox' = <<>> /\ deferred' = <<>>
    BY <1>5, RequestAlone, ClickQuiet
  <2>2. Len(toServer') = 1 /\ Head(toServer') = r
    BY <2>1
  <2>3. Asking'
    BY <1>5, <2>1, <2>2 DEF Asking
  <2> QED BY <1>2, <2>3 DEF OutOfRoom
<1>6. ASSUME NEW r \in Request, Click(stack, <<r>>), UNCHANGED user
      PROVE  Agreed' /\ (Plain => Plain') /\ (Guest => Guest')
             /\ \A route : On(route) => On(route)'
  <2>1. UNCHANGED <<stack, gameInit, gameEnd>>
    BY <1>6, RequestAlone, ClickQuiet
  <2> QED BY <1>2, <1>6, <2>1 DEF Plain, Guest, On, Played
<1>7. \A route \in Routes : /\ route \in PlainViews => <<route>> \in Seq(PlainViews)
                            /\ Plain /\ route \in PlainViews => Append(stack, route) \in Seq(PlainViews)
  BY AppendProperties DEF Plain
<1>8. Plain => Popped(stack) \in Seq(PlainViews)
  BY PoppedType DEF Plain
<1>9. \A s : \A r \in Request : Click(<<s>>, <<r>>) => stack' = <<s>>
  BY RequestAlone, ClickQuiet
<1>10. CASE TitleScreen
  <2>1. Plain /\ UNCHANGED user
    BY <1>1, <1>3, <1>10 DEF TitleScreen
  <2>2. CASE Click(<<"Lobby">>, <<[type |-> "create_room"]>>)
    <3> DEFINE r == [type |-> "create_room"]
    <3>1. r \in Request /\ r.type = "create_room" /\ Click(<<"Lobby">>, <<r>>)
      BY <2>2, Requests
    <3> HIDE DEF r
    <3>2. stack' = <<"Lobby">> /\ Agreed'
      BY <1>2, <1>9, <2>1, <3>1
    <3>3. Asked(r)'
      BY <3>1, <3>2 DEF Asked
    <3> QED BY <1>5, <3>1, <3>3
  <2>3. CASE \/ Click(Append(stack, "JoinRoom"), <<>>)
             \/ Click(Append(stack, "SignIn"), <<>>)
             \/ Click(<<"Profile">>, <<>>)
    BY <1>4, <1>7, <2>1, <2>3 DEF PlainViews, Routes, Screens, Overlays
  <2>4. ASSUME NEW t \in {"start_training", "leaderboard"}, Click(stack, <<[type |-> t]>>)
        PROVE  OutOfRoom'
    <3> DEFINE r == [type |-> t]
    <3>1. r \in Request /\ r.type = t /\ Click(stack, <<r>>)
      BY <2>4, Requests
    <3> HIDE DEF r
    <3>2. Plain' /\ Agreed'
      BY <1>6, <2>1, <3>1
    <3>3. Asked(r)'
      BY <3>1, <3>2 DEF Asked
    <3> QED BY <1>5, <3>1, <3>3
  <2> QED BY <1>10, <2>2, <2>3, <2>4 DEF TitleScreen, Push, Send, Change
<1>11. CASE LobbyReady \/ LobbyHost \/ LobbyExit
  BY <1>1, <1>3, <1>11 DEF LobbyReady, LobbyHost, LobbyExit, PlainViews
<1>12. CASE GameWord
  <2> DEFINE r == [type |-> "input"]
  <2>1. r \in Request /\ r.type = "input" /\ Click(stack, <<r>>) /\ UNCHANGED user /\ Plain
    BY <1>1, <1>3, <1>12, Requests DEF GameWord, Send
  <2> HIDE DEF r
  <2>2. Plain' /\ Agreed'
    BY <1>6, <2>1
  <2>3. Asked(r)'
    BY <2>1, <2>2 DEF Asked
  <2> QED BY <1>5, <2>1, <2>3
<1>13. CASE GameEscape
  BY <1>1, <1>3, <1>4, <1>8, <1>13 DEF GameEscape, Back
<1>14. CASE ProfileScreen
  <2>1. Plain
    BY <1>1, <1>3, <1>14 DEF ProfileScreen
  <2> QED BY <1>4, <1>7, <1>14, <2>1
          DEF ProfileScreen, Change, Push, PlainViews, Routes, Screens, Overlays
<1>15. CASE ProfileSignOut
  <2> DEFINE r == [type |-> "sign_out"]
  <2>1. r \in Request /\ r.type = "sign_out" /\ Click(<<"Title">>, <<r>>) /\ user' = NoUser
    BY <1>15, Requests DEF ProfileSignOut
  <2> HIDE DEF r
  <2>2. Plain'
    BY <1>7, <1>9, <2>1 DEF Plain, PlainViews, Routes, Screens
  <2>3. Asked(r)'
    BY <2>1, <2>2 DEF Asked
  <2> QED BY <1>5, <2>1, <2>3
<1>16. CASE JoinRoomOverlay
  <2>1. Plain /\ UNCHANGED user /\ On("JoinRoom")
    BY <1>1, <1>3, <1>16 DEF JoinRoomOverlay
  <2>2. ASSUME NEW t \in {"join_room", "join_random"}, Click(stack, <<[type |-> t]>>)
        PROVE  OutOfRoom'
    <3> DEFINE r == [type |-> t]
    <3>1. r \in Request /\ r.type = t /\ Click(stack, <<r>>)
      BY <2>2, Requests
    <3> HIDE DEF r
    <3>2. Plain' /\ Agreed' /\ On("JoinRoom")'
      BY <1>6, <2>1, <3>1
    <3>3. Asked(r)'
      BY <3>1, <3>2 DEF Asked
    <3> QED BY <1>5, <3>1, <3>3
  <2> QED BY <1>4, <1>8, <1>16, <2>1, <2>2 DEF JoinRoomOverlay, Back, Send
<1>17. CASE LeaderboardOverlay
  <2>1. Plain
    BY <1>1, <1>3, <1>17 DEF LeaderboardOverlay
  <2> QED BY <1>4, <1>8, <1>17, <2>1 DEF LeaderboardOverlay, Back
<1>18. CASE SignInOverlay
  <2>1. UNCHANGED user /\ On("SignIn")
    BY <1>18 DEF SignInOverlay
  <2>2. Guest => stack = <<"Game", "GuestResult", "SignIn">>
    BY <2>1, GuestViews DEF Guest, GuestStacks, On, IsTop
  <2>3. /\ Guest => Popped(stack) \in GuestStacks
        /\ Guest => Append(stack, "CreateAccount") \in GuestStacks
    BY <2>2, GuestViews DEF GuestStacks
  <2>4. ASSUME NEW u \in Users, Click(stack, <<[type |-> "sign_in", user |-> u]>>)
        PROVE  OutOfRoom'
    <3> DEFINE r == [type |-> "sign_in", user |-> u]
    <3>1. r \in Request /\ r.type = "sign_in" /\ Click(stack, <<r>>)
      BY <2>4, Requests
    <3> HIDE DEF r
    <3>2. (Plain' \/ Guest') /\ Agreed' /\ On("SignIn")'
      BY <1>1, <1>6, <2>1, <3>1
    <3>3. Asked(r)'
      BY <3>1, <3>2 DEF Asked
    <3> QED BY <1>5, <3>1, <3>3
  <2>5. Plain => Append(stack, "CreateAccount") \in Seq(PlainViews)
    BY <1>7 DEF PlainViews, Routes, Overlays
  <2> QED BY <1>1, <1>4, <1>8, <1>18, <2>1, <2>3, <2>4, <2>5 DEF SignInOverlay, Back, Send, Push
<1>19. CASE CreateAccountOverlay
  <2>1. UNCHANGED user /\ On("CreateAccount")
    BY <1>19 DEF CreateAccountOverlay
  <2>2. Guest => Popped(stack) \in GuestStacks
    BY <2>1, GuestViews DEF Guest, GuestStacks, On, IsTop
  <2>3. ASSUME Click(stack, <<[type |-> "create_account"]>>)
        PROVE  OutOfRoom'
    <3> DEFINE r == [type |-> "create_account"]
    <3>1. r \in Request /\ r.type = "create_account" /\ Click(stack, <<r>>)
      BY <2>3, Requests
    <3> HIDE DEF r
    <3>2. (Plain' \/ Guest') /\ Agreed'
      BY <1>1, <1>6, <2>1, <3>1
    <3>3. On("CreateAccount")'
      BY <2>1, <3>1 DEF On, Click
    <3>4. Asked(r)'
      BY <3>1, <3>2, <3>3 DEF Asked
    <3> QED BY <1>5, <3>1, <3>4
  <2> QED BY <1>1, <1>4, <1>8, <1>19, <2>1, <2>2, <2>3 DEF CreateAccountOverlay, Back, Send
<1>20. CASE ChangePasswordOverlay
  <2>1. Plain /\ UNCHANGED user /\ On("ChangePassword")
    BY <1>1, <1>3, <1>20 DEF ChangePasswordOverlay
  <2>2. ASSUME Click(stack, <<[type |-> "change_password"]>>)
        PROVE  OutOfRoom'
    <3> DEFINE r == [type |-> "change_password"]
    <3>1. r \in Request /\ r.type = "change_password" /\ Click(stack, <<r>>)
      BY <2>2, Requests
    <3> HIDE DEF r
    <3>2. Plain' /\ Agreed'
      BY <1>6, <2>1, <3>1
    <3>3. On("ChangePassword")'
      BY <2>1, <3>1 DEF On, Click
    <3>4. Asked(r)'
      BY <3>1, <3>2, <3>3 DEF Asked
    <3> QED BY <1>5, <3>1, <3>4
  <2> QED BY <1>4, <1>8, <1>20, <2>1, <2>2 DEF ChangePasswordOverlay, Back, Send
<1>21. CASE GuestResultOverlay
  <2>1. Guest /\ UNCHANGED user /\ On("GuestResult")
    BY <1>1, <1>3, <1>21 DEF GuestResultOverlay, PlainViews
  <2>2. Append(stack, "SignIn") \in GuestStacks
    BY <2>1, GuestViews DEF Guest, GuestStacks, On, IsTop
  <2>3. <<"Title">> \in Seq(PlainViews)
    BY DEF PlainViews, Routes, Screens
  <2> QED BY <1>4, <1>21, <2>1, <2>2, <2>3 DEF GuestResultOverlay, Change, Push
<1>22. CASE UserResultOverlay
  <2>1. UNCHANGED user
    BY <1>22 DEF UserResultOverlay
  <2>2. <<"Title">> \in Seq(PlainViews)
    BY DEF PlainViews, Routes, Screens
  <2>3. ASSUME Click(<<"Title">>, <<[type |-> "start_training"]>>)
        PROVE  OutOfRoom'
    <3> DEFINE r == [type |-> "start_training"]
    <3>1. r \in Request /\ r.type = "start_training" /\ Click(<<"Title">>, <<r>>)
      BY <2>3, Requests
    <3> HIDE DEF r
    <3>2. Plain' /\ Agreed'
      BY <1>2, <1>9, <2>1, <2>2, <3>1 DEF Plain
    <3>3. Asked(r)'
      BY <3>1, <3>2 DEF Asked
    <3> QED BY <1>5, <3>1, <3>3
  <2> QED BY <1>4, <1>22, <2>1, <2>2, <2>3 DEF UserResultOverlay, Change
<1>23. CASE MatchResultOverlay
  <2>1. Plain
    BY <1>1, <1>3, <1>23 DEF MatchResultOverlay
  <2>2. PICK d \in {"ExitMenu", "ReturnLobby"} : deferred' = Append(deferred, d)
    BY <1>23 DEF MatchResultOverlay
  <2>3. deferred' = <<d>>
    BY <2>2 DEF Quiet
  <2>4. Len(<<d>>) = 1 /\ Head(<<d>>) = d
    OBVIOUS
  <2>5. UNCHANGED <<stack, user, toServer, inbox>>
    BY <1>23 DEF MatchResultOverlay, appState
  <2>6. Deferred(d)' /\ Agreed'
    BY <1>2, <2>1, <2>5 DEF Deferred, Plain
  <2>7. Deferring'
    BY <2>3, <2>4, <2>5, <2>6 DEF Deferring, Quiet
  <2> QED BY <1>2, <2>7 DEF OutOfRoom
<1> QED BY <1>10, <1>11, <1>12, <1>13, <1>14, <1>15, <1>16, <1>17, <1>18, <1>19, <1>20,
           <1>21, <1>22, <1>23 DEF UserActs

-----------------------------------------------------------------------------
(* The messages taken from the queue. *)

LEMMA PollArena ==
    ASSUME Inv, inbox \in Seq(ArenaMessage), PollEvent
    PROVE  /\ inbox' \in Seq(ArenaMessage)
           /\ UNCHANGED <<stack, toServer, user>>
           /\ \E d \in Seq(RoomActions) :
                 /\ deferred' = deferred \o d
                 /\ On("JoinRoom") \/ d \in Seq(Pushes)
                 /\ On("JoinRoom") /\ Head(inbox).type = "room_state" => d = <<"ToLobby">>
<1> DEFINE m == Head(inbox)
<1>1. inbox # <<>> /\ inbox' = Tail(inbox) /\ UNCHANGED <<stack, toServer>>
  BY DEF PollEvent
<1>2. m \in ArenaMessage /\ inbox' \in Seq(ArenaMessage)
  BY <1>1, HeadTailProperties
<1>3. /\ m.type \in {"room_state", "game_init", "game_end"}
      /\ m.type \in {"game_init", "game_end"} => ~m.game.training
  BY <1>2 DEF ArenaMessage, ArenaGame
<1> HIDE DEF m
<1>4. OnRoomState(m) \/ OnGameInit(m) \/ OnGameEnd(m)
  BY <1>3 DEF PollEvent, m, OnSignInResponse, OnCreateAccountResponse,
              OnChangePasswordResponse, OnLeaderboardResponse
<1>5. /\ <<>> \in Seq(Pushes) /\ <<>> \in Seq(RoomActions) /\ <<"ToLobby">> \in Seq(RoomActions)
      /\ \A x \in Pushes : <<x>> \in Seq(Pushes) /\ <<x>> \in Seq(RoomActions)
  BY DEF RoomActions
<1>6. CASE OnRoomState(m)
  <2>1. UNCHANGED user /\ deferred' = deferred \o (IF On("JoinRoom") THEN <<"ToLobby">> ELSE <<>>)
    BY <1>6 DEF OnRoomState, Defer
  <2>2. CASE On("JoinRoom")
    BY <1>1, <1>2, <1>5, <2>1, <2>2
  <2>3. CASE ~On("JoinRoom")
    BY <1>1, <1>2, <1>5, <2>1, <2>3
  <2> QED BY <2>2, <2>3
<1>7. CASE OnGameInit(m)
  <2>1. UNCHANGED user /\ deferred' = deferred \o <<"PushGame">> /\ m.type # "room_state"
    BY <1>3, <1>7 DEF OnGameInit, Defer
  <2>2. "PushGame" \in Pushes
    BY DEF Pushes
  <2> QED BY <1>1, <1>2, <1>5, <2>1, <2>2 DEF m
<1>8. CASE OnGameEnd(m)
  <2>1. UNCHANGED user /\ deferred' = deferred \o <<"PushMatchResult">> /\ m.type # "room_state"
    BY <1>3, <1>8 DEF OnGameEnd, Defer
  <2>2. "PushMatchResult" \in Pushes
    BY DEF Pushes
  <2> QED BY <1>1, <1>2, <1>5, <2>1, <2>2 DEF m
<1> QED BY <1>4, <1>6, <1>7, <1>8

LEMMA PollInRoom ==
    ASSUME Inv, InRoom, PollEvent, UNCHANGED <<srv, games>>
    PROVE  InRoom'
<1>1. /\ inbox \in Seq(ArenaMessage) /\ inbox' \in Seq(ArenaMessage)
      /\ UNCHANGED <<stack, toServer, user>>
  BY PollArena DEF InRoom
<1>2. PICK d \in Seq(RoomActions) :
         /\ deferred' = deferred \o d
         /\ On("JoinRoom") \/ d \in Seq(Pushes)
         /\ On("JoinRoom") /\ Head(inbox).type = "room_state" => d = <<"ToLobby">>
  BY <1>1, PollArena
<1>3. stack \in Seq(RoomViews) \/ stack \in Seq(AwayViews) => d \in Seq(Pushes)
  <2>1. "JoinRoom" \notin RoomViews /\ "JoinRoom" \notin AwayViews
    BY DEF RoomViews, AwayViews
  <2>2. stack \in Seq(RoomViews) \/ stack \in Seq(AwayViews) => ~On("JoinRoom")
    BY <2>1, TopIn DEF On
  <2> QED BY <1>2, <2>2
<1>4. \A q \in Seq(RoomActions) : q \o d \in Seq(RoomActions)
  BY ConcatProperties
<1>5. deferred \in Seq(Deferrable) /\ d \in Seq(Deferrable)
  BY DEF Inv, TypeOK, RoomActions, Pushes, Deferrable
<1>6. CASE Playing
  <2>1. Playing'
    BY <1>1, <1>2, <1>4, <1>6 DEF Playing
  <2> QED BY <1>1, <2>1 DEF InRoom, Agreed
<1>7. CASE MatchOver
  <2>1. /\ deferred' # <<>> /\ Head(deferred') = Head(deferred)
        /\ Tail(deferred') = Tail(deferred) \o d
    BY <1>2, <1>5, <1>7, HeadKept DEF MatchOver
  <2>2. Tail(deferred) \o d \in Seq(Pushes)
    BY <1>3, <1>7, ConcatProperties DEF MatchOver
  <2>3. MatchOver'
    BY <1>1, <1>7, <2>1, <2>2 DEF MatchOver
  <2> QED BY <1>1, <2>3 DEF InRoom, Agreed
<1>8. CASE Leaving
  <2>1. deferred' \in Seq(Pushes)
    BY <1>2, <1>3, <1>8, ConcatProperties DEF Leaving
  <2>2. Leaving'
    BY <1>1, <1>8, <2>1 DEF Leaving
  <2> QED BY <1>1, <2>2 DEF InRoom, Agreed
<1>9. CASE Arriving
  <2>1. deferred' \in Seq(RoomActions) /\ deferred' # <<>> /\ Head(deferred') = "ToLobby"
    <3>1. <<"ToLobby">> \in Seq(RoomActions) /\ <<"ToLobby">> # <<>> /\ Head(<<"ToLobby">>) = "ToLobby"
      BY DEF RoomActions
    <3>2. CASE deferred = <<>> /\ inbox # <<>> /\ Head(inbox).type = "room_state"
      <4>1. d = <<"ToLobby">> /\ deferred' = <<"ToLobby">>
        BY <1>2, <1>9, <3>2, ConcatEmptySeq DEF Arriving
      <4> QED BY <3>1, <4>1
    <3>3. CASE deferred \in Seq(RoomActions) /\ deferred # <<>> /\ Head(deferred) = "ToLobby"
      BY <1>2, <1>4, <3>3, HeadKept
    <3> QED BY <1>9, <3>2, <3>3 DEF Arriving
  <2>2. Arriving'
    BY <1>1, <1>9, <2>1 DEF Arriving, On
  <2> QED BY <1>1, <2>2 DEF InRoom, Agreed
<1> QED BY <1>6, <1>7, <1>8, <1>9 DEF InRoom

\* The action d is all that is under way.
LEMMA DeferredAlone ==
    ASSUME OutOfRoom, UNCHANGED <<srv, games>>, NEW d, Deferred(d)', Agreed',
           toServer' = <<>>, inbox' = <<>>, deferred' = <<d>>
    PROVE  OutOfRoom'
<1>1. Len(<<d>>) = 1 /\ Head(<<d>>) = d
  OBVIOUS
<1> QED BY <1>1 DEF OutOfRoom, Deferring

LEMMA PollOutOfRoom ==
    ASSUME Inv, OutOfRoom, PollEvent, UNCHANGED <<srv, games>>
    PROVE  OutOfRoom'
<1>1. inbox # <<>> /\ inbox' = Tail(inbox) /\ UNCHANGED <<stack, toServer>>
  BY DEF PollEvent
<1>2. CASE Left
  <2>1. /\ inbox' \in Seq(ArenaMessage) /\ UNCHANGED user
        /\ \E d \in Seq(RoomActions) :
              deferred' = deferred \o d /\ (On("JoinRoom") \/ d \in Seq(Pushes))
    BY <1>2, PollArena DEF Left
  <2>2. ~On("JoinRoom")
    BY <1>2, TopIn DEF Left, On, AwayViews
  <2>3. deferred' \in Seq(Pushes)
    BY <1>2, <2>1, <2>2, ConcatProperties DEF Left
  <2>4. Left'
    BY <1>1, <1>2, <2>1, <2>3 DEF Left, Agreed
  <2> QED BY <2>4 DEF OutOfRoom
<1>3. CASE Answering
  <2> DEFINE a == Head(inbox)
  <2>1. /\ inbox' = <<>> /\ toServer' = <<>> /\ a \in Message
        /\ \A d : deferred \o <<d>> = <<d>>
    BY <1>1, <1>3, Only, ConcatEmptySeq DEF Answering, Inv, TypeOK
  <2>2. Answered(a)
    BY <1>3 DEF Answering
  <2>3. \/ OnSignInResponse(a) \/ OnCreateAccountResponse(a) \/ OnChangePasswordResponse(a)
        \/ OnRoomState(a) \/ OnGameInit(a) \/ OnGameEnd(a) \/ OnLeaderboardResponse(a)
    BY DEF PollEvent
  <2> HIDE DEF a
  <2>4. CASE a.type = "create_account" /\ On("CreateAccount") /\ (Plain \/ Guest) /\ Agreed
    <3>1. deferred' = <<"PopCreateAccount">> /\ UNCHANGED appState
      BY <2>1, <2>3, <2>4 DEF OnSignInResponse, OnCreateAccountResponse, OnChangePasswordResponse,
             OnRoomState, OnGameInit, OnGameEnd, OnLeaderboardResponse, Defer
    <3>2. (Plain' \/ Guest') /\ Agreed'
      BY <1>1, <2>4, <3>1 DEF Plain, Guest, Played, Agreed, appState
    <3>3. On("CreateAccount")'
      BY <1>1, <2>4 DEF On
    <3>4. Deferred("PopCreateAccount")'
      BY <3>2, <3>3 DEF Deferred
    <3> QED BY <2>1, <3>1, <3>2, <3>4, DeferredAlone
  <2>5. CASE /\ a.type \in {"change_password", "leaderboard"} /\ Plain /\ Agreed
             /\ a.type = "change_password" => On("ChangePassword")
    <3>1. UNCHANGED appState
      BY <2>3, <2>5 DEF OnSignInResponse, OnCreateAccountResponse, OnChangePasswordResponse,
             OnRoomState, OnGameInit, OnGameEnd, OnLeaderboardResponse
    <3>2. Plain' /\ Agreed'
      BY <1>1, <2>5, <3>1 DEF Plain, Agreed, appState
    <3>3. /\ Deferred("PushLeaderboard")'
          /\ a.type = "change_password" => Deferred("PopChangePassword")'
      BY <1>1, <2>5, <3>2 DEF Deferred, On
    <3>4. \/ deferred' = <<"PushLeaderboard">>
          \/ a.type = "change_password" /\ deferred' = <<"PopChangePassword">>
      BY <2>1, <2>3, <2>5 DEF OnSignInResponse, OnCreateAccountResponse, OnChangePasswordResponse,
             OnRoomState, OnGameInit, OnGameEnd, OnLeaderboardResponse, Defer
    <3> QED BY <2>1, <3>2, <3>3, <3>4, DeferredAlone
  <2>6. CASE a.type = "sign_in" /\ On("SignIn") /\ (Plain \/ Guest) /\ a.user = srv.user
    <3>1. deferred' = <<"PopSignIn">> /\ user' = a.user /\ UNCHANGED <<gameInit, gameEnd>>
      BY <2>1, <2>3, <2>6 DEF OnSignInResponse, OnCreateAccountResponse, OnChangePasswordResponse,
             OnRoomState, OnGameInit, OnGameEnd, OnLeaderboardResponse, Defer
    <3>2. a.user # NoUser
      BY <2>1, <2>6, ClientAssumption DEF Message
    <3>3. (Plain' \/ Guest') /\ Agreed' /\ srv'.user # NoUser
      BY <1>1, <2>6, <3>1, <3>2 DEF Plain, Guest, Played, Agreed
    <3>4. On("SignIn")'
      BY <1>1, <2>6 DEF On
    <3>5. Deferred("PopSignIn")'
      BY <3>3, <3>4 DEF Deferred
    <3> QED BY <2>1, <3>1, <3>3, <3>5, DeferredAlone
  <2>7. CASE /\ a.type = "game_end" /\ a.game = gameInit /\ gameInit.training
             /\ stack = <<"Game">> /\ Agreed /\ (user = NoUser => Played(gameInit))
    <3>1. OnGameEnd(a) /\ gameEnd' = gameInit /\ UNCHANGED <<user, gameInit>>
      BY <2>3, <2>7 DEF OnSignInResponse, OnCreateAccountResponse, OnChangePasswordResponse,
             OnRoomState, OnGameInit, OnGameEnd, OnLeaderboardResponse
    <3>2. stack' = <<"Game">> /\ Agreed' /\ (user = NoUser => Played(gameInit)')
      BY <1>1, <2>7, <3>1 DEF Agreed, Played
    <3>3. CASE user = NoUser
      <4>1. deferred' = <<"PushGuestResult">>
        BY <2>1, <2>7, <3>1, <3>3 DEF OnGameEnd, Defer
      <4>2. Deferred("PushGuestResult")'
        BY <3>1, <3>2, <3>3 DEF Deferred
      <4> QED BY <2>1, <3>2, <4>1, <4>2, DeferredAlone
    <3>4. CASE user # NoUser
      <4>1. deferred' = <<"PushUserResult">>
        BY <2>1, <2>7, <3>1, <3>4 DEF OnGameEnd, Defer
      <4>2. Plain'
        BY <3>2 DEF Plain, PlainViews, Routes, Screens
      <4>3. Deferred("PushUserResult")'
        BY <4>2 DEF Deferred
      <4> QED BY <2>1, <3>2, <4>1, <4>3, DeferredAlone
    <3> QED BY <3>3, <3>4
  <2> QED BY <2>2, <2>4, <2>5, <2>6, <2>7 DEF Answered
<1> QED BY <1>1, <1>2, <1>3 DEF OutOfRoom, Idle, Quiet, Asking, Deferring

LEMMA PollTraining ==
    ASSUME Inv, Training, PollEvent, UNCHANGED <<srv, games>>
    PROVE  Training'
<1> DEFINE m == Head(inbox)
<1>1. inbox # <<>> /\ inbox' = Tail(inbox) /\ UNCHANGED <<stack, toServer>>
  BY DEF PollEvent
<1>2. toServer = <<>> /\ deferred = <<>> /\ Len(inbox) = 1 /\ m = GameInit(srv.training)
  BY <1>1 DEF Training, Quiet
<1>3. m.type = "game_init" /\ m.game = srv.training /\ m.game.training
  BY <1>2 DEF GameInit, Training, Played
<1>4. inbox' = <<>> /\ deferred \o <<"ToGame">> = <<"ToGame">>
  BY <1>1, <1>2, Only, ConcatEmptySeq DEF Inv, TypeOK
<1> HIDE DEF m
<1>5. OnGameInit(m)
  BY <1>3 DEF PollEvent, m, OnSignInResponse, OnCreateAccountResponse,
              OnChangePasswordResponse, OnRoomState, OnGameEnd, OnLeaderboardResponse
<1>6. gameInit' = srv.training /\ UNCHANGED user /\ deferred' = <<"ToGame">>
  BY <1>3, <1>4, <1>5 DEF OnGameInit, Defer
<1> QED BY <1>1, <1>2, <1>4, <1>6 DEF Training, Agreed, Played

-----------------------------------------------------------------------------
(* The deferred actions. *)

LEMMA RunInRoom ==
    ASSUME Inv, InRoom, RunDeferred, UNCHANGED <<srv, games>>
    PROVE  InRoom'
<1> DEFINE d == Head(deferred)
<1>1. deferred # <<>> /\ deferred' = Tail(deferred) /\ UNCHANGED inbox
  BY DEF RunDeferred
<1>2. RunNavigation(d) \/ RunPopSignIn(d) \/ RunExitMenu(d) \/ RunReturnLobby(d)
  BY DEF RunDeferred
<1>3. /\ <<"Lobby">> \in Seq(RoomViews) /\ <<"Title">> \in Seq(AwayViews)
      /\ \A S : \A s \in Seq(S) :
            {"Game", "MatchResult"} \subseteq S =>
               Append(s, "Game") \in Seq(S) /\ Append(s, "MatchResult") \in Seq(S)
  BY AppendProperties DEF RoomViews, AwayViews
<1>4. {"Game", "MatchResult"} \subseteq RoomViews /\ {"Game", "MatchResult"} \subseteq AwayViews
  BY DEF RoomViews, AwayViews
<1>5. \A S : deferred \in Seq(S) => d \in S /\ Tail(deferred) \in Seq(S)
  BY <1>1, HeadTailProperties
<1> HIDE DEF d
<1>6. /\ d = "ToLobby" => Navigate(<<"Lobby">>)
      /\ d = "PushGame" => Navigate(Append(stack, "Game"))
      /\ d = "PushMatchResult" => Navigate(Append(stack, "MatchResult"))
      /\ d = "ExitMenu" => RunExitMenu(d)
      /\ d = "ReturnLobby" => RunReturnLobby(d)
  BY <1>2 DEF RunNavigation, RunPopSignIn, RunExitMenu, RunReturnLobby
<1>7. CASE Playing
  <2>1. d \in RoomActions /\ deferred' \in Seq(RoomActions) /\ stack \in Seq(RoomViews)
    BY <1>1, <1>5, <1>7 DEF Playing
  <2>2. stack' \in Seq(RoomViews) /\ UNCHANGED <<appState, toServer>>
    BY <1>3, <1>4, <1>6, <2>1 DEF Navigate, RoomActions, Pushes
  <2>3. Playing'
    BY <1>7, <2>1, <2>2 DEF Playing
  <2> QED BY <1>1, <2>2, <2>3 DEF InRoom, Agreed, appState
<1>8. CASE MatchOver
  <2>1. d \in {"ExitMenu", "ReturnLobby"} /\ deferred' \in Seq(Pushes) /\ toServer = <<>>
    BY <1>1, <1>8 DEF MatchOver, d
  <2>2. CASE d = "ExitMenu"
    <3> DEFINE r == [type |-> "exit_room"]
    <3>1. stack' = <<"Title">> /\ toServer' = <<r>> /\ UNCHANGED user
      BY <1>6, <2>1, <2>2 DEF RunExitMenu
    <3>2. r.type = "exit_room"
      OBVIOUS
    <3> HIDE DEF r
    <3>3. Len(<<r>>) = 1 /\ Head(<<r>>) = r
      OBVIOUS
    <3>4. Leaving'
      BY <1>3, <2>1, <3>1, <3>2, <3>3 DEF Leaving
    <3> QED BY <1>1, <3>1, <3>4 DEF InRoom, Agreed
  <2>3. CASE d = "ReturnLobby"
    <3>1. stack' = Popped(Popped(stack)) /\ UNCHANGED <<user, toServer>>
      BY <1>6, <2>3 DEF RunReturnLobby
    <3>2. stack' \in Seq(RoomViews)
      BY <1>8, <3>1, PoppedType DEF MatchOver
    <3>3. deferred' \in Seq(RoomActions)
      BY <2>1 DEF RoomActions
    <3>4. Playing'
      BY <2>1, <3>1, <3>2, <3>3 DEF Playing
    <3> QED BY <1>1, <3>1, <3>4 DEF InRoom, Agreed
  <2> QED BY <2>1, <2>2, <2>3
<1>9. CASE Leaving
  <2>1. d \in Pushes /\ deferred' \in Seq(Pushes) /\ stack \in Seq(AwayViews)
    BY <1>1, <1>5, <1>9 DEF Leaving
  <2>2. stack' \in Seq(AwayViews) /\ UNCHANGED <<appState, toServer>>
    BY <1>3, <1>4, <1>6, <2>1 DEF Navigate, Pushes
  <2>3. Leaving'
    BY <1>9, <2>1, <2>2 DEF Leaving
  <2> QED BY <1>1, <2>2, <2>3 DEF InRoom, Agreed, appState
<1>10. CASE Arriving
  <2>1. d = "ToLobby" /\ deferred \in Seq(RoomActions) /\ toServer = <<>>
    BY <1>1, <1>10 DEF Arriving, d
  <2>2. stack' = <<"Lobby">> /\ UNCHANGED <<appState, toServer>> /\ deferred' \in Seq(RoomActions)
    BY <1>1, <1>5, <1>6, <2>1 DEF Navigate
  <2>3. Playing'
    BY <1>3, <2>1, <2>2 DEF Playing
  <2> QED BY <1>1, <2>2, <2>3 DEF InRoom, Agreed, appState
<1> QED BY <1>7, <1>8, <1>9, <1>10 DEF InRoom

LEMMA RunOutOfRoom ==
    ASSUME Inv, OutOfRoom, RunDeferred, UNCHANGED <<srv, games>>
    PROVE  OutOfRoom'
<1> DEFINE d == Head(deferred)
<1>1. /\ deferred # <<>> /\ deferred' = Tail(deferred) /\ UNCHANGED inbox
      /\ UNCHANGED user
  BY DEF RunDeferred, RunNavigation, Navigate, RunPopSignIn, RunExitMenu, RunReturnLobby, appState
<1>2. RunNavigation(d) \/ RunPopSignIn(d) \/ RunExitMenu(d) \/ RunReturnLobby(d)
  BY DEF RunDeferred
<1>3. CASE Left
  <2>1. d \in Pushes /\ deferred' \in Seq(Pushes)
    BY <1>1, <1>3, HeadTailProperties DEF Left
  <2> HIDE DEF d
  <2>2. stack' \in {Append(stack, "Game"), Append(stack, "MatchResult")} /\ UNCHANGED <<appState, toServer>>
    BY <1>2, <2>1 DEF RunNavigation, Navigate, RunPopSignIn, RunExitMenu, RunReturnLobby, Pushes
  <2>3. stack' \in Seq(AwayViews)
    BY <1>3, <2>2, AppendProperties DEF Left, AwayViews
  <2>4. Left'
    BY <1>1, <1>3, <2>1, <2>2, <2>3 DEF Left, Agreed
  <2> QED BY <2>4 DEF OutOfRoom
<1>4. CASE Deferring
  <2>1. toServer = <<>> /\ inbox' = <<>> /\ deferred' = <<>> /\ Agreed' /\ Deferred(d)
    BY <1>1, <1>4, Only DEF Deferring, Agreed, Inv, TypeOK
  <2>2. toServer' = <<>> /\ (Plain' \/ Guest') => OutOfRoom'
    BY <2>1 DEF OutOfRoom, Idle, Quiet
  <2>3. ASSUME NEW r \in Request, toServer' = <<r>>, Asked(r)'
        PROVE  OutOfRoom'
    <3>1. Len(toServer') = 1 /\ Head(toServer') = r
      BY <2>3
    <3>2. Asking'
      BY <2>1, <2>3, <3>1 DEF Asking
    <3> QED BY <3>2 DEF OutOfRoom
  <2>4. \A s \in Seq(PlainViews), route \in PlainViews :
            Popped(s) \in Seq(PlainViews) /\ Append(s, route) \in Seq(PlainViews)
    BY PoppedType, AppendProperties
  <2>5. /\ <<"Title">> \in Seq(PlainViews) /\ <<"Game">> \in Seq(PlainViews)
        /\ {"Leaderboard", "UserResult"} \subseteq PlainViews
    BY DEF PlainViews, Routes, Screens, Overlays
  <2>6. Guest => Popped(stack) \in GuestStacks \cup {<<"Game">>}
    BY GuestViews DEF Guest, GuestStacks
  <2>7. Played(gameInit) /\ UNCHANGED gameInit => Played(gameInit)'
    BY DEF Played
  <2> HIDE DEF d
  <2>8. CASE d = "PopCreateAccount" /\ (Plain \/ Guest)
    <3>1. stack' = Popped(stack) /\ UNCHANGED <<toServer, gameInit, gameEnd>>
      BY <1>2, <2>8 DEF RunNavigation, Navigate, RunPopSignIn, RunExitMenu, RunReturnLobby, appState
    <3>2. Plain' \/ Guest'
      BY <2>4, <2>5, <2>6, <2>7, <2>8, <3>1 DEF Plain, Guest
    <3> QED BY <2>1, <2>2, <3>1, <3>2
  <2>9. CASE d \in {"PopChangePassword", "PushLeaderboard", "PushUserResult", "ReturnLobby"} /\ Plain
    <3>1. /\ stack' \in {Popped(stack), Popped(Popped(stack)), Append(stack, "Leaderboard"),
                         Append(stack, "UserResult")}
          /\ UNCHANGED toServer
      BY <1>2, <2>9 DEF RunNavigation, Navigate, RunPopSignIn, RunExitMenu, RunReturnLobby
    <3>2. Plain'
      BY <2>4, <2>5, <2>9, <3>1 DEF Plain
    <3> QED BY <2>1, <2>2, <3>1, <3>2
  <2>10. CASE d = "ExitMenu" /\ Plain
    <3> DEFINE r == [type |-> "exit_room"]
    <3>1. stack' = <<"Title">> /\ toServer' = <<r>>
      BY <1>2, <2>1, <2>10 DEF RunNavigation, RunPopSignIn, RunExitMenu, RunReturnLobby
    <3>2. r \in Request /\ r.type = "exit_room"
      BY Requests
    <3> HIDE DEF r
    <3>3. Plain'
      BY <2>5, <3>1 DEF Plain
    <3>4. Asked(r)'
      BY <2>1, <3>2, <3>3 DEF Asked
    <3> QED BY <2>3, <3>1, <3>2, <3>4
  <2>11. CASE d = "PopSignIn" /\ (Plain \/ Guest) /\ srv.user # NoUser
    <3> DEFINE s == Popped(stack)
    <3>1. RunPopSignIn(d) /\ UNCHANGED <<gameInit, gameEnd>>
      BY <1>2, <2>11 DEF RunNavigation, RunPopSignIn, RunExitMenu, RunReturnLobby, appState
    <3>2. CASE ~IsTop(s, "GuestResult")
      <4>1. stack' = s /\ UNCHANGED toServer
        BY <3>1, <3>2 DEF RunPopSignIn
      <4>2. Plain' \/ Guest'
        BY <2>4, <2>5, <2>6, <2>7, <2>11, <3>1, <4>1 DEF Plain, Guest
      <4> QED BY <2>1, <2>2, <4>1, <4>2
    <3>3. CASE IsTop(s, "GuestResult")
      <4>1. "GuestResult" \notin PlainViews
        BY DEF PlainViews
      <4>2. ~Plain
        BY <2>4, <3>3, <4>1, PoppedType, TopIn DEF Plain
      <4>3. Guest /\ s = <<"Game", "GuestResult">>
        <5>1. Guest
          BY <2>11, <4>2
        <5>2. s \in {<<"Game">>, <<"Game", "GuestResult">>, <<"Game", "GuestResult", "SignIn">>}
          BY <5>1, GuestViews DEF Guest, GuestStacks
        <5> QED BY <3>3, <5>1, <5>2, GuestViews DEF IsTop
      <4>4. ReplacedTop(s, "UserResult") = Append(<<"Game">>, "UserResult")
        BY <4>3, GuestViews DEF ReplacedTop
      <4>5. Played(gameInit) /\ gameEnd = gameInit /\ gameInit # NoGame
        BY <4>3 DEF Guest, Played, NoGame
      <4>6. PICK r \in Request :
               r = [type |-> "save_training_result", init |-> gameInit, end |-> gameEnd]
        BY Requests DEF Inv, TypeOK
      <4>7. stack' = ReplacedTop(s, "UserResult") /\ toServer' = <<r>>
        BY <2>1, <3>1, <3>3, <4>5, <4>6 DEF RunPopSignIn
      <4>8. Plain'
        BY <2>4, <2>5, <4>4, <4>7 DEF Plain
      <4>9. r.type = "save_training_result" /\ r.init = gameInit /\ r.end = gameEnd
        BY <4>6
      <4> HIDE DEF s
      <4>10. r.init = r.end /\ Played(r.end)' /\ srv'.user # NoUser
        BY <2>11, <4>5, <4>9 DEF Played
      <4>11. Asked(r)'
        BY <2>1, <4>8, <4>9, <4>10 DEF Asked
      <4> QED BY <2>3, <4>7, <4>11
    <3> QED BY <3>2, <3>3
  <2>12. CASE d = "PushGuestResult" /\ stack = <<"Game">> /\ gameEnd = gameInit /\ Played(gameInit)
    <3>1. stack' = Append(stack, "GuestResult") /\ UNCHANGED <<toServer, gameInit, gameEnd>>
      BY <1>2, <2>12 DEF RunNavigation, Navigate, RunPopSignIn, RunExitMenu, RunReturnLobby, appState
    <3>2. stack' = <<"Game", "GuestResult">>
      BY <2>12, <3>1, GuestViews
    <3>3. Guest'
      BY <2>7, <2>12, <3>1, <3>2 DEF Guest, GuestStacks
    <3> QED BY <2>1, <2>2, <3>1, <3>3
  <2> QED BY <2>1, <2>8, <2>9, <2>10, <2>11, <2>12 DEF Deferred
<1> QED BY <1>1, <1>3, <1>4 DEF OutOfRoom, Idle, Quiet, Asking, Answering

LEMMA RunTraining ==
    ASSUME Inv, Training, RunDeferred, UNCHANGED <<srv, games>>
    PROVE  Training'
<1> DEFINE d == Head(deferred)
<1>1. /\ deferred # <<>> /\ deferred' = Tail(deferred) /\ UNCHANGED inbox
      /\ RunNavigation(d) \/ RunPopSignIn(d) \/ RunExitMenu(d) \/ RunReturnLobby(d)
  BY DEF RunDeferred
<1>2. toServer = <<>> /\ inbox = <<>> /\ deferred = <<"ToGame">> /\ gameInit = srv.training
  BY <1>1 DEF Training, Quiet
<1>3. d = "ToGame" /\ deferred' = <<>>
  BY <1>1, <1>2
<1> HIDE DEF d
<1>4. stack' = <<"Game">> /\ UNCHANGED <<appState, toServer>>
  BY <1>1, <1>3 DEF RunNavigation, Navigate, RunPopSignIn, RunExitMenu, RunReturnLobby
<1> QED BY <1>1, <1>2, <1>3, <1>4 DEF Training, Quiet, Agreed, Played, appState

-----------------------------------------------------------------------------
(* The steps of the server and of the other players. *)

LEMMA ArenaMessages ==
    /\ NoGame \in ArenaGame /\ ArenaGame \subseteq Game
    /\ \A s \in ServerState : RoomState(s) \in ArenaMessage
    /\ \A g \in ArenaGame : GameInit(g) \in ArenaMessage /\ GameEnd(g) \in ArenaMessage
BY DEF ArenaGame, ArenaMessage, NoGame, Game, RoomState, RoomStateOf, RoomStateMsg, ServerState,
       GameInit, GameEnd

\* In the room the messages of the room are added, and a request may be handled.
LEMMA RoomServed ==
    ASSUME Inv, InRoom, SavedPast, ClientUnchanged,
           UNCHANGED toServer \/ (Playing /\ toServer' = <<>>),
           games' \in Nat, games' >= games,
           NEW s \in ServerState, NEW ms \in Seq(ArenaMessage), Answer(s, ms),
           s.in /\ s.user = srv.user /\ s.training = srv.training /\ s.saved = srv.saved,
           s.game \in ArenaGame
    PROVE  InRoom' /\ SavedPast'
<1>1. srv' = s /\ inbox' = inbox \o ms /\ UNCHANGED <<stack, deferred, user>>
  BY DEF Answer, ClientUnchanged, appState
<1>2. inbox \in Seq(ArenaMessage) /\ inbox' \in Seq(ArenaMessage)
  BY <1>1, ConcatProperties DEF InRoom
<1>3. inbox # <<>> => inbox' # <<>> /\ Head(inbox') = Head(inbox)
  BY <1>1, <1>2, HeadKept
<1>4. Playing => Playing'
  BY <1>1 DEF Playing
<1>5. UNCHANGED toServer =>
          /\ MatchOver => MatchOver'
          /\ Leaving => Leaving'
          /\ Arriving => Arriving'
  BY <1>1, <1>3 DEF MatchOver, Leaving, Arriving, On
<1>6. InRoom'
  BY <1>1, <1>2, <1>4, <1>5 DEF InRoom, Agreed
<1>7. SavedPast'
  BY <1>1 DEF SavedPast, Inv, TypeOK, ServerState
<1> QED BY <1>6, <1>7

LEMMA RoomStartGame ==
    ASSUME Inv, InRoom, SavedPast, ClientUnchanged, StartGame,
           UNCHANGED toServer \/ (Playing /\ toServer' = <<>>)
    PROVE  InRoom' /\ SavedPast'
<1> DEFINE g == NextGame(FALSE)
           s == [srv EXCEPT !.game = g]
<1>1. g \in ArenaGame /\ games' \in Nat /\ games' >= games /\ Answer(s, <<GameInit(g)>>)
  BY DEF StartGame, NextGame, ArenaGame, Inv, TypeOK
<1>2. srv \in ServerState /\ srv.in
  BY DEF Inv, TypeOK, InRoom
<1> HIDE DEF g
<1>3. g \in Game /\ <<GameInit(g)>> \in Seq(ArenaMessage)
  BY <1>1, ArenaMessages
<1>4. /\ s \in ServerState /\ s.in = srv.in /\ s.user = srv.user /\ s.training = srv.training
      /\ s.saved = srv.saved /\ s.game = g
  BY <1>2, <1>3 DEF ServerState
<1> HIDE DEF s
<1> QED BY <1>1, <1>2, <1>3, <1>4, RoomServed

LEMMA RoomEndGame ==
    ASSUME Inv, InRoom, SavedPast, ClientUnchanged, EndArenaGame, UNCHANGED games,
           UNCHANGED toServer \/ (Playing /\ toServer' = <<>>)
    PROVE  InRoom' /\ SavedPast'
<1> DEFINE s == [srv EXCEPT !.game = NoGame, !.ready = FALSE, !.others = FALSE]
           ms == <<GameEnd(srv.game), RoomState(s)>>
<1>1. srv \in ServerState /\ srv.game \in ArenaGame /\ games' \in Nat /\ games' >= games
  BY DEF Inv, TypeOK, InRoom
<1>2. /\ s \in ServerState /\ s.in = srv.in /\ s.user = srv.user /\ s.training = srv.training
      /\ s.saved = srv.saved /\ s.game = NoGame
  BY <1>1, ArenaMessages DEF ServerState
<1>3. ms \in Seq(ArenaMessage) /\ Answer(s, ms)
  BY <1>1, <1>2, ArenaMessages DEF EndArenaGame
<1> HIDE DEF s, ms
<1> QED BY <1>1, <1>2, <1>3, ArenaMessages, RoomServed DEF InRoom

LEMMA ServerInRoom ==
    ASSUME Inv, InRoom, SavedPast, ServerHandles
    PROVE  (InRoom \/ OutOfRoom)' /\ SavedPast'
<1> DEFINE m == Head(toServer)
<1>1. /\ toServer # <<>> /\ toServer' = Tail(toServer) /\ ClientUnchanged
      /\ srv \in ServerState /\ games \in Nat /\ srv.in
  BY DEF ServerHandles, ClientUnchanged, Inv, TypeOK, InRoom
<1>2. (Playing \/ Leaving) /\ toServer' = <<>>
  BY <1>1, Only DEF InRoom, Playing, MatchOver, Leaving, Arriving, Inv, TypeOK
<1>3. CASE Playing
  <2>1. m.type \in RoomRequests
    BY <1>1, <1>3 DEF Playing
  <2> HIDE DEF m
  <2>2. \A s \in ServerState, ms \in Seq(ArenaMessage) :
            /\ Answer(s, ms) /\ UNCHANGED games
            /\ s.in = srv.in /\ s.user = srv.user /\ s.training = srv.training
            /\ s.saved = srv.saved /\ s.game = srv.game
            => InRoom' /\ SavedPast'
    <3>1. srv.game \in ArenaGame /\ (UNCHANGED games => games' \in Nat /\ games' >= games)
      BY <1>1 DEF InRoom
    <3> QED BY <1>1, <1>2, <1>3, <3>1, RoomServed
  <2>3. Ignore /\ UNCHANGED games => InRoom' /\ SavedPast'
    <3>1. <<>> \in Seq(ArenaMessage)
      OBVIOUS
    <3>2. Ignore => UNCHANGED <<srv, inbox>>
      BY DEF Ignore
    <3> QED BY <1>1, <1>2, <1>3, <3>1, <3>2
            DEF InRoom, Playing, SavedPast, Agreed, ClientUnchanged, appState
  <2>4. \A s \in ServerState : <<RoomState(s)>> \in Seq(ArenaMessage)
    BY ArenaMessages
  <2>5. CASE OnReady(m)
    <3> DEFINE s == [srv EXCEPT !.ready = (m.type = "ready")]
    <3>1. s \in ServerState /\ s.in = srv.in /\ s.user = srv.user /\ s.training = srv.training
          /\ s.saved = srv.saved /\ s.game = srv.game
      BY <1>1 DEF ServerState
    <3>2. Answer(s, <<RoomState(s)>>) /\ UNCHANGED games
      BY <1>1, <2>5 DEF OnReady
    <3> HIDE DEF s
    <3> QED BY <2>2, <2>4, <3>1, <3>2
  <2>6. CASE OnSetPrivate(m)
    <3>1. (Ignore \/ Answer(srv, <<RoomState(srv)>>)) /\ UNCHANGED games
      BY <2>6 DEF OnSetPrivate
    <3> QED BY <1>1, <2>2, <2>3, <2>4, <3>1
  <2>7. CASE OnStartGame(m)
    <3>1. StartGame \/ (Ignore /\ UNCHANGED games)
      BY <2>7 DEF OnStartGame
    <3> QED BY <1>1, <1>2, <1>3, <2>3, <3>1, RoomStartGame
  <2>8. CASE OnInput(m)
    <3>1. (Ignore \/ EndArenaGame) /\ UNCHANGED games
      BY <2>8 DEF OnInput, InRoom
    <3> QED BY <1>1, <1>2, <1>3, <2>3, <3>1, RoomEndGame
  <2>9. OnReady(m) \/ OnSetPrivate(m) \/ OnStartGame(m) \/ OnInput(m)
    BY <2>1 DEF ServerHandles, m, RoomRequests, OnSignIn, OnSignOut, OnCreateAccount,
         OnChangePassword, OnLeaderboard, OnCreateRoom, OnJoin, OnExitRoom, OnStartTraining,
         OnSaveTrainingResult
  <2> QED BY <2>5, <2>6, <2>7, <2>8, <2>9
<1>4. CASE Leaving
  <2>1. m.type = "exit_room"
    BY <1>4 DEF Leaving
  <2> HIDE DEF m
  <2>2. OnExitRoom(m)
    BY <2>1 DEF ServerHandles, m, OnSignIn, OnSignOut, OnCreateAccount,
         OnChangePassword, OnLeaderboard, OnCreateRoom, OnJoin, OnReady, OnSetPrivate,
         OnStartGame, OnStartTraining, OnInput, OnSaveTrainingResult
  <2> DEFINE s == [srv EXCEPT !.in = FALSE, !.host = FALSE, !.ready = FALSE, !.others = FALSE,
                              !.game = NoGame]
  <2>3. ~s.in /\ s.game = NoGame /\ s.training = srv.training /\ s.user = srv.user
        /\ s.saved = srv.saved
    BY <1>1 DEF ServerState
  <2>4. srv' = s /\ inbox' = inbox \o <<>> /\ UNCHANGED games
    BY <2>2 DEF OnExitRoom, Answer
  <2>5. inbox' = inbox
    BY <2>4, ConcatEmptySeq DEF Inv, TypeOK
  <2> HIDE DEF s
  <2>6. Left'
    BY <1>1, <1>2, <1>4, <2>3, <2>4, <2>5
       DEF Leaving, Left, InRoom, Agreed, ClientUnchanged, appState
  <2>7. OutOfRoom'
    BY <2>3, <2>4, <2>6 DEF OutOfRoom, InRoom
  <2>8. SavedPast'
    BY <2>3, <2>4 DEF SavedPast
  <2> QED BY <2>7, <2>8
<1> QED BY <1>2, <1>3, <1>4

LEMMA OthersInRoom ==
    ASSUME Inv, InRoom, SavedPast, OthersAct
    PROVE  InRoom' /\ SavedPast'
<1>1. ClientUnchanged /\ UNCHANGED toServer /\ srv \in ServerState /\ games \in Nat /\ srv.in
  BY DEF OthersAct, ClientUnchanged, Inv, TypeOK
<1>2. CASE OthersChange
  <2> PICK host \in {srv.host, TRUE}, others \in BOOLEAN :
          LET s == [srv EXCEPT !.host = host, !.others = others]
          IN  Answer(s, <<RoomState(s)>>)
    BY <1>2 DEF OthersChange
  <2> DEFINE s == [srv EXCEPT !.host = host, !.others = others]
  <2>1. /\ s \in ServerState /\ Answer(s, <<RoomState(s)>>) /\ UNCHANGED games
        /\ s.in = srv.in /\ s.user = srv.user /\ s.training = srv.training
        /\ s.saved = srv.saved /\ s.game = srv.game
    BY <1>1, <1>2 DEF ServerState, OthersChange
  <2> HIDE DEF s
  <2>2. <<RoomState(s)>> \in Seq(ArenaMessage)
    BY <2>1, ArenaMessages
  <2>3. srv.game \in ArenaGame /\ games' \in Nat /\ games' >= games
    BY <1>1, <2>1 DEF InRoom
  <2> QED BY <1>1, <2>1, <2>2, <2>3, RoomServed
<1>3. CASE OthersStart
  BY <1>1, <1>3, RoomStartGame DEF OthersStart
<1>4. CASE OthersEnd
  BY <1>1, <1>4, RoomEndGame DEF OthersEnd
<1> QED BY <1>2, <1>3, <1>4 DEF OthersAct

LEMMA NextGames ==
    ASSUME games \in Nat
    PROVE  /\ NextGame(FALSE) \in ArenaGame
           /\ NextGame(TRUE) \in Game /\ NextGame(TRUE).training /\ NextGame(TRUE).id = games + 1
BY DEF NextGame, ArenaGame, Game

\* A request of a client out of the room whose answer is a.
LEMMA AnsweredAlone ==
    ASSUME OutOfRoom, Asking, ClientUnchanged, UNCHANGED games,
           NEW s, s.in = srv.in, s.game = srv.game, s.training = srv.training, s.saved = srv.saved,
           NEW a \in Message, Answer(s, <<a>>), Answered(a)', toServer' = <<>>
    PROVE  OutOfRoom'
<1>1. srv' = s /\ inbox' = <<a>> /\ deferred' = <<>>
  BY ConcatEmptySeq DEF Answer, Asking, ClientUnchanged
<1>2. Len(<<a>>) = 1 /\ Head(<<a>>) = a
  OBVIOUS
<1>3. Answering'
  BY <1>1, <1>2 DEF Answering
<1> QED BY <1>1, <1>3 DEF OutOfRoom

LEMMA ServerOutOfRoom ==
    ASSUME Inv, OutOfRoom, SavedPast, ServerHandles
    PROVE  (InRoom \/ OutOfRoom \/ Training)' /\ SavedPast'
<1> DEFINE m == Head(toServer)
<1>1. /\ toServer # <<>> /\ toServer' = Tail(toServer) /\ ClientUnchanged
      /\ srv \in ServerState /\ games \in Nat
  BY DEF ServerHandles, ClientUnchanged, Inv, TypeOK
<1>2. Asking
  BY <1>1 DEF OutOfRoom, Left, Idle, Quiet, Answering, Deferring
<1>3. m \in Request /\ toServer' = <<>> /\ Asked(m) /\ inbox = <<>> /\ deferred = <<>>
  BY <1>2, <1>1, Only DEF Asking, Inv, TypeOK
<1>4. /\ ~srv.in /\ srv.game = NoGame /\ srv.training = NoGame
      /\ UNCHANGED <<stack, deferred, user, gameInit, gameEnd>>
  BY <1>1 DEF OutOfRoom, ClientUnchanged, appState
<1>5. /\ m.type = "sign_in" => OnSignIn(m)
      /\ m.type = "sign_out" => OnSignOut(m)
      /\ m.type = "create_account" => OnCreateAccount(m)
      /\ m.type = "change_password" => OnChangePassword(m)
      /\ m.type = "leaderboard" => OnLeaderboard(m)
      /\ m.type = "create_room" => OnCreateRoom(m)
      /\ m.type \in {"join_room", "join_random"} => OnJoin(m)
      /\ m.type = "exit_room" => OnExitRoom(m)
      /\ m.type = "start_training" => OnStartTraining(m)
      /\ m.type = "input" => OnInput(m)
      /\ m.type = "save_training_result" => OnSaveTrainingResult(m)
  BY DEF ServerHandles, OnSignIn, OnSignOut, OnCreateAccount, OnChangePassword, OnLeaderboard,
         OnCreateRoom, OnJoin, OnExitRoom, OnReady, OnSetPrivate, OnStartGame, OnStartTraining,
         OnInput, OnSaveTrainingResult
<1> HIDE DEF m
<1>6. ASSUME NEW g, srv'.saved = srv.saved, games' = games, Played(g)
      PROVE  Played(g)'
  BY <1>6 DEF Played
<1>7. ASSUME srv'.saved = srv.saved, games' = games
      PROVE  (Plain \/ Guest => (Plain \/ Guest)') /\ SavedPast'
  <2>1. Guest => Guest'
    BY <1>4, <1>7 DEF Guest, Played
  <2> QED BY <1>4, <1>7, <2>1 DEF Plain, SavedPast
<1>8. ASSUME ~srv'.in, srv'.game = NoGame, srv'.training = NoGame, inbox' = <<>>,
             user = srv'.user, (Plain \/ Guest)'
      PROVE  OutOfRoom'
  BY <1>3, <1>4, <1>8 DEF OutOfRoom, Idle, Quiet, Agreed
<1>9. ASSUME Ignore, UNCHANGED games, Plain \/ Guest, Agreed
      PROVE  OutOfRoom' /\ SavedPast'
  BY <1>3, <1>4, <1>7, <1>8, <1>9 DEF Ignore, Agreed
<1>10. ASSUME NEW s, Answer(s, <<>>)
       PROVE  srv' = s /\ inbox' = <<>>
  BY <1>3, <1>10, ConcatEmptySeq DEF Answer
<1>11. CASE m.type \in {"change_password", "leaderboard", "create_account"} /\ (Plain \/ Guest) /\ Agreed
            /\ (m.type # "create_account" => Plain)
            /\ (m.type = "create_account" => On("CreateAccount"))
            /\ (m.type = "change_password" => On("ChangePassword"))
  <2>1. PICK a \in Message : a = [type |-> m.type]
    BY <1>11, Messages
  <2>2. (Ignore \/ Answer(srv, <<a>>)) /\ UNCHANGED games
    BY <1>5, <1>11, <2>1 DEF OnCreateAccount, OnChangePassword, OnLeaderboard
  <2>3. CASE Answer(srv, <<a>>)
    <3>1. srv' = srv /\ a.type \in {"change_password", "leaderboard", "create_account"}
          /\ (a.type # "create_account" => Plain)
          /\ (a.type = "create_account" => On("CreateAccount")')
          /\ (a.type = "change_password" => On("ChangePassword")')
      BY <1>4, <1>11, <2>1, <2>3 DEF Answer, On
    <3>2. Agreed' /\ (Plain \/ Guest)' /\ (Plain => Plain') /\ SavedPast'
      BY <1>4, <1>7, <1>11, <2>2, <3>1 DEF Agreed, Plain
    <3>3. Answered(a)'
      BY <3>1, <3>2 DEF Answered
    <3> QED BY <1>1, <1>2, <1>3, <2>2, <2>3, <3>2, <3>3, AnsweredAlone
  <2> QED BY <1>9, <1>11, <2>2, <2>3
<1>12. CASE m.type = "sign_in" /\ On("SignIn") /\ (Plain \/ Guest) /\ Agreed
  <2> DEFINE s == [srv EXCEPT !.user = m.user]
  <2>1. PICK a \in Message : a = [type |-> "sign_in", user |-> m.user]
    BY <1>3, <1>12, Messages DEF Request
  <2>2. (Ignore \/ Answer(s, <<a>>)) /\ UNCHANGED games
    BY <1>5, <1>12, <2>1 DEF OnSignIn
  <2>3. s.in = srv.in /\ s.game = srv.game /\ s.training = srv.training /\ s.saved = srv.saved
        /\ s.user = m.user
    BY <1>1 DEF ServerState
  <2> HIDE DEF s
  <2>4. CASE Answer(s, <<a>>)
    <3>1. srv' = s /\ a.type = "sign_in" /\ a.user = srv'.user
      BY <2>1, <2>3, <2>4 DEF Answer
    <3>2. (Plain \/ Guest)' /\ SavedPast'
      BY <1>7, <1>12, <2>2, <2>3, <3>1
    <3>3. On("SignIn")'
      BY <1>4, <1>12 DEF On
    <3>4. Answered(a)'
      BY <3>1, <3>2, <3>3 DEF Answered
    <3> QED BY <1>1, <1>2, <1>3, <2>2, <2>3, <2>4, <3>2, <3>4, AnsweredAlone
  <2> QED BY <1>9, <1>12, <2>2, <2>4
<1>13. CASE m.type = "sign_out" /\ Plain /\ user = NoUser
  <2> DEFINE s == [srv EXCEPT !.user = NoUser]
  <2>1. Answer(s, <<>>) /\ UNCHANGED games
    BY <1>5, <1>13 DEF OnSignOut
  <2>2. s.in = srv.in /\ s.game = srv.game /\ s.training = srv.training /\ s.saved = srv.saved
        /\ s.user = NoUser
    BY <1>1 DEF ServerState
  <2> HIDE DEF s
  <2>3. srv' = s /\ inbox' = <<>>
    BY <1>10, <2>1
  <2> QED BY <1>4, <1>7, <1>8, <1>13, <2>1, <2>2, <2>3
<1>14. CASE m.type = "create_room" /\ stack = <<"Lobby">> /\ Agreed
  <2> DEFINE s == [srv EXCEPT !.in = TRUE, !.host = TRUE]
  <2>1. Answer(s, <<RoomState(s)>>) /\ UNCHANGED games
    BY <1>4, <1>5, <1>14 DEF OnCreateRoom
  <2>2. s \in ServerState /\ s.in /\ s.game = srv.game /\ s.training = srv.training
        /\ s.saved = srv.saved /\ s.user = srv.user
    BY <1>1 DEF ServerState
  <2> HIDE DEF s
  <2>3. srv' = s /\ inbox' = <<RoomState(s)>>
    BY <1>3, <2>1, ConcatEmptySeq DEF Answer
  <2>4. <<RoomState(s)>> \in Seq(ArenaMessage) /\ NoGame \in ArenaGame
    BY <2>2, ArenaMessages
  <2>5. <<"Lobby">> \in Seq(RoomViews) /\ <<>> \in Seq(RoomActions)
    BY DEF RoomViews
  <2>6. Playing'
    BY <1>3, <1>4, <1>14, <2>5 DEF Playing
  <2>7. InRoom'
    BY <1>4, <1>14, <2>2, <2>3, <2>4, <2>6 DEF InRoom, Agreed
  <2> QED BY <1>7, <2>1, <2>2, <2>3, <2>7
<1>15. CASE m.type \in {"join_room", "join_random"} /\ On("JoinRoom") /\ Plain /\ Agreed
  <2>1. CASE Ignore /\ UNCHANGED games
    BY <1>9, <1>15, <2>1
  <2>2. CASE \E others \in BOOLEAN, running \in BOOLEAN :
                LET s == [srv EXCEPT !.in = TRUE, !.others = others,
                                     !.game = IF running THEN NextGame(FALSE) ELSE NoGame]
                IN  /\ games' = IF running THEN games + 1 ELSE games
                    /\ Answer(s, <<RoomState(s)>>)
    <3> PICK others \in BOOLEAN, running \in BOOLEAN :
                LET s == [srv EXCEPT !.in = TRUE, !.others = others,
                                     !.game = IF running THEN NextGame(FALSE) ELSE NoGame]
                IN  /\ games' = (IF running THEN games + 1 ELSE games)
                    /\ Answer(s, <<RoomState(s)>>)
      BY <2>2
    <3> DEFINE g == IF running THEN NextGame(FALSE) ELSE NoGame
               s == [srv EXCEPT !.in = TRUE, !.others = others, !.game = g]
    <3>1. g \in ArenaGame
      <4>1. NextGame(FALSE) \in ArenaGame /\ NoGame \in ArenaGame
        BY <1>1, NextGames, ArenaMessages
      <4> QED BY <4>1
    <3>2. games' \in Nat /\ games' >= games
      BY <1>1
    <3>3. Answer(s, <<RoomState(s)>>)
      OBVIOUS
    <3> HIDE DEF g
    <3>4. s \in ServerState /\ s.in /\ s.game = g /\ s.training = srv.training
          /\ s.saved = srv.saved /\ s.user = srv.user
      BY <1>1, <3>1, ArenaMessages DEF ServerState
    <3> HIDE DEF s
    <3>5. srv' = s /\ inbox' = <<RoomState(s)>>
      BY <1>3, <3>3, ConcatEmptySeq DEF Answer
    <3>6. <<RoomState(s)>> \in Seq(ArenaMessage) /\ RoomState(s).type = "room_state"
      BY <3>4, ArenaMessages DEF RoomState
    <3>7. inbox' # <<>> /\ Head(inbox').type = "room_state"
      BY <3>5, <3>6
    <3>8. Arriving'
      BY <1>3, <1>4, <1>15, <3>7 DEF Arriving, On
    <3>9. InRoom'
      BY <1>4, <1>15, <3>1, <3>4, <3>5, <3>6, <3>8 DEF InRoom, Agreed
    <3>10. SavedPast'
      BY <1>1, <3>2, <3>4, <3>5 DEF SavedPast, ServerState
    <3> QED BY <3>9, <3>10
  <2> QED BY <1>5, <1>15, <2>1, <2>2 DEF OnJoin
<1>16. CASE m.type = "exit_room" /\ Plain /\ Agreed
  <2> DEFINE s == [srv EXCEPT !.in = FALSE, !.host = FALSE, !.ready = FALSE, !.others = FALSE,
                              !.game = NoGame]
  <2>1. Answer(s, <<>>) /\ UNCHANGED games
    BY <1>5, <1>16 DEF OnExitRoom
  <2>2. ~s.in /\ s.game = NoGame /\ s.training = srv.training /\ s.saved = srv.saved
        /\ s.user = srv.user
    BY <1>1 DEF ServerState
  <2> HIDE DEF s
  <2>3. srv' = s /\ inbox' = <<>>
    BY <1>10, <2>1
  <2> QED BY <1>4, <1>7, <1>8, <1>16, <2>1, <2>2, <2>3 DEF Agreed
<1>17. CASE m.type = "start_training" /\ Plain /\ Agreed
  <2> DEFINE g == NextGame(TRUE)
             s == [srv EXCEPT !.training = g]
  <2>1. Answer(s, <<GameInit(g)>>) /\ games' = games + 1
    BY <1>5, <1>17 DEF OnStartTraining
  <2>2. g.training /\ g.id = games + 1 /\ GameInit(g) \in Message
    BY <1>1, NextGames, Messages
  <2> HIDE DEF g
  <2>3. ~s.in /\ s.game = NoGame /\ s.training = g /\ s.saved = srv.saved /\ s.user = srv.user
    BY <1>1, <1>4 DEF ServerState
  <2> HIDE DEF s
  <2>4. srv' = s /\ inbox' = <<GameInit(g)>>
    BY <1>3, <2>1, ConcatEmptySeq DEF Answer
  <2>5. Len(inbox') = 1 /\ Head(inbox') = GameInit(srv'.training)
    <3>1. Len(<<GameInit(g)>>) = 1 /\ Head(<<GameInit(g)>>) = GameInit(g)
      OBVIOUS
    <3> QED BY <2>3, <2>4, <3>1
  <2>6. srv.saved \in SUBSET Nat /\ \A i \in srv.saved : i <= games
    BY <1>1 DEF ServerState, SavedPast
  <2>7. games + 1 \notin srv.saved /\ \A i \in srv.saved : i <= games + 1
    BY <1>1, <2>6
  <2>8. Played(srv.training)' /\ SavedPast'
    BY <1>1, <2>1, <2>2, <2>3, <2>4, <2>7 DEF Played, SavedPast
  <2>9. Training'
    BY <1>3, <1>4, <1>17, <2>3, <2>4, <2>5, <2>8 DEF Training, Agreed
  <2> QED BY <2>8, <2>9
<1>18. CASE m.type = "input" /\ Plain /\ Agreed
  BY <1>4, <1>5, <1>9, <1>18 DEF OnInput
<1>19. CASE /\ m.type = "save_training_result"
            /\ m.init = m.end /\ Played(m.end) /\ srv.user # NoUser /\ Plain /\ Agreed
  <2> DEFINE saved == srv.saved \cup {m.end.id}
             s == [srv EXCEPT !.saved = saved]
  <2>0. (Ignore \/ Answer(s, <<>>)) /\ UNCHANGED games
    BY <1>5, <1>19 DEF OnSaveTrainingResult
  <2> SUFFICES ASSUME Answer(s, <<>>)
               PROVE  OutOfRoom' /\ SavedPast'
    BY <1>9, <1>19, <2>0
  <2>1. Answer(s, <<>>) /\ UNCHANGED games
    BY <2>0
  <2>2. s.in = srv.in /\ s.game = srv.game /\ s.training = srv.training /\ s.saved = saved
        /\ s.user = srv.user
    BY <1>1 DEF ServerState
  <2>3. \A i \in saved : i <= games
    BY <1>19 DEF SavedPast, Played
  <2> HIDE DEF s, saved
  <2>4. srv' = s /\ inbox' = <<>>
    BY <1>10, <2>1
  <2>5. Plain' /\ SavedPast'
    BY <1>4, <1>19, <2>1, <2>2, <2>3, <2>4 DEF Plain, SavedPast
  <2> QED BY <1>4, <1>8, <1>19, <2>2, <2>4, <2>5 DEF Agreed
<1> QED BY <1>3, <1>11, <1>12, <1>13, <1>14, <1>15, <1>16, <1>17, <1>18, <1>19 DEF Asked

LEMMA ServerTraining ==
    ASSUME Inv, Training, SavedPast, ServerHandles
    PROVE  (OutOfRoom \/ Training)' /\ SavedPast'
<1> DEFINE m == Head(toServer)
<1>1. /\ toServer # <<>> /\ toServer' = Tail(toServer) /\ ClientUnchanged
      /\ srv \in ServerState /\ games \in Nat
  BY DEF ServerHandles, ClientUnchanged, Inv, TypeOK
<1>2. /\ inbox = <<>> /\ deferred = <<>> /\ Len(toServer) = 1 /\ m.type = "input"
      /\ stack = <<"Game">> /\ gameInit = srv.training
      /\ ~srv.in /\ srv.game = NoGame /\ user = srv.user /\ Played(srv.training)
  BY <1>1 DEF Training, Quiet, Agreed
<1>3. toServer' = <<>> /\ UNCHANGED <<stack, deferred, user, gameInit, gameEnd>>
  BY <1>1, <1>2, Only DEF Inv, TypeOK, ClientUnchanged, appState
<1> HIDE DEF m
<1>4. OnInput(m)
  BY <1>2 DEF ServerHandles, m, OnSignIn, OnSignOut, OnCreateAccount,
       OnChangePassword, OnLeaderboard, OnCreateRoom, OnJoin, OnExitRoom, OnReady, OnSetPrivate,
       OnStartGame, OnStartTraining, OnSaveTrainingResult
<1>5. (Ignore \/ EndTraining) /\ UNCHANGED games
  BY <1>2, <1>4 DEF OnInput
<1>6. CASE Ignore
  <2>1. Quiet' /\ UNCHANGED <<srv, games>>
    BY <1>2, <1>3, <1>5, <1>6 DEF Ignore, Quiet
  <2>2. Training' /\ SavedPast'
    BY <1>2, <1>3, <2>1 DEF Training, Agreed, Played, SavedPast
  <2> QED BY <2>2
<1>7. CASE EndTraining
  <2> PICK saved \in {srv.saved, srv.saved \cup {srv.training.id}} :
             /\ srv.user = NoUser => saved = srv.saved
             /\ Answer([srv EXCEPT !.training = NoGame, !.saved = saved], <<GameEnd(srv.training)>>)
    BY <1>7 DEF EndTraining
  <2> DEFINE s == [srv EXCEPT !.training = NoGame, !.saved = saved]
  <2>1. Answer(s, <<GameEnd(srv.training)>>)
    OBVIOUS
  <2>2. /\ \A i \in saved : i <= games
        /\ srv.user = NoUser => saved = srv.saved
    BY <1>2 DEF SavedPast, Played
  <2>3. ~s.in /\ s.game = NoGame /\ s.training = NoGame /\ s.saved = saved /\ s.user = srv.user
    BY <1>1, <1>2 DEF ServerState
  <2> HIDE DEF s
  <2>4. PICK a \in Message : a = GameEnd(srv.training)
    BY <1>1, Messages DEF ServerState
  <2>5. srv' = s /\ inbox' = <<a>>
    BY <1>2, <2>1, <2>4, ConcatEmptySeq DEF Answer
  <2>6. a.type = "game_end" /\ a.game = gameInit /\ gameInit.training
    BY <1>2, <2>4 DEF GameEnd, Played
  <2>7. user = NoUser => Played(gameInit)'
    BY <1>2, <1>3, <1>5, <2>2, <2>3, <2>5 DEF Played
  <2>8. Answered(a)'
    BY <1>2, <1>3, <2>3, <2>5, <2>6, <2>7 DEF Answered, Agreed
  <2>9. Len(<<a>>) = 1 /\ Head(<<a>>) = a
    OBVIOUS
  <2>10. Answering'
    BY <1>2, <1>3, <2>5, <2>8, <2>9 DEF Answering
  <2>11. SavedPast'
    BY <1>5, <2>2, <2>3, <2>5 DEF SavedPast
  <2> QED BY <2>3, <2>5, <2>10, <2>11 DEF OutOfRoom
<1> QED BY <1>5, <1>6, <1>7

-----------------------------------------------------------------------------
LEMMA InitPatient == Init => Patient
<1> SUFFICES ASSUME Init
             PROVE  OutOfRoom /\ SavedPast
  BY DEF Patient
<1>1. Plain
  BY DEF Init, InitClient, Plain, PlainViews, Routes, Screens
<1>2. OutOfRoom
  BY <1>1 DEF Init, InitClient, OutOfRoom, Idle, Quiet, Agreed
<1> QED BY <1>2 DEF Init, SavedPast

LEMMA NextPatient == Inv /\ Patient /\ [Next]_vars => Patient'
<1> SUFFICES ASSUME Inv, Patient, [Next]_vars, haste' = 0
             PROVE  (InRoom \/ OutOfRoom \/ Training)' /\ SavedPast'
  BY DEF Patient
<1>1. haste = 0 /\ (UserActs => Quiet)
  <2>1. CountHaste => haste = 0 /\ Quiet
    BY DEF CountHaste, Inv, TypeOK
  <2>2. UserActs => CountHaste
    BY DEF UserActs, TitleScreen, LobbyReady, LobbyHost, LobbyExit, GameWord, GameEscape,
           ProfileScreen, ProfileSignOut, JoinRoomOverlay, LeaderboardOverlay, SignInOverlay,
           CreateAccountOverlay, ChangePasswordOverlay, GuestResultOverlay, UserResultOverlay,
           MatchResultOverlay, Push, Send, Change, Back, Click
  <2>3. PollEvent \/ RunDeferred \/ ServerHandles \/ OthersAct \/ UNCHANGED vars => UNCHANGED haste
    BY DEF PollEvent, RunDeferred, ServerHandles, OthersAct, vars, clientVars
  <2> QED BY <2>1, <2>2, <2>3 DEF Next, ClientNext
<1>2. SavedPast /\ (InRoom \/ OutOfRoom \/ Training)
  BY <1>1 DEF Patient
<1>3. UNCHANGED <<srv, games>> => SavedPast'
  BY <1>2 DEF SavedPast
<1>4. CASE UserActs /\ UNCHANGED <<srv, games>>
  BY <1>1, <1>2, <1>3, <1>4, UserInRoom, UserOutOfRoom, UserTrains
<1>5. CASE PollEvent /\ UNCHANGED <<srv, games>>
  BY <1>2, <1>3, <1>5, PollInRoom, PollOutOfRoom, PollTraining
<1>6. CASE RunDeferred /\ UNCHANGED <<srv, games>>
  BY <1>2, <1>3, <1>6, RunInRoom, RunOutOfRoom, RunTraining
<1>7. CASE ServerHandles
  BY <1>2, <1>7, ServerInRoom, ServerOutOfRoom, ServerTraining
<1>8. CASE OthersAct
  BY <1>2, <1>8, OthersInRoom DEF OthersAct, OutOfRoom, Training
<1>9. CASE UNCHANGED vars
  <2>1. UNCHANGED <<stack, deferred, user, gameInit, gameEnd, toServer, inbox, srv, games>>
    BY <1>9 DEF vars, clientVars, appState
  <2>2. InRoom => InRoom'
    BY <2>1 DEF InRoom, Playing, MatchOver, Leaving, Arriving, Agreed, On
  <2>3. OutOfRoom => OutOfRoom'
    <3>1. (Plain => Plain') /\ (Guest => Guest') /\ (Agreed => Agreed') /\ (\A route : On(route) => On(route)')
          /\ (\A g : Played(g) => Played(g)')
      BY <2>1 DEF Plain, Guest, Agreed, On, Played
    <3>2. (Left => Left') /\ (Idle => Idle')
      BY <2>1, <3>1 DEF Left, Idle, Quiet
    <3>3. Asking => Asking'
      BY <2>1, <3>1 DEF Asking, Asked, Played
    <3>4. Answering => Answering'
      BY <2>1, <3>1 DEF Answering, Answered, Played
    <3>5. Deferring => Deferring'
      BY <2>1, <3>1 DEF Deferring, Deferred, Played
    <3> QED BY <2>1, <3>2, <3>3, <3>4, <3>5 DEF OutOfRoom
  <2>4. Training => Training'
    BY <2>1 DEF Training, Quiet, Agreed, Played
  <2> QED BY <1>2, <1>3, <2>1, <2>2, <2>3, <2>4
<1> QED BY <1>4, <1>5, <1>6, <1>7, <1>8, <1>9 DEF Next, ClientNext

LEMMA PatientHolds == Spec => []Patient
BY InitInv, NextInv, InitPatient, NextPatient, PTL DEF Spec

LEMMA ShownIn ==
    ASSUME NEW S, stack \in Seq(S), NEW route, Shown(route)
    PROVE  route \in S
BY ElementOfSeq, LenProperties DEF Shown

\* A user who waits for what is under way stays in step with the server: once all
\* is quiet they agree on who is signed in, the lobby is on the screen only with
\* a seat, and the title screen and the profile only without one.
THEOREM InStepHolds == Spec => []InStep
<1>1. Inv /\ Patient => InStep
  <2> SUFFICES ASSUME Inv, Patient, haste = 0, Quiet
               PROVE  /\ user = srv.user
                      /\ Shown("Lobby") => srv.in
                      /\ Shown("Title") \/ Shown("Profile") => ~srv.in
    BY DEF InStep
  <2>1. /\ "Title" \notin RoomViews /\ "Profile" \notin RoomViews
        /\ "Lobby" \notin AwayViews /\ "Lobby" \notin PlainViews
    BY DEF RoomViews, AwayViews, PlainViews
  <2>2. CASE InRoom
    <3>1. stack \in Seq(RoomViews) /\ user = srv.user /\ srv.in
      BY <2>2 DEF InRoom, Playing, MatchOver, Leaving, Arriving, Agreed, Quiet
    <3>2. ~Shown("Title") /\ ~Shown("Profile")
      BY <2>1, <3>1, ShownIn
    <3> QED BY <3>1, <3>2
  <2>3. CASE OutOfRoom
    <3>1. user = srv.user /\ ~srv.in /\ (stack \in Seq(AwayViews) \/ Plain \/ Guest)
      BY <2>3 DEF OutOfRoom, Left, Idle, Asking, Answering, Deferring, Agreed, Quiet
    <3>2. Guest => ~Shown("Lobby")
      BY DEF Guest, GuestStacks, Shown
    <3>3. ~Shown("Lobby")
      BY <2>1, <3>1, <3>2, ShownIn DEF Plain
    <3> QED BY <3>1, <3>3
  <2>4. CASE Training
    <3>1. stack \in {<<"Game">>, <<>>} /\ user = srv.user /\ ~srv.in
      BY <2>4 DEF Training, Agreed, Quiet
    <3>2. ~Shown("Lobby")
      BY <3>1 DEF Shown
    <3> QED BY <3>1, <3>2
  <2> QED BY <2>2, <2>3, <2>4 DEF Patient
<1> QED BY <1>1, InvHolds, PatientHolds, PTL

\* Whoever waits for the answer to a form gets it on that form: the view the
\* answer's action closes is the one that asked.
THEOREM FormsAnsweredHolds == Spec => []FormsAnswered
<1> DEFINE Forms == {"PopSignIn", "PopCreateAccount", "PopChangePassword"}
<1>1. Inv /\ Patient => FormsAnswered
  <2> SUFFICES ASSUME Inv, Patient, haste = 0, deferred # <<>>
               PROVE  /\ Head(deferred) # "Pop"
                      /\ Head(deferred) \in Forms => On(FormOf(Head(deferred)))
    BY DEF FormsAnswered
  <2>1. /\ "Pop" \notin RoomActions \cup {"ExitMenu", "ReturnLobby"}
        /\ Forms \cap (RoomActions \cup {"ExitMenu", "ReturnLobby"}) = {}
        /\ Pushes \subseteq RoomActions
    BY DEF RoomActions, Pushes
  <2>2. ASSUME NEW S, deferred \in Seq(S)
        PROVE  Head(deferred) \in S
    BY <2>2, HeadTailProperties
  <2>3. CASE InRoom
    <3>1. Head(deferred) \in RoomActions \cup {"ExitMenu", "ReturnLobby"}
      BY <2>1, <2>2, <2>3 DEF InRoom, Playing, MatchOver, Leaving, Arriving
    <3> QED BY <2>1, <3>1
  <2>4. CASE Left
    <3>1. Head(deferred) \in RoomActions
      BY <2>1, <2>2, <2>4 DEF Left
    <3> QED BY <2>1, <3>1
  <2>5. CASE Deferring
    BY <2>5 DEF Deferring, Deferred, FormOf
  <2>6. CASE Training
    <3>1. Head(deferred) = "ToGame"
      BY <2>6 DEF Training, Quiet
    <3> QED BY <3>1
  <2>7. ~Idle /\ ~Asking /\ ~Answering
    BY DEF Idle, Quiet, Asking, Answering
  <2> QED BY <2>3, <2>4, <2>5, <2>6, <2>7 DEF Patient, OutOfRoom
<1> QED BY <1>1, InvHolds, PatientHolds, PTL

\* A guest who waits, and signs in on the result of a training, has that game
\* saved, once, and by a server that knows who it is.
THEOREM SavesPlayedHolds == Spec => []SavesPlayed
<1>1. Inv /\ Patient => SavesPlayed
  <2> SUFFICES ASSUME Inv, Patient, haste = 0, NEW i \in DOMAIN toServer,
                      toServer[i].type = "save_training_result"
               PROVE  /\ toServer[i].end.training
                      /\ toServer[i].init = toServer[i].end
                      /\ toServer[i].end.id \notin srv.saved
                      /\ srv.user # NoUser
    BY DEF SavesPlayed
  <2>1. toServer # <<>> /\ (Len(toServer) = 1 => Head(toServer) = toServer[i])
    <3>1. toServer \in Seq(Request)
      BY DEF Inv, TypeOK
    <3> QED BY <3>1, LenProperties
  <2>2. ~InRoom /\ ~Training
    BY <2>1 DEF InRoom, Playing, MatchOver, Leaving, Arriving, Training, Quiet, RoomRequests
  <2>3. Asking
    BY <2>1, <2>2 DEF Patient, OutOfRoom, Left, Idle, Quiet, Answering, Deferring
  <2> QED BY <2>1, <2>3 DEF Asking, Asked, Played
<1> QED BY <1>1, InvHolds, PatientHolds, PTL
=============================================================================
