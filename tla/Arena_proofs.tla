----------------------------- MODULE Arena_proofs -----------------------------
(***************************************************************************)
(* What is proved about the games of one room, for every number of slots,  *)
(* clients, words and requests under way.                                  *)
(***************************************************************************)
EXTENDS Arena, Room_proofs, SequenceTheorems

-----------------------------------------------------------------------------
(* Sequences. *)

\* The front of a sequence is the sequence without its last element.
LEMMA FrontIs ==
    ASSUME NEW E, NEW s \in Seq(E), s # <<>>
    PROVE  /\ Len(s) \in Nat \ {0}
           /\ Front(s) \in Seq(E)
           /\ Len(Front(s)) = Len(s) - 1
           /\ \A i \in 1 .. Len(s) - 1 : Front(s)[i] = s[i]
           /\ Last(s) \in E
<1>1. Len(s) \in Nat \ {0}
  BY EmptySeq
<1>2. \A i \in 1 .. Len(s) : s[i] \in E
  BY ElementOfSeq
<1> DEFINE k == Len(s) - 1
<1>3. k \in Nat /\ \A i \in 1 .. k : s[i] \in E
  BY <1>1, <1>2
<1>4. Front(s) = SubSeq(s, 1, k)
  BY DEF Front
<1>5. Last(s) \in E
  BY <1>1, <1>2 DEF Last
<1> HIDE DEF k
<1>6. /\ SubSeq(s, 1, k) \in Seq(E)
      /\ Len(SubSeq(s, 1, k)) = IF 1 <= k THEN k - 1 + 1 ELSE 0
      /\ \A i \in 1 .. k - 1 + 1 : SubSeq(s, 1, k)[i] = s[1 + i - 1]
  BY <1>3, SubSeqProperties
<1>7. Len(SubSeq(s, 1, k)) = k
  <2> DEFINE l == Len(SubSeq(s, 1, k))
  <2>1. l = IF 1 <= k THEN k - 1 + 1 ELSE 0
    BY <1>6, Zenon
  <2> HIDE DEF l
  <2>2. l = k
    BY <1>3, <2>1
  <2> QED BY <2>2 DEF l
<1>8. \A i \in 1 .. k : SubSeq(s, 1, k)[i] = s[i]
  BY <1>3, <1>6
<1> QED BY <1>1, <1>4, <1>5, <1>6, <1>7, <1>8, Zenon DEF k

LEMMA TailIs ==
    ASSUME NEW E, NEW s \in Seq(E), s # <<>>
    PROVE  /\ Len(s) \in Nat \ {0}
           /\ Head(s) = s[1] /\ Head(s) \in E
           /\ Tail(s) \in Seq(E)
           /\ Len(Tail(s)) = Len(s) - 1
           /\ DOMAIN Tail(s) = 1 .. Len(s) - 1 /\ DOMAIN s = 1 .. Len(s)
           /\ \A i \in 1 .. Len(s) - 1 : Tail(s)[i] = s[i + 1]
<1>1. Len(s) \in Nat \ {0} /\ DOMAIN s = 1 .. Len(s)
  BY EmptySeq, LenProperties
<1>2. /\ Tail(s) \in Seq(E) /\ Len(Tail(s)) = Len(s) - 1
      /\ \A i \in 1 .. Len(s) - 1 : Tail(s)[i] = s[i + 1]
      /\ Head(s) \in E
  BY <1>1, HeadTailProperties
<1>3. DOMAIN Tail(s) = 1 .. Len(Tail(s))
  BY <1>2, LenProperties
<1> QED BY <1>1, <1>2, <1>3

LEMMA AppendIs ==
    ASSUME NEW E, NEW s \in Seq(E), NEW e \in E
    PROVE  /\ Len(s) \in Nat /\ DOMAIN s = 1 .. Len(s)
           /\ Append(s, e) \in Seq(E)
           /\ DOMAIN Append(s, e) = 1 .. Len(s) + 1
           /\ \A i \in 1 .. Len(s) : Append(s, e)[i] = s[i]
           /\ Append(s, e)[Len(s) + 1] = e
<1>1. /\ Append(s, e) \in Seq(E) /\ Len(Append(s, e)) = Len(s) + 1
      /\ \A i \in 1 .. Len(s) : Append(s, e)[i] = s[i]
      /\ Append(s, e)[Len(s) + 1] = e
  BY AppendProperties
<1>2. DOMAIN Append(s, e) = 1 .. Len(Append(s, e))
  BY <1>1, LenProperties
<1> QED BY <1>1, <1>2, LenProperties

-----------------------------------------------------------------------------
(* The inductive invariant. *)

\* A room with a host, or nobody in it.
RoomInv ==
    \/ RoomOK(room)
    \/ room \in RoomType /\ Occupied(room) = {} /\ ~room.started

Screens(s, g) == {i \in DOMAIN s : s[i].view = "Game" /\ s[i].game = g}
Inits(b, g) == {i \in DOMAIN b : b[i].type = "game_init" /\ b[i].game = g}

\* Views s, game messages b and requests q of one client: no game later than g
\* is known to it,
Known(s, b, q, g) ==
    /\ \A i \in DOMAIN s : s[i].view = "Game" => s[i].game <= g
    /\ \A i \in DOMAIN b : b[i].game <= g
    /\ \A i \in DOMAIN q : q[i].type = "input" => q[i].game <= g

\* game g has been shown to it once at most,
Once(s, b, g) ==
    /\ \A i, j \in Screens(s, g) : i = j
    /\ \A i, j \in Inits(b, g) : i = j
    /\ Screens(s, g) = {} \/ Inits(b, g) = {}

\* and what it has typed in game g is what has reached the server, the words
\* before m, and what is under way.
Tracked(s, b, q, g, m) ==
    \E w \in Progress :
        /\ Carries(q, g, m, w)
        /\ \A i \in Screens(s, g) : s[i].word = w
        /\ Inits(b, g) # {} => w = 0

ClientInv(c) ==
    /\ Known(stack[c], inbox[c], toServer[c], game)
    /\ Once(stack[c], inbox[c], game)
    /\ room.started /\ ~stray /\ c \in Members(room) =>
          Tracked(stack[c], inbox[c], toServer[c], game, Reached(c))

\* A game that runs has a number, by which screens without a game are told from its screens.
Numbered == room.started => game # 0

Inv == TypeOK /\ RoomInv /\ Numbered /\ \A c \in Fds : ClientInv(c)

-----------------------------------------------------------------------------
(* What happens to the views, messages and requests of one client. *)

\* The game screens of new are those of s that are left.
ShowsNoMore(new, s) ==
    \A i \in DOMAIN new : new[i].view = "Game" => i \in DOMAIN s /\ s[i] = new[i]

\* With views new and messages b1 instead of s and b, a client with requests q
\* knows of game g as it did.
KnowsAsBefore(new, b1, s, b, q, g) ==
    /\ Known(s, b, q, g) => Known(new, b1, q, g)
    /\ Once(s, b, g) => Once(new, b1, g)
    /\ \A m : Tracked(s, b, q, g, m) => Tracked(new, b1, q, g, m)

LEMMA FewerScreens ==
    ASSUME NEW new, NEW s, ShowsNoMore(new, s), NEW b, NEW q, NEW g
    PROVE  KnowsAsBefore(new, b, s, b, q, g)
<1>1. \A i \in Screens(new, g) : i \in Screens(s, g) /\ new[i] = s[i]
  BY Zenon DEF Screens, ShowsNoMore
<1>2. Known(s, b, q, g) => Known(new, b, q, g)
  BY DEF Known, ShowsNoMore
<1>3. Once(s, b, g) => Once(new, b, g)
  BY <1>1, Zenon DEF Once
<1>4. ASSUME NEW m, Tracked(s, b, q, g, m) PROVE Tracked(new, b, q, g, m)
  BY <1>1, <1>4, Zenon DEF Tracked
<1> QED BY <1>2, <1>3, <1>4, Zenon DEF KnowsAsBefore

LEMMA RequestIs ==
    ASSUME NEW r \in Request, r.type = "input"
    PROVE  r.word \in 0 .. TotalWords - 1 /\ r.game \in Nat /\ r.word \in Nat
BY RoomAssumption DEF Request

\* A request that is no input of game g does not matter to what is under way.
LEMMA AppendOther ==
    ASSUME NEW q \in Seq(Request), NEW r \in Request, NEW g,
           ~(r.type = "input" /\ r.game = g), NEW m, NEW w, Carries(q, g, m, w)
    PROVE  Carries(Append(q, r), g, m, w)
<1> DEFINE a == Append(q, r)
<1>1. /\ Len(q) \in Nat /\ DOMAIN q = 1 .. Len(q) /\ DOMAIN a = 1 .. Len(q) + 1
      /\ \A i \in 1 .. Len(q) : a[i] = q[i]
      /\ a[Len(q) + 1] = r
  BY AppendIs
<1> HIDE DEF a
<1>2. InputsOf(a, g) = InputsOf(q, g) /\ \A i \in InputsOf(q, g) : a[i] = q[i]
  BY <1>1 DEF InputsOf
<1>3. {a[i].word : i \in InputsOf(a, g)} = {q[i].word : i \in InputsOf(q, g)}
  BY <1>2, Zenon
<1>4. \A i, j \in InputsOf(a, g) : i < j => a[i].word < a[j].word
  <2> SUFFICES ASSUME NEW i \in InputsOf(a, g), NEW j \in InputsOf(a, g), i < j
               PROVE  a[i].word < a[j].word
    OBVIOUS
  <2>1. i \in InputsOf(q, g) /\ j \in InputsOf(q, g) /\ a[i] = q[i] /\ a[j] = q[j]
    BY <1>2
  <2>2. q[i].word < q[j].word
    BY <2>1 DEF Carries
  <2> QED BY <2>1, <2>2, Zenon
<1>5. m <= w /\ {a[i].word : i \in InputsOf(a, g)} = m .. w - 1
  BY <1>3, Zenon DEF Carries
<1>6. Carries(a, g, m, w)
  BY <1>4, <1>5 DEF Carries
<1> QED BY <1>6 DEF a

\* A word typed in game g is the next one under way.
LEMMA AppendInput ==
    ASSUME NEW q \in Seq(Request), NEW r \in Request, NEW g,
           r.type = "input", r.game = g, NEW m \in Int, NEW w \in Int, r.word = w,
           Carries(q, g, m, w)
    PROVE  Carries(Append(q, r), g, m, w + 1)
<1> DEFINE a == Append(q, r)
           n == Len(q) + 1
<1>1. /\ Len(q) \in Nat /\ DOMAIN q = 1 .. Len(q) /\ DOMAIN a = 1 .. n
      /\ \A i \in 1 .. Len(q) : a[i] = q[i]
      /\ a[n] = r /\ n \in Nat /\ n \in 1 .. n
  BY AppendIs
<1> HIDE DEF a
<1>2. InputsOf(a, g) = InputsOf(q, g) \cup {n}
  BY <1>1 DEF InputsOf
<1>3. \A i \in InputsOf(q, g) : a[i] = q[i] /\ i < n /\ q[i].word \in m .. w - 1
  BY <1>1 DEF InputsOf, Carries
<1>4. {a[i].word : i \in InputsOf(a, g)} = {q[i].word : i \in InputsOf(q, g)} \cup {w}
  BY <1>1, <1>2, <1>3
<1>5. (m .. w - 1) \cup {w} = m .. (w + 1) - 1
  BY DEF Carries
<1>6. {q[i].word : i \in InputsOf(q, g)} = m .. w - 1
  BY DEF Carries
<1>7. {a[i].word : i \in InputsOf(a, g)} = m .. (w + 1) - 1
  BY <1>4, <1>5, <1>6, Zenon
<1>8. ASSUME NEW i \in InputsOf(a, g), NEW j \in InputsOf(a, g), i < j
      PROVE  a[i].word < a[j].word
  <2>1. i \in InputsOf(q, g)
    <3>1. j <= n /\ i \in 1 .. n
      BY <1>1, <1>2, <1>3 DEF InputsOf
    <3>2. i # n
      <4>1. j \in Nat
        BY <1>1, <1>2 DEF InputsOf
      <4> QED BY <1>1, <3>1, <4>1, <1>8
    <3> QED BY <1>2, <3>2
  <2>2. CASE j = n
    <3>1. a[i].word \in m .. w - 1 /\ a[j].word = w
      BY <1>1, <1>3, <2>1, <2>2
    <3> QED BY <3>1
  <2>3. CASE j # n
    BY <1>2, <1>3, <1>8, <2>1, <2>3, Zenon DEF Carries
  <2> QED BY <2>2, <2>3
<1>9. m <= w + 1
  BY DEF Carries
<1> QED BY <1>7, <1>8, <1>9 DEF Carries, a

LEMMA TailOther ==
    ASSUME NEW q \in Seq(Request), q # <<>>, NEW g,
           ~(Head(q).type = "input" /\ Head(q).game = g),
           NEW m, NEW w, Carries(q, g, m, w)
    PROVE  Carries(Tail(q), g, m, w)
<1> DEFINE t == Tail(q)
<1>1. /\ Len(q) \in Nat \ {0} /\ Head(q) = q[1]
      /\ DOMAIN t = 1 .. Len(q) - 1 /\ DOMAIN q = 1 .. Len(q)
      /\ \A i \in 1 .. Len(q) - 1 : t[i] = q[i + 1]
  BY TailIs
<1> HIDE DEF t
<1>2. \A i \in InputsOf(t, g) : i \in Nat /\ i + 1 \in InputsOf(q, g) /\ t[i] = q[i + 1]
  BY <1>1 DEF InputsOf
<1>3. \A i \in InputsOf(q, g) : i \in Nat /\ i - 1 \in InputsOf(t, g) /\ t[i - 1] = q[i]
  <2> SUFFICES ASSUME NEW i \in InputsOf(q, g)
               PROVE  i \in Nat /\ i - 1 \in InputsOf(t, g) /\ t[i - 1] = q[i]
    OBVIOUS
  <2>1. i \in 1 .. Len(q) /\ i # 1
    BY <1>1 DEF InputsOf
  <2>2. i - 1 \in 1 .. Len(q) - 1 /\ (i - 1) + 1 = i
    BY <1>1, <2>1
  <2>3. t[i - 1] = q[i]
    BY <1>1, <2>2
  <2> QED BY <1>1, <2>1, <2>2, <2>3 DEF InputsOf
<1>4. {t[i].word : i \in InputsOf(t, g)} = {q[i].word : i \in InputsOf(q, g)}
  <2>1. \A i \in InputsOf(t, g) : \E j \in InputsOf(q, g) : t[i].word = q[j].word
    BY <1>2, Zenon
  <2>2. \A i \in InputsOf(q, g) : \E j \in InputsOf(t, g) : q[i].word = t[j].word
    BY <1>3, Zenon
  <2> QED BY <2>1, <2>2
<1>5. ASSUME NEW i \in InputsOf(t, g), NEW j \in InputsOf(t, g), i < j
      PROVE  t[i].word < t[j].word
  <2>1. i + 1 < j + 1
    BY <1>2, <1>5
  <2> QED BY <1>2, <2>1, Zenon DEF Carries
<1> QED BY <1>4, <1>5 DEF Carries, t

\* The first input of game g under way carries the word after those scored.
LEMMA TailInput ==
    ASSUME NEW q \in Seq(Request), q # <<>>, NEW g,
           Head(q).type = "input", Head(q).game = g,
           NEW m \in Int, NEW w \in Int, Carries(q, g, m, w)
    PROVE  Head(q).word = m /\ Carries(Tail(q), g, m + 1, w)
<1> DEFINE t == Tail(q)
<1>1. /\ Len(q) \in Nat \ {0} /\ Head(q) = q[1] /\ Head(q) \in Request
      /\ DOMAIN t = 1 .. Len(q) - 1 /\ DOMAIN q = 1 .. Len(q)
      /\ \A i \in 1 .. Len(q) - 1 : t[i] = q[i + 1]
  BY TailIs
<1> HIDE DEF t
<1>2. 1 \in InputsOf(q, g) /\ \A i \in InputsOf(q, g) : i \in Nat /\ i >= 1
  BY <1>1 DEF InputsOf
<1>3. \A i \in InputsOf(q, g) : q[i].word \in m .. w - 1
  BY DEF Carries
<1>4. q[1].word \in m .. w - 1 /\ m \in m .. w - 1
  BY <1>2, <1>3
<1>5. PICK k \in InputsOf(q, g) : q[k].word = m
  BY <1>4 DEF Carries
<1>6. k = 1
  <2>1. CASE k # 1
    <3>1. 1 < k
      BY <1>2, <2>1
    <3>2. q[1].word < q[k].word
      BY <1>2, <3>1, Zenon DEF Carries
    <3> QED BY <1>4, <1>5, <3>2
  <2> QED BY <2>1
<1>7. q[1].word = m
  BY <1>5, <1>6
<1>8. \A i \in InputsOf(t, g) : i \in Nat /\ i >= 1 /\ i + 1 \in InputsOf(q, g) /\ t[i] = q[i + 1]
  BY <1>1 DEF InputsOf
<1>9. \A i \in InputsOf(q, g) \ {1} : i - 1 \in InputsOf(t, g) /\ t[i - 1] = q[i]
  <2> SUFFICES ASSUME NEW i \in InputsOf(q, g) \ {1}
               PROVE  i - 1 \in InputsOf(t, g) /\ t[i - 1] = q[i]
    OBVIOUS
  <2>1. i \in 1 .. Len(q)
    BY <1>1 DEF InputsOf
  <2>2. i - 1 \in 1 .. Len(q) - 1 /\ (i - 1) + 1 = i
    BY <1>1, <2>1
  <2>3. t[i - 1] = q[i]
    BY <1>1, <2>2
  <2> QED BY <1>1, <2>2, <2>3 DEF InputsOf
<1>10. \A i \in InputsOf(q, g) \ {1} : q[i].word \in m + 1 .. w - 1
  <2> SUFFICES ASSUME NEW i \in InputsOf(q, g) \ {1} PROVE q[i].word \in m + 1 .. w - 1
    OBVIOUS
  <2>1. 1 < i
    BY <1>2
  <2>2. q[1].word < q[i].word
    BY <1>2, <2>1, Zenon DEF Carries
  <2> QED BY <1>3, <1>7, <2>2
<1>11. {t[i].word : i \in InputsOf(t, g)} = m + 1 .. w - 1
  <2>1. ASSUME NEW i \in InputsOf(t, g) PROVE t[i].word \in m + 1 .. w - 1
    <3>1. i + 1 \in InputsOf(q, g) \ {1} /\ t[i] = q[i + 1]
      BY <1>8
    <3> QED BY <1>10, <3>1
  <2>2. ASSUME NEW x \in m + 1 .. w - 1 PROVE \E i \in InputsOf(t, g) : t[i].word = x
    <3>1. x \in m .. w - 1 /\ x # m
      OBVIOUS
    <3>2. PICK i \in InputsOf(q, g) : q[i].word = x
      BY <3>1 DEF Carries
    <3>3. i \in InputsOf(q, g) \ {1}
      BY <3>1, <3>2, <1>7
    <3> QED BY <1>9, <3>2, <3>3
  <2> QED BY <2>1, <2>2
<1>12. ASSUME NEW i \in InputsOf(t, g), NEW j \in InputsOf(t, g), i < j
       PROVE  t[i].word < t[j].word
  <2>1. i + 1 < j + 1
    BY <1>8, <1>12
  <2> QED BY <1>8, <2>1, Zenon DEF Carries
<1>13. m + 1 <= w
  BY <1>4
<1> QED BY <1>1, <1>7, <1>11, <1>12, <1>13 DEF Carries, t
\* A message that is no game_init shows no game.
LEMMA AppendEvent ==
    ASSUME NEW b \in Seq(Event), NEW e \in Event, NEW g
    PROVE  /\ e.type # "game_init" \/ e.game # g => Inits(Append(b, e), g) = Inits(b, g)
           /\ e.type = "game_init" /\ e.game = g =>
                 Inits(Append(b, e), g) = Inits(b, g) \cup {Len(b) + 1}
           /\ \A i \in DOMAIN b : b[i] \in Event
           /\ \A i \in DOMAIN Append(b, e) :
                 (i \in DOMAIN b /\ Append(b, e)[i] = b[i]) \/ Append(b, e)[i] = e
<1> DEFINE a == Append(b, e)
<1>1. /\ Len(b) \in Nat /\ DOMAIN b = 1 .. Len(b) /\ DOMAIN a = 1 .. Len(b) + 1
      /\ \A i \in 1 .. Len(b) : a[i] = b[i]
      /\ a[Len(b) + 1] = e
  BY AppendIs
<1>2. \A i \in DOMAIN b : b[i] \in Event
  BY <1>1, ElementOfSeq
<1> HIDE DEF a
<1>3. \A i \in DOMAIN a : (i \in DOMAIN b /\ a[i] = b[i]) \/ (i = Len(b) + 1 /\ a[i] = e)
  BY <1>1
<1>4. \A i \in DOMAIN b : i \in DOMAIN a /\ a[i] = b[i]
  BY <1>1
<1>5. Len(b) + 1 \in DOMAIN a
  BY <1>1
<1>6. e.type # "game_init" \/ e.game # g => Inits(a, g) = Inits(b, g)
  BY <1>3, <1>4 DEF Inits
<1>7. e.type = "game_init" /\ e.game = g => Inits(a, g) = Inits(b, g) \cup {Len(b) + 1}
  BY <1>1, <1>3, <1>4, <1>5 DEF Inits
<1>8. \A i \in DOMAIN a : (i \in DOMAIN b /\ a[i] = b[i]) \/ a[i] = e
  BY <1>3
<1> QED BY <1>2, <1>6, <1>7, <1>8 DEF a

-----------------------------------------------------------------------------
(* The steps. *)

LEMMA ClientTypes ==
    ASSUME Inv, NEW c \in Fds
    PROVE  /\ TypeOK /\ RoomInv /\ ClientInv(c)
           /\ room \in RoomType /\ room.metrics[c] \in Progress /\ room.metrics[c] \in Int
           /\ taken[c] \in Nat /\ Reached(c) \in Progress /\ Reached(c) \in Int
           /\ game \in Nat
           /\ stack[c] \in Seq(View) /\ inbox[c] \in Seq(Event) /\ toServer[c] \in Seq(Request)
<1>1. TypeOK /\ RoomInv /\ ClientInv(c)
  BY DEF Inv
<1>2. room \in RoomType /\ game \in Nat
  BY <1>1 DEF TypeOK
<1>3. room.metrics[c] \in Progress
  BY <1>2 DEF RoomType
<1>4. Progress \subseteq Int
  BY RoomAssumption DEF Progress, NoEntry
<1>5. stack[c] \in Seq(View) /\ inbox[c] \in Seq(Event) /\ toServer[c] \in Seq(Request)
  BY <1>1, Zenon DEF TypeOK
<1>6. taken[c] \in Nat
  BY <1>1 DEF TypeOK
<1>7. Reached(c) \in Progress
  BY <1>3, <1>6 DEF Reached, Progress
<1> QED BY <1>1, <1>2, <1>3, <1>4, <1>5, <1>6, <1>7

\* A client whom a step does not touch.
LEMMA Elsewhere ==
    ASSUME NEW d \in Fds, ClientInv(d), game' = game,
           stack'[d] = stack[d], inbox'[d] = inbox[d], toServer'[d] = toServer[d],
           room'.started /\ ~stray' /\ d \in Members(room') =>
               /\ room.started /\ ~stray /\ d \in Members(room)
               /\ Reached(d)' = Reached(d)
    PROVE  ClientInv(d)'
BY DEF ClientInv

LEMMA InitInv == Init => Inv
<1> SUFFICES ASSUME Init PROVE Inv
  OBVIOUS
<1>1. PICK name \in Names : room = AddPlayer(NewRoom, Founder, 1, name)
  BY DEF Init
<1>2. RoomOK(room)
  <2>1. NewRoom \in RoomType /\ Occupied(NewRoom) = {} /\ NewRoom.host = NoHost
    BY NewRoomType DEF NewRoom
  <2>2. Free(NewRoom) # {} /\ SingleSeats(NewRoom)
    <3>1. 0 \in SlotIdx
      BY RoomAssumption DEF SlotIdx
    <3> QED BY <2>1, <3>1 DEF Free, SingleSeats
  <2>3. Founder \in Fds \ Members(NewRoom)
    BY <2>1, MemberSeat, ArenaAssumption
  <2>4. 1 \in Nat /\ name \in Names \cup {NoName}
    OBVIOUS
  <2> QED BY <1>1, <2>1, <2>2, <2>3, <2>4, AddPlayerSeats
<1>3. \A c \in Fds : \E v \in {"Lobby", "Title"} : stack[c] = <<Other(v)>>
  BY DEF Init
<1>4. \A v \in {"Lobby", "Title"} : Other(v) \in View /\ Other(v).view # "Game"
  BY RoomAssumption DEF Other, View
<1>5. TypeOK
  <2>1. room \in RoomType
    BY <1>2 DEF RoomOK
  <2>2. stack \in [Fds -> Seq(View)]
    BY <1>4 DEF Init
  <2>3. <<>> \in Seq(Request) /\ <<>> \in Seq(Event)
    BY EmptySeq
  <2>4. training \in [Fds -> BOOLEAN] /\ taken \in [Fds -> Nat]
    BY DEF Init
  <2> QED BY <2>1, <2>2, <2>3, <2>4 DEF Init, TypeOK
<1>6. ASSUME NEW c \in Fds PROVE ClientInv(c)
  <2>1. PICK v \in {"Lobby", "Title"} : stack[c] = <<Other(v)>>
    BY <1>3
  <2>2. /\ DOMAIN stack[c] = {1} /\ stack[c][1].view # "Game"
        /\ DOMAIN inbox[c] = {} /\ DOMAIN toServer[c] = {}
    BY <1>4, <2>1 DEF Init
  <2>3. Known(stack[c], inbox[c], toServer[c], game)
    BY <2>2 DEF Known
  <2>4. Screens(stack[c], game) = {} /\ Inits(inbox[c], game) = {}
    BY <2>2 DEF Screens, Inits
  <2>5. ~room.started
    BY <1>1 DEF AddPlayer, NewRoom
  <2> QED BY <2>3, <2>4, <2>5 DEF ClientInv, Once
<1>7. ~room.started
  BY <1>1 DEF AddPlayer, NewRoom
<1> QED BY <1>2, <1>5, <1>6, <1>7 DEF Inv, RoomInv, Numbered

\* Views from which game screens are at most taken away.
LEMMA PoppedIs ==
    ASSUME NEW s \in Seq(View)
    PROVE  Popped(s) \in Seq(View) /\ ShowsNoMore(Popped(s), s)
<1>1. CASE s = <<>>
  BY <1>1 DEF Popped, ShowsNoMore
<1>2. CASE s # <<>>
  <2>1. /\ Popped(s) \in Seq(View) /\ Len(Popped(s)) = Len(s) - 1
        /\ \A i \in 1 .. Len(s) - 1 : Popped(s)[i] = s[i]
        /\ Len(s) \in Nat \ {0}
    BY <1>2, FrontIs DEF Popped
  <2>2. DOMAIN Popped(s) = 1 .. Len(s) - 1 /\ DOMAIN s = 1 .. Len(s)
    BY <2>1, LenProperties
  <2> QED BY <2>1, <2>2 DEF ShowsNoMore
<1> QED BY <1>1, <1>2

LEMMA OneView ==
    ASSUME NEW v \in {"Lobby", "Title"}, NEW s
    PROVE  <<Other(v)>> \in Seq(View) /\ ShowsNoMore(<<Other(v)>>, s)
<1>1. Other(v) \in View /\ Other(v).view # "Game"
  BY RoomAssumption DEF Other, View
<1> QED BY <1>1 DEF ShowsNoMore

\* A game_init that is forgotten as it is taken leaves a screen of no game.
LEMMA ClearedEvent ==
    ASSUME NEW s, NEW s0 \in Seq(View), ShowsNoMore(s0, s),
           NEW b \in Seq(Event), b # <<>>, NEW q, NEW g \in Nat \ {0}
    PROVE  KnowsAsBefore(Append(s0, GameScreen(0, 0)), Tail(b), s, b, q, g)
<1> DEFINE u == GameScreen(0, 0)
           new == Append(s0, u)
           t == Tail(b)
<1>1. u \in View /\ u.view = "Game" /\ u.game = 0
  BY RoomAssumption DEF GameScreen, View
<1>2. \A i \in DOMAIN new : (i \in DOMAIN s0 /\ new[i] = s0[i]) \/ new[i] = u
  BY <1>1, AppendIs
<1>3. /\ DOMAIN t = 1 .. Len(b) - 1 /\ DOMAIN b = 1 .. Len(b) /\ Len(b) \in Nat \ {0}
      /\ \A i \in 1 .. Len(b) - 1 : t[i] = b[i + 1]
  BY TailIs
<1> HIDE DEF u, new, t
<1>4. \A i \in DOMAIN t : i \in Nat /\ i + 1 \in DOMAIN b /\ t[i] = b[i + 1]
  BY <1>3
<1>5. \A i \in Inits(t, g) : i \in Nat /\ i + 1 \in Inits(b, g)
  BY <1>4 DEF Inits
<1>6. \A i \in Screens(new, g) : i \in Screens(s, g) /\ new[i] = s[i]
  BY <1>1, <1>2, Zenon DEF Screens, ShowsNoMore
<1>7. Known(s, b, q, g) => Known(new, t, q, g)
  <2>1. 0 <= g
    OBVIOUS
  <2>2. \A i \in DOMAIN new : new[i].view = "Game" => (i \in DOMAIN s /\ new[i] = s[i]) \/ new[i].game = 0
    BY <1>1, <1>2, Zenon DEF ShowsNoMore
  <2> QED BY <1>4, <2>1, <2>2, Zenon DEF Known
<1>8. ASSUME Once(s, b, g) PROVE Once(new, t, g)
  <2>1. \A i, j \in Inits(t, g) : i = j
    <3> SUFFICES ASSUME NEW i \in Inits(t, g), NEW j \in Inits(t, g) PROVE i = j
      OBVIOUS
    <3>1. i + 1 = j + 1 /\ i \in Nat /\ j \in Nat
      BY <1>5, <1>8, Zenon DEF Once
    <3> QED BY <3>1
  <2>2. \A i, j \in Screens(new, g) : i = j
    BY <1>6, <1>8, Zenon DEF Once
  <2>3. Screens(new, g) = {} \/ Inits(t, g) = {}
    BY <1>5, <1>6, <1>8, Zenon DEF Once
  <2> QED BY <2>1, <2>2, <2>3, Zenon DEF Once
<1>9. ASSUME NEW m, Tracked(s, b, q, g, m) PROVE Tracked(new, t, q, g, m)
  BY <1>5, <1>6, <1>9, Zenon DEF Tracked
<1> QED BY <1>7, <1>8, <1>9, Zenon DEF KnowsAsBefore, new, t, u

\* A step of the user that shows no new game, and sends no input.
LEMMA ViewStep ==
    ASSUME Inv, NEW c \in Fds, NEW s \in Seq(View), NEW b1 \in Seq(Event),
           KnowsAsBefore(s, b1, stack[c], inbox[c], toServer[c], game),
           stack' = [stack EXCEPT ![c] = s], textInput' \in [Fds -> BOOLEAN],
           inbox' = [inbox EXCEPT ![c] = b1], UNCHANGED roomVars,
           NEW q \in Seq(Request), toServer' = [toServer EXCEPT ![c] = q],
           q = toServer[c] \/ \E r \in Request : r.type # "input" /\ q = Append(toServer[c], r)
    PROVE  Inv'
<1>1. UNCHANGED <<room, late, game, players, stray, joins, training, taken>>
  BY DEF roomVars
<1>2. /\ stack' \in [Fds -> Seq(View)] /\ stack'[c] = s
      /\ inbox' \in [Fds -> Seq(Event)] /\ inbox'[c] = b1
      /\ toServer' \in [Fds -> Seq(Request)] /\ toServer'[c] = q
      /\ \A d \in Fds \ {c} : stack'[d] = stack[d] /\ inbox'[d] = inbox[d] /\ toServer'[d] = toServer[d]
  BY DEF Inv, TypeOK
<1>3. TypeOK' /\ RoomInv' /\ Numbered'
  BY <1>1, <1>2 DEF Inv, TypeOK, RoomInv, Numbered
<1>4. ASSUME NEW d \in Fds PROVE ClientInv(d)'
  <2>1. Reached(d)' = Reached(d)
    BY <1>1 DEF Reached
  <2>2. CASE d # c
    BY <1>1, <1>2, <2>1, <2>2, ClientTypes, Elsewhere
  <2>3. CASE d = c
    <3> DEFINE t == toServer[c]
               m == Reached(c)
    <3>1. t \in Seq(Request) /\ ClientInv(c)
      BY ClientTypes
    <3>2. /\ Known(s, b1, t, game) /\ Once(s, b1, game)
          /\ room.started /\ ~stray /\ c \in Members(room) => Tracked(s, b1, t, game, m)
      BY <3>1, Zenon DEF ClientInv, KnowsAsBefore
    <3>3. CASE q = t
      BY <1>1, <1>2, <2>1, <2>3, <3>2, <3>3 DEF ClientInv
    <3>4. ASSUME NEW r \in Request, r.type # "input", q = Append(t, r) PROVE ClientInv(d)'
      <4> HIDE DEF t, m
      <4>1. Known(s, b1, q, game)
        <5>1. \A i \in DOMAIN q : (i \in DOMAIN t /\ q[i] = t[i]) \/ q[i] = r
          BY <3>1, <3>4, AppendIs
        <5> QED BY <3>2, <3>4, <5>1 DEF Known
      <4>2. Tracked(s, b1, t, game, m) => Tracked(s, b1, q, game, m)
        BY <3>1, <3>4, AppendOther DEF Tracked
      <4> QED BY <1>1, <1>2, <2>1, <2>3, <3>2, <4>1, <4>2 DEF ClientInv, m
    <3> QED BY <3>3, <3>4
  <2> QED BY <2>2, <2>3
<1> QED BY <1>3, <1>4 DEF Inv

\* The user shows no new game and sends nothing, or something that is no input.
LEMMA ShowStep ==
    ASSUME Inv, NEW c \in Fds, NEW s \in Seq(View), ShowsNoMore(s, stack[c]),
           stack' = [stack EXCEPT ![c] = s], textInput' \in [Fds -> BOOLEAN],
           UNCHANGED <<roomVars, inbox>>,
           toServer' = toServer
               \/ \E r \in Request : r.type # "input"
                     /\ toServer' = [toServer EXCEPT ![c] = Append(toServer[c], r)]
    PROVE  Inv'
<1>1. /\ toServer[c] \in Seq(Request) /\ inbox[c] \in Seq(Event)
      /\ toServer = [toServer EXCEPT ![c] = toServer[c]]
      /\ inbox = [inbox EXCEPT ![c] = inbox[c]]
  BY ClientTypes DEF Inv, TypeOK
<1>2. KnowsAsBefore(s, inbox[c], stack[c], inbox[c], toServer[c], game)
  BY FewerScreens
<1>3. inbox' = [inbox EXCEPT ![c] = inbox[c]] /\ UNCHANGED roomVars
  BY <1>1
<1>4. CASE toServer' = toServer
  <2>1. toServer' = [toServer EXCEPT ![c] = toServer[c]]
    BY <1>1, <1>4
  <2> QED BY <1>1, <1>2, <1>3, <2>1, ViewStep
<1>5. ASSUME NEW r \in Request, r.type # "input",
             toServer' = [toServer EXCEPT ![c] = Append(toServer[c], r)]
      PROVE  Inv'
  <2>1. Append(toServer[c], r) \in Seq(Request)
    BY <1>1, AppendProperties
  <2> QED BY <1>1, <1>2, <1>3, <1>5, <2>1, ViewStep
<1> QED BY <1>4, <1>5

\* The buttons of the match result.
LEMMA ResultSteps ==
    ASSUME Inv, NEW c \in Fds, NEW s \in Seq(View), ShowsNoMore(s, stack[c]),
           LeaveResult(c, s), UNCHANGED roomVars,
           toServer' = toServer
               \/ \E r \in Request : r.type # "input"
                     /\ toServer' = [toServer EXCEPT ![c] = Append(toServer[c], r)]
    PROVE  Inv'
<1>1. /\ toServer[c] \in Seq(Request) /\ inbox[c] \in Seq(Event) /\ game \in Nat
      /\ textInput \in [Fds -> BOOLEAN] /\ ClientInv(c)
      /\ toServer = [toServer EXCEPT ![c] = toServer[c]]
  BY ClientTypes DEF TypeOK
<1>2. CASE Show(c, s) /\ StopTextInput(c) /\ UNCHANGED inbox
  BY <1>1, <1>2, ShowStep DEF Show, StopTextInput
<1>3. CASE /\ inbox[c] # <<>> /\ Head(inbox[c]).type = "game_init"
           /\ inbox' = [inbox EXCEPT ![c] = Tail(@)]
           /\ Show(c, Append(s, GameScreen(0, 0)))
           /\ textInput' = [textInput EXCEPT ![c] = TRUE]
  <2> DEFINE new == Append(s, GameScreen(0, 0))
             b1 == Tail(inbox[c])
  <2>1. b1 \in Seq(Event) /\ Head(inbox[c]) \in Event /\ Head(inbox[c]) = inbox[c][1] /\ 1 \in DOMAIN inbox[c]
    BY <1>1, <1>3, TailIs
  <2>2. game \in Nat \ {0}
    <3>1. Head(inbox[c]).game \in Nat \ {0}
      BY <1>3, <2>1 DEF Event
    <3>2. inbox[c][1].game <= game
      BY <1>1, <2>1 DEF ClientInv, Known
    <3> QED BY <1>1, <2>1, <3>1, <3>2
  <2>3. new \in Seq(View)
    <3>1. GameScreen(0, 0) \in View
      BY RoomAssumption DEF GameScreen, View
    <3> QED BY <3>1, AppendProperties
  <2>4. KnowsAsBefore(new, b1, stack[c], inbox[c], toServer[c], game)
    BY <1>1, <1>3, <2>2, ClearedEvent
  <2>5. /\ stack' = [stack EXCEPT ![c] = new] /\ inbox' = [inbox EXCEPT ![c] = b1]
        /\ textInput' \in [Fds -> BOOLEAN]
    BY <1>1, <1>3 DEF Show
  <2> HIDE DEF new, b1
  <2>6. CASE toServer' = toServer
    <3>1. toServer' = [toServer EXCEPT ![c] = toServer[c]]
      BY <1>1, <2>6
    <3> QED BY <1>1, <2>1, <2>3, <2>4, <2>5, <3>1, ViewStep
  <2>7. ASSUME NEW r \in Request, r.type # "input",
               toServer' = [toServer EXCEPT ![c] = Append(toServer[c], r)]
        PROVE  Inv'
    <3>1. Append(toServer[c], r) \in Seq(Request)
      BY <1>1, AppendProperties
    <3> QED BY <2>1, <2>3, <2>4, <2>5, <2>7, <3>1, ViewStep
  <2> QED BY <2>6, <2>7
<1> QED BY <1>2, <1>3 DEF LeaveResult

\* The buttons of the lobby and of the results, and Escape.
LEMMA ButtonSteps ==
    ASSUME Inv, NEW c \in Fds,
           \/ LobbyReady(c) \/ LobbyStart(c) \/ LobbyExit(c) \/ GameEscape(c)
           \/ ResultReturnLobby(c) \/ ResultExitMenu(c) \/ TrainingExitMenu(c)
    PROVE  Inv'
<1>1. /\ stack[c] \in Seq(View) /\ stack \in [Fds -> Seq(View)]
      /\ textInput \in [Fds -> BOOLEAN]
  BY ClientTypes DEF TypeOK
<1>2. \A y \in {"exit", "start", "ready"} : [type |-> y] \in Request /\ [type |-> y].type # "input"
  BY DEF Request
<1>3. ShowsNoMore(stack[c], stack[c]) /\ stack = [stack EXCEPT ![c] = stack[c]]
  BY <1>1 DEF ShowsNoMore
<1>4. /\ <<Other("Title")>> \in Seq(View) /\ ShowsNoMore(<<Other("Title")>>, stack[c])
  BY OneView
<1>5. CASE LobbyReady(c) \/ LobbyStart(c)
  <2>1. \E r \in Request : /\ r.type # "input"
                            /\ toServer' = [toServer EXCEPT ![c] = Append(toServer[c], r)]
    BY <1>2, <1>5 DEF LobbyReady, LobbyStart, Send
  <2>2. stack' = [stack EXCEPT ![c] = stack[c]] /\ textInput' \in [Fds -> BOOLEAN]
        /\ UNCHANGED <<roomVars, inbox>>
    BY <1>1, <1>3, <1>5 DEF LobbyReady, LobbyStart, viewVars
  <2> QED BY <1>1, <1>3, <2>1, <2>2, ShowStep
<1>6. CASE LobbyExit(c)
  <2>1. \E r \in Request : /\ r.type # "input"
                            /\ toServer' = [toServer EXCEPT ![c] = Append(toServer[c], r)]
    BY <1>2, <1>6 DEF LobbyExit, Send
  <2>2. stack' = [stack EXCEPT ![c] = <<Other("Title")>>]
        /\ textInput' \in [Fds -> BOOLEAN] /\ UNCHANGED <<roomVars, inbox>>
    BY <1>1, <1>6 DEF LobbyExit, Show
  <2> QED BY <1>4, <2>1, <2>2, ShowStep
<1>7. CASE GameEscape(c) \/ TrainingExitMenu(c)
  <2>1. PICK s \in Seq(View) : ShowsNoMore(s, stack[c]) /\ stack' = [stack EXCEPT ![c] = s]
    BY <1>1, <1>4, <1>7, PoppedIs DEF GameEscape, TrainingExitMenu, Show
  <2>2. textInput' \in [Fds -> BOOLEAN] /\ UNCHANGED <<roomVars, inbox>> /\ toServer' = toServer
    BY <1>1, <1>7 DEF GameEscape, TrainingExitMenu, StopTextInput
  <2> QED BY <2>1, <2>2, ShowStep
<1>8. CASE ResultReturnLobby(c)
  <2> DEFINE s == Popped(Popped(stack[c]))
  <2>1. s \in Seq(View) /\ ShowsNoMore(s, Popped(stack[c])) /\ ShowsNoMore(Popped(stack[c]), stack[c])
    BY <1>1, PoppedIs
  <2>2. ShowsNoMore(s, stack[c])
    BY <2>1, Zenon DEF ShowsNoMore
  <2>3. LeaveResult(c, s) /\ UNCHANGED roomVars /\ toServer' = toServer
    BY <1>8 DEF ResultReturnLobby
  <2> HIDE DEF s
  <2> QED BY <2>1, <2>2, <2>3, ResultSteps
<1>9. CASE ResultExitMenu(c)
  <2>1. \E r \in Request : /\ r.type # "input"
                            /\ toServer' = [toServer EXCEPT ![c] = Append(toServer[c], r)]
    BY <1>2, <1>9 DEF ResultExitMenu, Send
  <2>2. LeaveResult(c, <<Other("Title")>>) /\ UNCHANGED roomVars
    BY <1>9 DEF ResultExitMenu
  <2> QED BY <1>4, <2>1, <2>2, ResultSteps
<1> QED BY <1>5, <1>6, <1>7, <1>8, <1>9

\* What the branches of the room invariant are, and when each is taken.
LEMMA RoomIs ==
    ASSUME Inv
    PROVE  /\ room \in RoomType
           /\ Members(room) # {} => RoomOK(room)
           /\ room.started => RoomOK(room)
           /\ ~RoomOK(room) => Occupied(room) = {} /\ Members(room) = {} /\ ~room.started
<1>1. room \in RoomType /\ RoomInv
  BY DEF Inv, TypeOK
<1>2. Occupied(room) = {} => Members(room) = {}
  BY <1>1, MemberSeat
<1> QED BY <1>1, <1>2 DEF RoomInv

LEMMA JoinRoomStep ==
    ASSUME Inv, NEW c \in Fds, JoinRoom(c)
    PROVE  Inv'
<1>1. PICK name \in Names : room' = AddPlayer(room, c, 1, name)
  BY DEF JoinRoom
<1>2. /\ UNCHANGED <<late, game, players, stray, taken, textInput, toServer, inbox>>
      /\ stack' = [stack EXCEPT ![c] = <<Other("Lobby")>>] /\ joins' = joins + 1
      /\ training' \in [Fds -> BOOLEAN]
      /\ toServer[c] = <<>> /\ inbox[c] = <<>>
      /\ RoomOK(room) /\ Free(room) # {} /\ c \notin Members(room)
  <2>1. \A t : t \in BOOLEAN => [training EXCEPT ![c] = t] \in [Fds -> BOOLEAN]
    BY DEF Inv, TypeOK
  <2>2. training[c] \in BOOLEAN /\ (c \in Trainees) \in BOOLEAN
    BY DEF Inv, TypeOK
  <2>3. training' \in [Fds -> BOOLEAN]
    BY <2>1, <2>2 DEF JoinRoom
  <2> QED BY <2>3, RoomIs DEF JoinRoom, Show, Seated
<1>3. RoomOK(room') /\ Members(room') = Members(room) \cup {c}
  <2>1. room \in RoomType /\ SingleSeats(room) /\ room.host \in Occupied(room)
    BY <1>2 DEF RoomOK
  <2>2. 1 \in Nat /\ name \in Names \cup {NoName}
    OBVIOUS
  <2> QED BY <1>1, <1>2, <2>1, <2>2, AddPlayerSeats
<1>4. room'.metrics = room.metrics /\ room'.started = room.started
  BY <1>1, RoomIs DEF AddPlayer, RoomType
<1>5. /\ stack' \in [Fds -> Seq(View)] /\ stack'[c] = <<Other("Lobby")>>
      /\ \A d \in Fds \ {c} : stack'[d] = stack[d]
      /\ ShowsNoMore(<<Other("Lobby")>>, <<>>)
  BY <1>2, OneView DEF Inv, TypeOK
<1>6. TypeOK' /\ RoomInv' /\ Numbered'
  BY <1>2, <1>3, <1>4, <1>5 DEF Inv, TypeOK, RoomInv, RoomOK, Numbered
<1>7. \A d \in Fds : Reached(d)' = Reached(d)
  BY <1>2, <1>4 DEF Reached
<1>8. ASSUME NEW d \in Fds PROVE ClientInv(d)'
  <2>1. CASE d # c
    <3>1. d \in Members(room') => d \in Members(room)
      BY <1>3, <2>1
    <3> QED BY <1>2, <1>4, <1>5, <1>7, <2>1, <3>1, ClientTypes, Elsewhere
  <2>2. CASE d = c
    <3> DEFINE s == <<Other("Lobby")>>
    <3>1. \A i \in DOMAIN s : s[i].view # "Game"
      BY <1>5 DEF ShowsNoMore
    <3>2. Screens(s, game) = {} /\ Inits(<<>>, game) = {} /\ InputsOf(<<>>, game) = {}
      BY <3>1 DEF Screens, Inits, InputsOf
    <3>3. Known(s, <<>>, <<>>, game) /\ Once(s, <<>>, game)
      BY <3>1, <3>2 DEF Known, Once
    <3>4. Tracked(s, <<>>, <<>>, game, Reached(c))
      <4> DEFINE m == Reached(c)
      <4>1. m \in Progress /\ m \in Int
        BY ClientTypes
      <4> HIDE DEF m
      <4>2. m .. m - 1 = {} /\ m <= m
        BY <4>1
      <4>3. Carries(<<>>, game, m, m)
        BY <3>2, <4>2 DEF Carries
      <4> QED BY <3>2, <4>1, <4>3 DEF Tracked, m
    <3> HIDE DEF s
    <3> QED BY <1>2, <1>5, <1>7, <2>2, <3>3, <3>4 DEF ClientInv, s
  <2> QED BY <2>1, <2>2
<1> QED BY <1>6, <1>8 DEF Inv

\* The word on the screen is sent, and the screen moves on to the next.
LEMMA TypeWordStep ==
    ASSUME Inv, NEW c \in Fds, TypeWord(c)
    PROVE  Inv'
<1> DEFINE s == stack[c]
           v == Last(s)
           u == GameScreen(v.game, v.word + 1)
           new == Append(Front(s), u)
           q == toServer[c]
           r == [type |-> "input", word |-> v.word, game |-> v.game]
           b == inbox[c]
           m == Reached(c)
<1>1. /\ s # <<>> /\ v.view = "Game" /\ v.word < TotalWords
      /\ stack' = [stack EXCEPT ![c] = new]
      /\ toServer' = [toServer EXCEPT ![c] = Append(q, r)]
      /\ UNCHANGED <<room, late, game, players, stray, joins, training, taken, textInput, inbox>>
  BY DEF TypeWord, OnView, Send, Show, roomVars
<1>2. s \in Seq(View) /\ q \in Seq(Request) /\ ClientInv(c) /\ game \in Nat /\ m \in Int
  BY ClientTypes
<1> DEFINE n == Len(s)
<1>3. /\ n \in Nat \ {0} /\ v = s[n] /\ v \in View
      /\ Front(s) \in Seq(View) /\ Len(Front(s)) = n - 1
      /\ \A i \in 1 .. n - 1 : Front(s)[i] = s[i]
  BY <1>1, <1>2, FrontIs DEF Last
<1>4. /\ v.word \in 0 .. TotalWords /\ v.game \in Nat /\ v.word \in 0 .. TotalWords - 1
      /\ v.word + 1 \in 0 .. TotalWords /\ v.word \in Int /\ v.word + 1 \in Progress
  BY <1>1, <1>3, RoomAssumption DEF View, Progress, NoEntry
<1>5. r \in Request /\ r.type = "input" /\ r.game = v.game /\ r.word = v.word
  BY <1>4 DEF Request
<1>6. u \in View /\ u.view = "Game" /\ u.game = v.game /\ u.word = v.word + 1
  BY <1>4 DEF GameScreen, View
<1> HIDE DEF u, r, v
<1>7. /\ new \in Seq(View) /\ DOMAIN new = 1 .. n /\ DOMAIN s = 1 .. n
      /\ \A i \in 1 .. n - 1 : new[i] = s[i]
      /\ new[n] = u
  <2> DEFINE f == Front(s)
  <2>1. f \in Seq(View) /\ Len(f) = n - 1 /\ n - 1 \in Nat /\ (n - 1) + 1 = n
    BY <1>3
  <2> HIDE DEF f, n
  <2>2. /\ Append(f, u) \in Seq(View) /\ DOMAIN Append(f, u) = 1 .. Len(f) + 1
        /\ \A i \in 1 .. Len(f) : Append(f, u)[i] = f[i]
        /\ Append(f, u)[Len(f) + 1] = u
    BY <1>6, <2>1, AppendIs
  <2>3. DOMAIN s = 1 .. n
    BY <1>2, LenProperties DEF n
  <2>4. \A i \in 1 .. n - 1 : f[i] = s[i]
    BY <1>3 DEF f
  <2> QED BY <2>1, <2>2, <2>3, <2>4 DEF f
<1>8. Append(q, r) \in Seq(Request)
      /\ \A i \in DOMAIN Append(q, r) : (i \in DOMAIN q /\ Append(q, r)[i] = q[i]) \/ Append(q, r)[i] = r
  BY <1>2, <1>5, AppendIs
<1> HIDE DEF new, n, s, q, m, b
<1>9. /\ stack' \in [Fds -> Seq(View)] /\ stack'[c] = new
      /\ toServer' \in [Fds -> Seq(Request)] /\ toServer'[c] = Append(q, r)
      /\ \A d \in Fds \ {c} : stack'[d] = stack[d] /\ toServer'[d] = toServer[d]
  BY <1>1, <1>7, <1>8 DEF Inv, TypeOK
<1>10. TypeOK' /\ RoomInv' /\ Numbered'
  BY <1>1, <1>9 DEF Inv, TypeOK, RoomInv, Numbered
<1>11. \A i \in 1 .. n : new[i].view = "Game" <=> s[i].view = "Game"
  BY <1>1, <1>3, <1>6, <1>7
<1>12. \A i \in 1 .. n : new[i].view = "Game" => new[i].game = s[i].game
  BY <1>1, <1>3, <1>6, <1>7
<1>13. Screens(new, game) = Screens(s, game)
  BY <1>7, <1>11, <1>12 DEF Screens
<1>14. n \in 1 .. n
  BY <1>3
<1>15. Known(s, b, q, game) /\ Once(s, b, game)
  BY <1>2 DEF ClientInv, s, b, q
<1>16. Known(new, b, Append(q, r), game) /\ Once(new, b, game)
  <2>1. v.game <= game
    BY <1>1, <1>3, <1>7, <1>14, <1>15 DEF Known
  <2>2. \A i \in DOMAIN new : new[i].view = "Game" => new[i].game <= game
    BY <1>7, <1>11, <1>12, <1>15 DEF Known
  <2>3. \A i \in DOMAIN Append(q, r) : Append(q, r)[i].type = "input" => Append(q, r)[i].game <= game
    BY <1>5, <1>8, <1>15, <2>1 DEF Known
  <2> QED BY <1>13, <1>15, <2>2, <2>3 DEF Known, Once
<1>17. ASSUME Tracked(s, b, q, game, m) PROVE Tracked(new, b, Append(q, r), game, m)
  <2>1. PICK w \in Progress : /\ Carries(q, game, m, w)
                              /\ \A i \in Screens(s, game) : s[i].word = w
                              /\ Inits(b, game) # {} => w = 0
    BY <1>17 DEF Tracked
  <2>2. CASE v.game = game
    <3>1. n \in Screens(s, game)
      BY <1>1, <1>3, <1>7, <1>14, <2>2 DEF Screens
    <3>2. v.word = w /\ w \in Int
      BY <1>3, <1>4, <2>1, <3>1
    <3>3. Carries(Append(q, r), game, m, w + 1)
      BY <1>2, <1>5, <2>1, <2>2, <3>2, AppendInput DEF q, m
    <3>4. Screens(s, game) = {n}
      BY <1>15, <3>1 DEF Once
    <3>5. \A i \in Screens(new, game) : new[i].word = w + 1
      BY <1>6, <1>7, <1>13, <3>2, <3>4
    <3>6. Inits(b, game) = {}
      BY <1>15, <3>1 DEF Once
    <3>7. w + 1 \in Progress
      BY <1>4, <3>2
    <3> QED BY <3>3, <3>5, <3>6, <3>7 DEF Tracked
  <2>3. CASE v.game # game
    <3>1. Carries(Append(q, r), game, m, w)
      BY <1>2, <1>5, <2>1, <2>3, AppendOther DEF q
    <3>2. n \notin Screens(s, game)
      BY <1>3, <2>3 DEF Screens
    <3>3. \A i \in Screens(new, game) : new[i] = s[i]
      <4>1. \A i \in 1 .. n : i # n => i \in 1 .. n - 1
        BY <1>3
      <4> QED BY <1>7, <1>13, <3>2, <4>1 DEF Screens
    <3>4. \A i \in Screens(new, game) : new[i].word = w
      BY <1>13, <2>1, <3>3
    <3> QED BY <2>1, <3>1, <3>4 DEF Tracked
  <2> QED BY <2>2, <2>3
<1>18. ASSUME NEW d \in Fds PROVE ClientInv(d)'
  <2>3. Reached(d)' = Reached(d)
    BY <1>1 DEF Reached
  <2>1. CASE d # c
    BY <1>1, <1>9, <2>1, <2>3, ClientTypes, Elsewhere
  <2>2. CASE d = c
    <3>1. room.started /\ ~stray /\ c \in Members(room) => Tracked(s, b, q, game, m)
      BY <1>2 DEF ClientInv, s, b, q, m
    <3> QED BY <1>1, <1>9, <1>16, <1>17, <2>2, <2>3, <3>1 DEF ClientInv, b, m
  <2> QED BY <2>1, <2>2
<1> QED BY <1>10, <1>18 DEF Inv
\* A game message is taken: a view is pushed, which is the running game's screen
\* exactly if the message was the one that said it had started.
LEMMA TakenEvent ==
    ASSUME NEW s \in Seq(View), NEW b \in Seq(Event), b # <<>>, NEW q, NEW g \in Nat,
           Known(s, b, q, g), Once(s, b, g),
           NEW u \in View,
           \/ Head(b).type = "game_init" /\ u = GameScreen(Head(b).game, 0)
           \/ Head(b).type # "game_init" /\ u.view # "Game"
    PROVE  /\ Known(Append(s, u), Tail(b), q, g)
           /\ Once(Append(s, u), Tail(b), g)
           /\ \A m : Tracked(s, b, q, g, m) => Tracked(Append(s, u), Tail(b), q, g, m)
<1> DEFINE e == Head(b)
           new == Append(s, u)
           t == Tail(b)
           k == Len(s) + 1
<1>1. /\ Len(b) \in Nat \ {0} /\ e = b[1] /\ e \in Event
      /\ DOMAIN t = 1 .. Len(b) - 1 /\ DOMAIN b = 1 .. Len(b)
      /\ \A i \in 1 .. Len(b) - 1 : t[i] = b[i + 1]
  BY TailIs
<1>2. /\ Len(s) \in Nat /\ DOMAIN s = 1 .. Len(s) /\ DOMAIN new = 1 .. k
      /\ \A i \in 1 .. Len(s) : new[i] = s[i]
      /\ new[k] = u /\ k \in 1 .. k
  BY AppendIs
<1>3. \/ e.type = "game_init" /\ u.view = "Game" /\ u.game = e.game /\ u.word = 0
      \/ e.type # "game_init" /\ u.view # "Game"
  BY DEF GameScreen
<1> HIDE DEF e, new, t
<1>4. \A i \in DOMAIN t : i + 1 \in DOMAIN b /\ t[i] = b[i + 1] /\ i + 1 # 1 /\ i \in Nat
  BY <1>1
<1>5. 1 \in DOMAIN b
  BY <1>1
<1>6. \A i \in DOMAIN new : (i \in DOMAIN s /\ new[i] = s[i]) \/ (i = k /\ new[i] = u)
  BY <1>2
<1>7. \A i \in DOMAIN s : i \in DOMAIN new /\ new[i] = s[i] /\ i # k
  BY <1>2
<1>8. \A i \in Inits(t, g) : i + 1 \in Inits(b, g) /\ i + 1 # 1 /\ i \in Nat
  BY <1>4 DEF Inits
<1>9. Known(new, t, q, g)
  <2>1. e.game <= g
    BY <1>1, <1>5 DEF Known
  <2>2. \A i \in DOMAIN new : new[i].view = "Game" => new[i].game <= g
    BY <1>3, <1>6, <2>1 DEF Known
  <2>3. \A i \in DOMAIN t : t[i].game <= g
    BY <1>4, Zenon DEF Known
  <2> QED BY <2>2, <2>3 DEF Known
<1>10. CASE e.type = "game_init" /\ e.game = g
  <2>1. 1 \in Inits(b, g)
    BY <1>1, <1>5, <1>10 DEF Inits
  <2>2. Inits(t, g) = {}
    BY <1>8, <2>1, Zenon DEF Once
  <2>3. Screens(s, g) = {}
    BY <2>1, Zenon DEF Once
  <2>4. Screens(new, g) \subseteq {k}
    BY <1>6, <2>3 DEF Screens
  <2>5. Once(new, t, g)
    BY <2>2, <2>4 DEF Once
  <2>6. ASSUME NEW m, Tracked(s, b, q, g, m) PROVE Tracked(new, t, q, g, m)
    <3>1. PICK w \in Progress : Carries(q, g, m, w) /\ (Inits(b, g) # {} => w = 0)
      BY <2>6, Zenon DEF Tracked
    <3>2. w = 0
      BY <2>1, <3>1
    <3>3. \A i \in Screens(new, g) : new[i].word = w
      BY <1>2, <1>3, <1>10, <2>4, <3>2
    <3> QED BY <2>2, <3>1, <3>3, Zenon DEF Tracked
  <2> QED BY <1>9, <2>5, <2>6 DEF e, new, t
<1>11. CASE ~(e.type = "game_init" /\ e.game = g)
  <2>1. ~(u.view = "Game" /\ u.game = g)
    BY <1>3, <1>11
  <2>2. Screens(new, g) = Screens(s, g) /\ \A i \in Screens(s, g) : new[i] = s[i]
    BY <1>2, <1>6, <1>7, <2>1 DEF Screens
  <2>3. \A i, j \in Inits(t, g) : i = j
    <3> SUFFICES ASSUME NEW i \in Inits(t, g), NEW j \in Inits(t, g) PROVE i = j
      OBVIOUS
    <3>1. i + 1 \in Inits(b, g) /\ j + 1 \in Inits(b, g) /\ i \in Nat /\ j \in Nat
      BY <1>8
    <3>2. i + 1 = j + 1
      BY <3>1, Zenon DEF Once
    <3> QED BY <3>1, <3>2
  <2>4. Inits(t, g) # {} => Inits(b, g) # {}
    BY <1>8, Zenon
  <2>5. Once(new, t, g)
    BY <2>2, <2>3, <2>4, Zenon DEF Once
  <2>6. ASSUME NEW m, Tracked(s, b, q, g, m) PROVE Tracked(new, t, q, g, m)
    <3>1. PICK w \in Progress : /\ Carries(q, g, m, w)
                                /\ \A i \in Screens(s, g) : s[i].word = w
                                /\ Inits(b, g) # {} => w = 0
      BY <2>6, Zenon DEF Tracked
    <3>2. \A i \in Screens(new, g) : new[i].word = w
      BY <2>2, <3>1
    <3> QED BY <2>4, <3>1, <3>2, Zenon DEF Tracked
  <2> QED BY <1>9, <2>5, <2>6 DEF e, new, t
<1> QED BY <1>10, <1>11

LEMMA TakeEventStep ==
    ASSUME Inv, NEW c \in Fds, TakeEvent(c)
    PROVE  Inv'
<1> DEFINE s == stack[c]
           b == inbox[c]
           q == toServer[c]
           e == Head(b)
<1>1. s \in Seq(View) /\ b \in Seq(Event) /\ ClientInv(c) /\ game \in Nat
  BY ClientTypes
<1>2. /\ b # <<>> /\ inbox' = [inbox EXCEPT ![c] = Tail(b)]
      /\ UNCHANGED <<room, late, game, players, stray, joins, training, taken, toServer>>
  BY DEF TakeEvent, roomVars
<1>3. e \in Event /\ Tail(b) \in Seq(Event)
  BY <1>1, <1>2, TailIs
<1>4. PICK u \in View :
         /\ stack' = [stack EXCEPT ![c] = Append(s, u)]
         /\ \/ e.type = "game_init" /\ u = GameScreen(e.game, 0)
            \/ e.type # "game_init" /\ u.view # "Game"
  <2>1. GameScreen(e.game, 0) \in View /\ Other("Result") \in View /\ Other("TrainingResult") \in View
    BY <1>3, RoomAssumption DEF GameScreen, Other, View, Event
  <2>2. Other("Result").view # "Game" /\ Other("TrainingResult").view # "Game"
    BY DEF Other
  <2> HIDE DEF s
  <2>3. \/ e.type = "game_init" /\ Show(c, Append(s, GameScreen(e.game, 0)))
        \/ e.type # "game_init" /\ Show(c, Append(s, Other("Result")))
        \/ e.type # "game_init" /\ Show(c, Append(s, Other("TrainingResult")))
    BY DEF TakeEvent, s
  <2> QED BY <2>1, <2>2, <2>3 DEF Show
<1>5. textInput' \in [Fds -> BOOLEAN]
  BY DEF TakeEvent, Inv, TypeOK
<1>6. Append(s, u) \in Seq(View)
  BY <1>1, AppendProperties
<1> DEFINE new == Append(s, u)
           t == Tail(b)
<1> HIDE DEF new, t
<1>7. /\ stack' \in [Fds -> Seq(View)] /\ stack'[c] = new
      /\ inbox' \in [Fds -> Seq(Event)] /\ inbox'[c] = t
      /\ \A d \in Fds \ {c} : stack'[d] = stack[d] /\ inbox'[d] = inbox[d]
  BY <1>2, <1>3, <1>4, <1>6 DEF Inv, TypeOK, new, t
<1>8. TypeOK' /\ RoomInv' /\ Numbered'
  BY <1>2, <1>5, <1>7 DEF Inv, TypeOK, RoomInv, Numbered
<1>9. /\ Known(new, t, q, game) /\ Once(new, t, game)
      /\ \A m : Tracked(s, b, q, game, m) => Tracked(new, t, q, game, m)
  <2>1. Known(s, b, q, game) /\ Once(s, b, game)
    BY <1>1 DEF ClientInv
  <2> HIDE DEF s, b, q
  <2> QED BY <1>1, <1>2, <1>4, <2>1, TakenEvent DEF new, t
<1>10. ASSUME NEW d \in Fds PROVE ClientInv(d)'
  <2>1. Reached(d)' = Reached(d)
    BY <1>2 DEF Reached
  <2>2. CASE d # c
    BY <1>2, <1>7, <2>1, <2>2, ClientTypes, Elsewhere
  <2>3. CASE d = c
    BY <1>1, <1>2, <1>7, <1>9, <2>1, <2>3 DEF ClientInv
  <2> QED BY <2>2, <2>3
<1> QED BY <1>8, <1>10 DEF Inv

LEMMA TimeUpStep ==
    ASSUME Inv, TimeUp
    PROVE  Inv'
<1>1. UNCHANGED <<room, game, players, stray, joins, training, taken, stack, textInput, toServer, inbox>>
      /\ late' = TRUE
  BY DEF TimeUp, viewVars
<1>2. TypeOK' /\ RoomInv' /\ Numbered'
  BY <1>1 DEF Inv, TypeOK, RoomInv, Numbered
<1>3. \A d \in Fds : Reached(d)' = Reached(d)
  BY <1>1 DEF Reached
<1>4. \A d \in Fds : ClientInv(d)'
  BY <1>1, <1>3, ClientTypes, Elsewhere
<1> QED BY <1>2, <1>4 DEF Inv
-----------------------------------------------------------------------------
(* What the methods of the room leave of the game. *)

\* The metrics and the started flag are those of rm.
SameGame(new, rm) == new.metrics = rm.metrics /\ new.started = rm.started

LEMMA SetReadyGame ==
    ASSUME NEW rm \in RoomType, NEW fd \in Members(rm)
    PROVE  SameGame(SetReady(rm, fd, TRUE), rm)
BY DEF SetReady, SameGame, RoomType

LEMMA RemovePlayerGame ==
    ASSUME NEW rm \in RoomType, NEW fd \in Members(rm)
    PROVE  RemovePlayer(rm, fd).started = rm.started
BY DEF RemovePlayer, RecalculateHost, RoomType

LEMMA ProcessInputGame ==
    ASSUME NEW rm \in RoomType, NEW fd \in Fds, NEW w \in Int
    PROVE  /\ ProcessInput(rm, fd, w).started = rm.started
           /\ ProcessInput(rm, fd, w).metrics[fd] = NextWord(rm.metrics[fd], w)
           /\ \A f \in Fds \ {fd} : ProcessInput(rm, fd, w).metrics[f] = rm.metrics[f]
BY DEF ProcessInput, RoomType

LEMMA EndGameGame ==
    ASSUME NEW rm \in RoomType
    PROVE  ~EndGame(rm).started
BY DEF EndGame, RoomType

LEMMA StartGameGame ==
    ASSUME NEW rm \in RoomType, NEW fd \in Members(rm)
    PROVE  StartGame(rm).metrics[fd] = 0
<1>1. fd \in Fds
  BY MemberSeat
<1> QED BY <1>1 DEF StartGame, RoomType

\* A word that is not behind the one a player is at takes it to the next.
LEMMA NextWordIs ==
    ASSUME NEW m \in Progress, NEW w \in Nat, m <= w
    PROVE  NextWord(m, w) = w + 1
BY DEF NextWord, NoEntry, Progress

-----------------------------------------------------------------------------
(* The server handles a request. *)

\* What the handler of the head of requests q may do to the game of a player: the
\* word it should bring has reached the server.
Scored(c, q) ==
    IF Head(q).type = "input" /\ Head(q).game = game
    THEN Head(q).word = Reached(c) => Reached(c)' = Reached(c) + 1
    ELSE Reached(c)' = Reached(c)

\* Some clients are told something, and no client that a game has started.
Tells(S, e) ==
    /\ e \in Event /\ e.type # "game_init" /\ e.game <= game
    /\ inbox' = [d \in Fds |-> IF d \in S THEN Append(inbox[d], e) ELSE inbox[d]]
Quiet == \E S, e : Tells(S, e)

LEMMA QuietIs ==
    ASSUME Inv
    PROVE  /\ inbox' = inbox => Quiet
           /\ \A c \in Fds :
                 inbox' = [inbox EXCEPT ![c] = Append(@, [type |-> "training_end", game |-> 0])] => Quiet
           /\ \A rm : room.started /\ Broadcast(rm, [type |-> "game_end", game |-> game]) => Quiet
<1> DEFINE e == [type |-> "training_end", game |-> 0]
           f == [type |-> "game_end", game |-> game]
<1>1. game \in Nat /\ inbox \in [Fds -> Seq(Event)] /\ (room.started => game # 0)
  BY DEF Inv, TypeOK, Numbered
<1>2. e \in Event /\ e.type # "game_init" /\ e.game <= game
  BY <1>1 DEF Event
<1>3. room.started => f \in Event /\ f.type # "game_init" /\ f.game <= game
  BY <1>1 DEF Event
<1> HIDE DEF e, f
<1>4. ASSUME inbox' = inbox PROVE Quiet
  <2>1. inbox' = [d \in Fds |-> IF d \in {} THEN Append(inbox[d], e) ELSE inbox[d]]
    BY <1>1, <1>4
  <2>2. Tells({}, e)
    BY <1>2, <2>1 DEF Tells
  <2> QED BY <2>2, Zenon DEF Quiet
<1>5. ASSUME NEW c \in Fds, inbox' = [inbox EXCEPT ![c] = Append(@, e)] PROVE Quiet
  <2>1. inbox' = [d \in Fds |-> IF d \in {c} THEN Append(inbox[d], e) ELSE inbox[d]]
    BY <1>1, <1>5
  <2>2. Tells({c}, e)
    BY <1>2, <2>1 DEF Tells
  <2> QED BY <2>2, Zenon DEF Quiet
<1>6. ASSUME NEW rm, room.started, Broadcast(rm, f) PROVE Quiet
  BY <1>3, <1>6, Zenon DEF Quiet, Tells, Broadcast
<1> QED BY <1>4, <1>5, <1>6 DEF e, f

\* A handler that starts no game takes what it takes into account, and nothing else.
LEMMA Handled ==
    ASSUME Inv, NEW c \in Fds, toServer[c] # <<>>,
           toServer' = [toServer EXCEPT ![c] = Tail(@)], UNCHANGED viewVars,
           UNCHANGED <<game, joins>>,
           late' \in BOOLEAN, players' \in SUBSET Fds, stray' \in BOOLEAN,
           training' \in [Fds -> BOOLEAN], taken' \in [Fds -> Nat],
           room' \in RoomType, RoomInv', room'.started => room.started, Quiet,
           room'.started /\ ~stray' =>
               /\ room.started /\ ~stray
               /\ Members(room') \subseteq Members(room)
               /\ \A d \in Members(room') \ {c} : Reached(d)' = Reached(d)
               /\ c \in Members(room') => Scored(c, toServer[c])
    PROVE  Inv'
<1> DEFINE q == toServer[c]
<1>1. game \in Nat /\ q \in Seq(Request) /\ q # <<>>
  BY ClientTypes
<1>2. PICK S, e : /\ e \in Event /\ e.type # "game_init" /\ e.game <= game
                  /\ inbox' = [d \in Fds |-> IF d \in S THEN Append(inbox[d], e) ELSE inbox[d]]
  BY Zenon DEF Quiet, Tells
<1>3. \A d \in Fds : inbox'[d] = inbox[d] \/ inbox'[d] = Append(inbox[d], e)
  BY <1>2
<1>4. inbox' \in [Fds -> Seq(Event)]
  <2>1. \A d \in Fds : inbox[d] \in Seq(Event) /\ Append(inbox[d], e) \in Seq(Event)
    BY <1>2, ClientTypes, AppendProperties
  <2> QED BY <1>2, <2>1
<1>5. /\ Tail(q) \in Seq(Request) /\ Head(q) \in Request
      /\ DOMAIN q = 1 .. Len(q) /\ DOMAIN Tail(q) = 1 .. Len(q) - 1 /\ Len(q) \in Nat \ {0}
      /\ \A i \in 1 .. Len(q) - 1 : Tail(q)[i] = q[i + 1]
  BY <1>1, TailIs
<1>6. /\ toServer' \in [Fds -> Seq(Request)] /\ toServer'[c] = Tail(q)
      /\ \A d \in Fds \ {c} : toServer'[d] = toServer[d]
  BY <1>5 DEF Inv, TypeOK
<1>7. stack' = stack /\ textInput' = textInput
  BY DEF viewVars
<1>8. TypeOK' /\ Numbered'
  BY <1>4, <1>6, <1>7 DEF Inv, TypeOK, Numbered
<1>9. ASSUME NEW d \in Fds PROVE ClientInv(d)'
  <2> DEFINE s == stack[d]
             b == inbox[d]
             new == inbox'[d]
             r == toServer[d]
             m == Reached(d)
             n == Reached(d)'
  <2>1. /\ b \in Seq(Event) /\ r \in Seq(Request) /\ m \in Int
        /\ Known(s, b, r, game) /\ Once(s, b, game)
        /\ room.started /\ ~stray /\ d \in Members(room) => Tracked(s, b, r, game, m)
    BY ClientTypes DEF ClientInv
  <2>2. Inits(new, game) = Inits(b, game)
    <3>1. new = b \/ new = Append(b, e)
      BY <1>3
    <3> HIDE DEF b, new
    <3>2. Inits(Append(b, e), game) = Inits(b, game)
      BY <1>2, <2>1, AppendEvent
    <3> QED BY <3>1, <3>2
  <2>3. \A i \in DOMAIN new : new[i].game <= game
    <3>1. CASE new = b
      BY <2>1, <3>1 DEF Known
    <3>2. CASE new = Append(b, e)
      <4>1. \A i \in DOMAIN new : (i \in DOMAIN b /\ new[i] = b[i]) \/ new[i] = e
        BY <1>2, <2>1, <3>2, AppendEvent
      <4> QED BY <1>1, <1>2, <2>1, <4>1, SMTT(30) DEF Known
    <3> QED BY <1>3, <3>1, <3>2
  <2> HIDE DEF s, b, new, r, m, n
  <2>4. Once(s, new, game)
    BY <2>1, <2>2 DEF Once
  <2>5. CASE d # c
    <3>1. Known(s, new, r, game)
      BY <2>1, <2>3 DEF Known
    <3>2. ASSUME room'.started, ~stray', d \in Members(room')
          PROVE  Tracked(s, new, r, game, n)
      <4>1. Tracked(s, b, r, game, m) /\ n = m
        BY <2>1, <2>5, <3>2 DEF m, n
      <4> QED BY <2>2, <4>1 DEF Tracked
    <3> QED BY <1>6, <1>7, <2>4, <2>5, <3>1, <3>2 DEF ClientInv, s, new, r, n
  <2>6. CASE d = c
    <3>1. r = q /\ toServer'[d] = Tail(r)
      BY <1>6, <2>6 DEF r
    <3> HIDE DEF q
    <3>2. \A i \in DOMAIN Tail(r) : \E j \in DOMAIN r : Tail(r)[i] = r[j]
      <4>1. \A i \in 1 .. Len(q) - 1 : i + 1 \in 1 .. Len(q)
        BY <1>5
      <4> QED BY <1>5, <3>1, <4>1, Zenon
    <3>3. Known(s, new, Tail(r), game)
      BY <2>1, <2>3, <3>2 DEF Known
    <3>4. ASSUME room'.started, ~stray', d \in Members(room')
          PROVE  Tracked(s, new, Tail(r), game, n)
      <4>1. Tracked(s, b, r, game, m)
        BY <2>1, <2>6, <3>4
      <4>2. PICK w \in Progress : /\ Carries(r, game, m, w)
                                  /\ \A i \in Screens(s, game) : s[i].word = w
                                  /\ Inits(b, game) # {} => w = 0
        BY <4>1 DEF Tracked
      <4>3. w \in Int
        BY RoomAssumption DEF Progress, NoEntry
      <4>4. IF Head(r).type = "input" /\ Head(r).game = game
            THEN Head(r).word = m => n = m + 1
            ELSE n = m
        BY <2>6, <3>4 DEF Scored, m, n, r
      <4>5. Carries(Tail(r), game, n, w)
        <5>1. CASE Head(r).type = "input" /\ Head(r).game = game
          <6>1. Head(r).word = m /\ Carries(Tail(r), game, m + 1, w)
            BY <1>1, <2>1, <3>1, <4>2, <4>3, <5>1, TailInput
          <6> QED BY <4>4, <5>1, <6>1
        <5>2. CASE ~(Head(r).type = "input" /\ Head(r).game = game)
          <6>1. Carries(Tail(r), game, m, w)
            BY <1>1, <2>1, <3>1, <4>2, <5>2, TailOther
          <6> QED BY <4>4, <5>2, <6>1
        <5> QED BY <5>1, <5>2
      <4> QED BY <2>2, <4>2, <4>5 DEF Tracked
    <3> QED BY <1>7, <2>4, <2>6, <3>1, <3>3, <3>4 DEF ClientInv, s, new, n
  <2> QED BY <2>5, <2>6
<1> QED BY <1>8, <1>9 DEF Inv
\* Views, messages and requests that know of no game after g, when the next one
\* starts.
LEMMA NextGame ==
    ASSUME NEW s \in Seq(View), NEW b \in Seq(Event), NEW q \in Seq(Request), NEW g \in Nat,
           Known(s, b, q, g)
    PROVE  /\ Known(s, b, q, g + 1)
           /\ Screens(s, g + 1) = {} /\ Inits(b, g + 1) = {} /\ InputsOf(q, g + 1) = {}
<1>1. /\ \A i \in DOMAIN s : s[i].game \in Nat
      /\ \A i \in DOMAIN b : b[i].game \in Nat
      /\ \A i \in DOMAIN q : q[i].type = "input" => q[i].game \in Nat
  <2>1. \A i \in DOMAIN s : s[i] \in View
    BY ElementOfSeq, LenProperties
  <2>2. \A i \in DOMAIN b : b[i] \in Event
    BY ElementOfSeq, LenProperties
  <2>3. \A i \in DOMAIN q : q[i] \in Request
    BY ElementOfSeq, LenProperties
  <2> QED BY <2>1, <2>2, <2>3, RequestIs DEF View, Event
<1>2. \A n \in Nat : n <= g => n <= g + 1 /\ n # g + 1
  OBVIOUS
<1>3. \A i \in DOMAIN s : s[i].view = "Game" => s[i].game <= g + 1 /\ s[i].game # g + 1
  BY <1>1, <1>2 DEF Known
<1>4. \A i \in DOMAIN b : b[i].game <= g + 1 /\ b[i].game # g + 1
  BY <1>1, <1>2 DEF Known
<1>5. \A i \in DOMAIN q : q[i].type = "input" => q[i].game <= g + 1 /\ q[i].game # g + 1
  BY <1>1, <1>2 DEF Known
<1> QED BY <1>3, <1>4, <1>5 DEF Known, Screens, Inits, InputsOf

\* Requests that are handled leave no later game behind.
LEMMA TailKnown ==
    ASSUME NEW q \in Seq(Request), q # <<>>, NEW s, NEW b, NEW g, Known(s, b, q, g)
    PROVE  Known(s, b, Tail(q), g)
<1>1. \A i \in DOMAIN Tail(q) : \E j \in DOMAIN q : Tail(q)[i] = q[j]
  BY TailIs
<1> QED BY <1>1 DEF Known

\* A game starts, over a running one or not: all its players are at word 0, on
\* their way to a screen that says so, and have typed nothing in it.
LEMMA Started ==
    ASSUME Inv, NEW c \in Fds, toServer[c] # <<>>,
           toServer' = [toServer EXCEPT ![c] = Tail(@)], UNCHANGED viewVars,
           RoomOK(room), room' = StartGame(room), late' = FALSE, game' = game + 1,
           players' = Members(room), stray' = FALSE, UNCHANGED <<joins, training>>,
           taken' = [d \in Fds |-> 0],
           Broadcast(room, [type |-> "game_init", game |-> game + 1])
    PROVE  Inv'
<1> DEFINE e == [type |-> "game_init", game |-> game + 1]
           g == game + 1
<1>1. game \in Nat /\ toServer[c] \in Seq(Request) /\ room \in RoomType
  BY ClientTypes
<1>2. e \in Event /\ e.type = "game_init" /\ e.game = g
  BY <1>1 DEF Event
<1>3. RoomOK(room') /\ Members(room') = Members(room) /\ Members(room) \subseteq Fds
  BY <1>1, StartGameSeats, MemberSeat DEF SameSeats
<1>4. inbox' = [d \in Fds |-> IF d \in Members(room) THEN Append(inbox[d], e) ELSE inbox[d]]
  BY DEF Broadcast
<1> HIDE DEF e
<1>5. inbox' \in [Fds -> Seq(Event)]
  <2>1. \A d \in Fds : inbox[d] \in Seq(Event) /\ Append(inbox[d], e) \in Seq(Event)
    BY <1>2, ClientTypes, AppendProperties
  <2> QED BY <1>4, <2>1
<1>6. /\ toServer' \in [Fds -> Seq(Request)] /\ toServer'[c] = Tail(toServer[c])
      /\ \A d \in Fds \ {c} : toServer'[d] = toServer[d]
  BY <1>1, TailIs DEF Inv, TypeOK
<1>7. stack' = stack /\ textInput' = textInput
  BY DEF viewVars
<1>8. TypeOK' /\ RoomInv' /\ Numbered'
  <2>1. room' \in RoomType /\ RoomInv'
    BY <1>3 DEF RoomInv, RoomOK
  <2>4. training' \in [Fds -> BOOLEAN] /\ taken' \in [Fds -> Nat]
    BY DEF Inv, TypeOK
  <2>5. Numbered'
    BY <1>1 DEF Numbered
  <2>2. /\ game' \in Nat /\ late' \in BOOLEAN /\ players' \in SUBSET Fds
        /\ stray' \in BOOLEAN /\ joins' \in Nat
    <3>1. joins \in Nat
      BY DEF Inv, TypeOK
    <3>2. game + 1 \in Nat
      BY <1>1
    <3> QED BY <1>3, <3>1, <3>2, Zenon
  <2>3. stack' \in [Fds -> Seq(View)] /\ textInput' \in [Fds -> BOOLEAN]
    BY <1>7 DEF Inv, TypeOK
  <2> QED BY <1>5, <1>6, <2>1, <2>2, <2>3, <2>4, <2>5, Zenon DEF TypeOK
<1>9. ASSUME NEW d \in Fds PROVE ClientInv(d)'
  <2> DEFINE s == stack[d]
             b == inbox[d]
             new == inbox'[d]
             q == toServer'[d]
  <2>1. /\ s \in Seq(View) /\ b \in Seq(Event) /\ q \in Seq(Request)
        /\ Known(s, b, toServer[d], game) /\ toServer[d] \in Seq(Request)
    BY <1>6, ClientTypes DEF ClientInv
  <2>2. Known(s, b, q, game)
    <3>1. CASE d # c
      BY <1>6, <2>1, <3>1
    <3>2. CASE d = c
      <4> HIDE DEF s, b
      <4> QED BY <1>6, <2>1, <3>2, TailKnown
    <3> QED BY <3>1, <3>2
  <2>3. IF d \in Members(room) THEN new = Append(b, e) ELSE new = b
    BY <1>4
  <2> HIDE DEF s, b, new, q
  <2>4. /\ Known(s, b, q, g)
        /\ Screens(s, g) = {} /\ Inits(b, g) = {} /\ InputsOf(q, g) = {}
    BY <1>1, <2>1, <2>2, NextGame
  <2>5. \A i \in DOMAIN Append(b, e) : (i \in DOMAIN b /\ Append(b, e)[i] = b[i]) \/ Append(b, e)[i] = e
    BY <1>2, <2>1, AppendEvent
  <2>6. Inits(Append(b, e), g) = {Len(b) + 1}
    <3>1. Inits(Append(b, e), g) = Inits(b, g) \cup {Len(b) + 1}
      BY <1>2, <2>1, AppendEvent
    <3> QED BY <2>4, <3>1
  <2>7. Known(s, Append(b, e), q, g)
    BY <1>1, <1>2, <2>4, <2>5 DEF Known
  <2>8. Known(s, new, q, g) /\ Once(s, new, g)
    <3> HIDE DEF g
    <3>1. CASE d \in Members(room)
      <4>1. new = Append(b, e)
        BY <2>3, <3>1
      <4>2. \A i, j \in {Len(b) + 1} : i = j
        OBVIOUS
      <4>3. Once(s, Append(b, e), g)
        BY <2>4, <2>6, <4>2, Zenon DEF Once
      <4> QED BY <2>7, <4>1, <4>3
    <3>2. CASE d \notin Members(room)
      <4>1. new = b
        BY <2>3, <3>2
      <4>2. Once(s, b, g)
        BY <2>4 DEF Once
      <4> QED BY <2>4, <4>1, <4>2
    <3> QED BY <3>1, <3>2
  <2>9. Tracked(s, new, q, g, 0)
    <3>1. 0 .. 0 - 1 = {} /\ 0 <= 0 /\ 0 \in Progress
      BY RoomAssumption DEF Progress, NoEntry
    <3>2. Carries(q, g, 0, 0)
      BY <2>4, <3>1 DEF Carries
    <3> QED BY <2>4, <3>1, <3>2 DEF Tracked
  <2>10. d \in Members(room') => Reached(d)' = 0
    <3>1. d \in Members(room') => room'.metrics[d] = 0
      BY <1>1, <1>3, StartGameGame
    <3>2. taken'[d] = 0
      OBVIOUS
    <3> QED BY <3>1, <3>2 DEF Reached
  <2> QED BY <1>7, <2>8, <2>9, <2>10 DEF ClientInv, s, new, q
<1> QED BY <1>8, <1>9 DEF Inv

\* An unfinished training takes an input.
LEMMA TrainingStep ==
    ASSUME Inv, NEW c \in Fds, toServer[c] # <<>>,
           toServer' = [toServer EXCEPT ![c] = Tail(@)], UNCHANGED viewVars,
           Head(toServer[c]).type = "input", TakenByTraining(c, Head(toServer[c]))
    PROVE  Inv'
<1> DEFINE m == Head(toServer[c])
<1>1. /\ m \in Request /\ room \in RoomType /\ RoomInv
      /\ late \in BOOLEAN /\ players \in SUBSET Fds /\ stray \in BOOLEAN
      /\ training \in [Fds -> BOOLEAN] /\ taken \in [Fds -> Nat]
  BY ClientTypes, TailIs DEF TypeOK
<1>2. UNCHANGED <<room, late, game, players, stray, joins>>
  BY DEF TakenByTraining
<1>3. m.word \in Nat /\ m.game \in Nat
  BY <1>1, RequestIs
<1>4. Quiet /\ training' \in [Fds -> BOOLEAN]
  <2>1. CASE UNCHANGED <<training, inbox>>
    BY <1>1, <2>1, QuietIs
  <2>2. CASE /\ training' = [training EXCEPT ![c] = FALSE]
             /\ inbox' = [inbox EXCEPT ![c] = Append(@, [type |-> "training_end", game |-> 0])]
    BY <1>1, <2>2, QuietIs
  <2> QED BY <2>1, <2>2 DEF TakenByTraining
<1>5. taken' = IF m.game = game THEN [taken EXCEPT ![c] = m.word + 1] ELSE taken
  BY DEF TakenByTraining
<1> HIDE DEF m
<1>6. /\ taken' \in [Fds -> Nat]
      /\ \A d \in Fds \ {c} : taken'[d] = taken[d]
      /\ m.game = game => taken'[c] = m.word + 1
      /\ m.game # game => taken'[c] = taken[c]
  BY <1>1, <1>3, <1>5
<1>7. \A d \in Fds \ {c} : Reached(d)' = Reached(d)
  BY <1>2, <1>6 DEF Reached
<1>8. Scored(c, toServer[c])
  <2>1. CASE m.game = game
    <3>1. ASSUME m.word = Reached(c) PROVE Reached(c)' = Reached(c) + 1
      <4>1. room.metrics[c] \in Int /\ room.metrics[c] <= Reached(c)
        BY ClientTypes DEF Reached
      <4>2. taken'[c] > room'.metrics[c]
        BY <1>2, <1>3, <1>6, <2>1, <3>1, <4>1
      <4> QED BY <1>6, <2>1, <3>1, <4>2 DEF Reached
    <3> QED BY <2>1, <3>1, Zenon DEF Scored, m
  <2>2. CASE m.game # game
    <3>1. Reached(c)' = Reached(c)
      BY <1>2, <1>6, <2>2 DEF Reached
    <3> QED BY <2>2, <3>1, Zenon DEF Scored, m
  <2> QED BY <2>1, <2>2
<1>9. Members(room) \subseteq Fds
  BY <1>1, MemberSeat
<1>10. /\ late' \in BOOLEAN /\ players' \in SUBSET Fds /\ stray' \in BOOLEAN
       /\ room' \in RoomType /\ RoomInv'
  BY <1>1, <1>2 DEF RoomInv
<1> QED BY <1>2, <1>4, <1>6, <1>7, <1>8, <1>9, <1>10, Handled

\* The room scores an input, and may find its game ended.
LEMMA RoomInputStep ==
    ASSUME Inv, NEW c \in Fds, toServer[c] # <<>>,
           toServer' = [toServer EXCEPT ![c] = Tail(@)], UNCHANGED viewVars,
           Head(toServer[c]).type = "input", ScoredInRoom(c, Head(toServer[c])),
           Seated(c), room.started
    PROVE  Inv'
<1> DEFINE m == Head(toServer[c])
           scored == ProcessInput(room, c, m.word)
<1>1. /\ m \in Request /\ room \in RoomType /\ RoomInv
      /\ late \in BOOLEAN /\ players \in SUBSET Fds /\ stray \in BOOLEAN
      /\ training \in [Fds -> BOOLEAN] /\ taken \in [Fds -> Nat]
  BY ClientTypes, TailIs DEF TypeOK
<1>2. m.type = "input" /\ m.word \in Nat
  BY <1>1, RequestIs
<1>3. RoomOK(room) /\ c \in Members(room)
  BY RoomIs DEF Seated
<1>4. /\ SameSeats(scored, room) /\ scored.started = room.started
      /\ scored.metrics[c] = NextWord(room.metrics[c], m.word)
      /\ \A d \in Fds \ {c} : scored.metrics[d] = room.metrics[d]
  <2> DEFINE w == m.word
  <2>1. w \in Int
    BY <1>2
  <2> HIDE DEF w
  <2>2. SameSeats(ProcessInput(room, c, w), room)
    BY <1>1, <1>3, <2>1, ProcessInputSeats
  <2>3. /\ ProcessInput(room, c, w).started = room.started
        /\ ProcessInput(room, c, w).metrics[c] = NextWord(room.metrics[c], w)
        /\ \A f \in Fds \ {c} : ProcessInput(room, c, w).metrics[f] = room.metrics[f]
    BY <1>1, <2>1, ProcessInputGame, Zenon
  <2> QED BY <2>2, <2>3 DEF w
<1>5. \/ /\ ~IsGameEnded(scored, late)
         /\ room' = scored
         /\ stray' = (stray \/ m.game # game)
         /\ UNCHANGED <<late, game, players, joins, training, taken, inbox>>
      \/ /\ IsGameEnded(scored, late)
         /\ room' = EndGame(scored)
         /\ NoGameRuns
         /\ Broadcast(scored, [type |-> "game_end", game |-> game])
         /\ UNCHANGED <<game, joins, training>>
  BY DEF ScoredInRoom
<1> HIDE DEF m, scored
<1>6. CASE /\ ~IsGameEnded(scored, late)
           /\ room' = scored
           /\ stray' = (stray \/ m.game # game)
           /\ UNCHANGED <<late, game, players, joins, training, taken, inbox>>
  <2>1. RoomInv' /\ room' \in RoomType /\ Members(room') = Members(room)
    BY <1>3, <1>4, <1>6 DEF SameSeats, RoomInv, RoomOK
  <2>2. stray' \in BOOLEAN /\ Quiet
    BY <1>6, QuietIs
  <2>3. \A d \in Members(room') \ {c} : Reached(d)' = Reached(d)
    BY <1>1, <1>4, <1>6, <2>1, MemberSeat DEF Reached
  <2>4. ~stray' => ~stray /\ m.game = game
    BY <1>6
  <2>5. ASSUME m.word = Reached(c) PROVE Reached(c)' = Reached(c) + 1
    <3>1. room.metrics[c] \in Progress /\ room.metrics[c] <= m.word /\ taken[c] <= m.word
      BY <2>5, ClientTypes DEF Reached
    <3>2. room'.metrics[c] = m.word + 1
      BY <1>2, <1>4, <1>6, <3>1, NextWordIs
    <3>3. taken'[c] \in Nat /\ taken'[c] <= m.word
      BY <1>6, <3>1, ClientTypes
    <3> QED BY <1>2, <2>5, <3>2, <3>3 DEF Reached
  <2>6. ~stray' => Scored(c, toServer[c])
    BY <1>2, <2>4, <2>5, Zenon DEF Scored, m
  <2> QED BY <1>1, <1>6, <2>1, <2>2, <2>3, <2>4, <2>6, Handled
<1>7. CASE /\ IsGameEnded(scored, late)
           /\ room' = EndGame(scored)
           /\ NoGameRuns
           /\ Broadcast(scored, [type |-> "game_end", game |-> game])
           /\ UNCHANGED <<game, joins, training>>
  <2>1. RoomOK(room') /\ ~room'.started
    BY <1>3, <1>4, <1>7, EndGameSeats, EndGameGame DEF SameSeats, RoomOK
  <2>2. RoomInv' /\ room' \in RoomType
    BY <2>1 DEF RoomInv, RoomOK
  <2>3. /\ late' \in BOOLEAN /\ players' \in SUBSET Fds /\ stray' \in BOOLEAN
        /\ taken' \in [Fds -> Nat] /\ training' \in [Fds -> BOOLEAN]
    BY <1>1, <1>7 DEF NoGameRuns
  <2>4. Quiet
    BY <1>7, QuietIs
  <2> QED BY <1>7, <2>1, <2>2, <2>3, <2>4, Handled
<1> QED BY <1>5, <1>6, <1>7

LEMMA HandleStep ==
    ASSUME Inv, NEW c \in Fds, Handle(c)
    PROVE  Inv'
<1> DEFINE m == Head(toServer[c])
<1>1. /\ toServer[c] # <<>> /\ toServer' = [toServer EXCEPT ![c] = Tail(@)] /\ UNCHANGED viewVars
      /\ OnReady(c, m) \/ OnStartGame(c, m) \/ OnInput(c, m) \/ OnExitRoom(c, m)
  BY DEF Handle
<1>2. m \in Request /\ room \in RoomType /\ RoomInv /\ toServer[c] \in Seq(Request)
  BY <1>1, ClientTypes, TailIs
<1>3. /\ late \in BOOLEAN /\ players \in SUBSET Fds /\ stray \in BOOLEAN
      /\ training \in [Fds -> BOOLEAN] /\ taken \in [Fds -> Nat]
  BY DEF Inv, TypeOK
<1> HIDE DEF m
<1>4. CASE UNCHANGED roomVars /\ inbox' = inbox /\ (m.type # "input" \/ ~(Seated(c) /\ room.started))
  <2>1. UNCHANGED <<room, late, game, players, stray, joins, training, taken>>
    BY <1>4 DEF roomVars
  <2>2. RoomInv' /\ Quiet
    BY <1>2, <1>4, <2>1, QuietIs DEF RoomInv
  <2>3. \A d \in Fds : Reached(d)' = Reached(d)
    BY <2>1 DEF Reached
  <2>4. room'.started /\ c \in Members(room') => Scored(c, toServer[c])
    BY <1>4, <2>1, <2>3 DEF Scored, m, Seated
  <2>5. Members(room) \subseteq Fds
    BY <1>2, MemberSeat
  <2> QED BY <1>1, <1>2, <1>3, <2>1, <2>2, <2>3, <2>4, <2>5, Handled
<1>5. CASE OnReady(c, m)
  <2>1. /\ m.type # "input" /\ room' = SetReady(room, c, TRUE)
        /\ UNCHANGED <<late, game, players, stray, joins, training, taken, inbox>>
    BY <1>5 DEF OnReady
  <2>2. CASE c \notin Members(room)
    BY <1>4, <2>1, <2>2 DEF SetReady, roomVars
  <2>3. CASE c \in Members(room)
    <3>1. SameSeats(room', room) /\ SameGame(room', room)
      BY <1>2, <2>1, <2>3, RoomIs, SetReadySeats, SetReadyGame
    <3>2. RoomInv' /\ room' \in RoomType /\ Members(room') = Members(room)
      BY <3>1 DEF SameSeats, RoomInv, RoomOK
    <3>3. \A d \in Fds : Reached(d)' = Reached(d)
      BY <2>1, <3>1 DEF SameGame, Reached
    <3>4. Scored(c, toServer[c])
      BY <2>1, <3>3 DEF Scored, m
    <3>5. Members(room) \subseteq Fds /\ Quiet
      BY <1>2, <2>1, MemberSeat, QuietIs
    <3> QED BY <1>1, <1>3, <2>1, <3>1, <3>2, <3>3, <3>4, <3>5, Handled DEF SameGame
  <2> QED BY <2>2, <2>3
<1>6. CASE OnStartGame(c, m)
  <2>1. CASE Seated(c) /\ IsHost(room, c) /\ CanStart(room) /\ game < MaxGames
    <3>1. RoomOK(room)
      BY <2>1, RoomIs DEF Seated
    <3> QED BY <1>1, <1>6, <2>1, <3>1, Started DEF OnStartGame
  <2>2. CASE ~(Seated(c) /\ IsHost(room, c) /\ CanStart(room) /\ game < MaxGames)
    BY <1>4, <1>6, <2>2 DEF OnStartGame
  <2> QED BY <2>1, <2>2
<1>7. CASE OnInput(c, m)
  <2>1. m.type = "input" /\ (TakenByTraining(c, m) \/ ScoredInRoom(c, m))
    BY <1>7 DEF OnInput
  <2>2. CASE TakenByTraining(c, m)
    BY <1>1, <2>1, <2>2, TrainingStep DEF m
  <2>3. CASE ScoredInRoom(c, m)
    <3>1. CASE ~(Seated(c) /\ room.started)
      BY <1>4, <2>3, <3>1 DEF ScoredInRoom
    <3>2. CASE Seated(c) /\ room.started
      BY <1>1, <2>1, <2>3, <3>2, RoomInputStep DEF m
    <3> QED BY <3>1, <3>2
  <2> QED BY <2>1, <2>2, <2>3
<1>8. CASE OnExitRoom(c, m)
  <2> DEFINE rm == RemovePlayer(room, c)
  <2>1. m.type # "input" /\ UNCHANGED <<game, joins, training, inbox>> /\ Quiet
    BY <1>8, QuietIs DEF OnExitRoom
  <2>2. CASE Members(rm) # {}
    <3>1. room' = rm /\ UNCHANGED <<late, players, stray, taken>>
      BY <1>8, <2>2 DEF OnExitRoom
    <3>2. CASE c \notin Members(room)
      BY <1>4, <2>1, <3>1, <3>2 DEF RemovePlayer, roomVars
    <3>3. CASE c \in Members(room)
      <4>1. RoomOK(room)
        BY <3>3, RoomIs
      <4>2. /\ rm \in RoomType
            /\ Occupied(rm) # {} => RoomOK(rm)
            /\ Members(rm) = Members(room) \ {c}
            /\ \A d \in Fds \ {c} : rm.metrics[d] = room.metrics[d]
            /\ rm.started = room.started
        BY <1>2, <3>3, <4>1, RemovePlayerSeats, RemovePlayerGame
      <4> HIDE DEF rm
      <4>3. Occupied(rm) # {}
        BY <2>2, <4>2, MemberSeat
      <4>4. RoomInv' /\ room' \in RoomType
        BY <3>1, <4>2, <4>3 DEF RoomInv
      <4>5. /\ c \notin Members(room') /\ Members(room') \subseteq Members(room)
            /\ \A d \in Members(room') \ {c} : Reached(d)' = Reached(d)
        BY <1>2, <3>1, <4>2, MemberSeat DEF Reached
      <4> QED BY <1>1, <1>3, <2>1, <3>1, <4>2, <4>4, <4>5, Handled
    <3> QED BY <3>2, <3>3
  <2>3. CASE Members(rm) = {}
    <3>1. room' = NewRoom /\ NoGameRuns
      BY <1>8, <2>3 DEF OnExitRoom
    <3>2. room' \in RoomType /\ RoomInv' /\ ~room'.started
      BY <3>1, NewRoomType DEF RoomInv, NewRoom
    <3>3. /\ late' \in BOOLEAN /\ players' \in SUBSET Fds /\ stray' \in BOOLEAN
          /\ training' \in [Fds -> BOOLEAN] /\ taken' \in [Fds -> Nat]
      BY <1>3, <2>1, <3>1 DEF NoGameRuns
    <3> QED BY <1>1, <2>1, <3>2, <3>3, Handled
  <2> QED BY <2>2, <2>3
<1> QED BY <1>1, <1>5, <1>6, <1>7, <1>8

-----------------------------------------------------------------------------
(* The theorems. *)

LEMMA Step ==
    ASSUME Inv, [Next]_vars
    PROVE  Inv'
<1>1. CASE UNCHANGED vars
  <2>1. UNCHANGED <<room, late, game, players, stray, joins, training, taken>>
        /\ UNCHANGED <<stack, textInput, toServer, inbox>>
    BY <1>1 DEF vars, roomVars, viewVars
  <2>2. TypeOK' /\ RoomInv' /\ Numbered'
    BY <2>1 DEF Inv, TypeOK, RoomInv, Numbered
  <2>3. \A d \in Fds : Reached(d)' = Reached(d)
    BY <2>1 DEF Reached
  <2>4. \A d \in Fds : ClientInv(d)'
    BY <2>1, <2>3, ClientTypes, Elsewhere
  <2> QED BY <2>2, <2>4 DEF Inv
<1>2. CASE TimeUp
  BY <1>2, TimeUpStep
<1>3. ASSUME NEW c \in Fds,
             \/ JoinRoom(c) \/ LobbyReady(c) \/ LobbyStart(c) \/ LobbyExit(c)
             \/ TypeWord(c) \/ GameEscape(c) \/ ResultReturnLobby(c) \/ ResultExitMenu(c)
             \/ TrainingExitMenu(c) \/ TakeEvent(c) \/ Handle(c)
      PROVE  Inv'
  BY <1>3, JoinRoomStep, ButtonSteps, TypeWordStep, TakeEventStep, HandleStep
<1> QED BY <1>1, <1>2, <1>3 DEF Next

\* The inductive invariant holds in every state of every behaviour: the room is
\* well formed, no client knows of a game that was not started, a game is shown
\* to a player once at most, and what is under way is what separates the player's
\* screen from what has reached the server.
THEOREM Inductive == Spec => []Inv
<1>1. Init => Inv
  BY InitInv
<1>2. Inv /\ [Next]_vars => Inv'
  BY Step
<1> QED BY <1>1, <1>2, PTL DEF Spec

\* Channels and views hold what the handlers and screens put in.
THEOREM TypeCorrect == Spec => []TypeOK
<1>1. Inv => TypeOK
  BY DEF Inv
<1> QED BY <1>1, Inductive, PTL

\* No word is lost, doubled or overtaken between a keyboard and the server, where
\* the room scores it or a training left unfinished takes it, unless a running
\* game was restarted with inputs of the old one under way.
THEOREM WordsScoredHolds == Spec => []WordsScored
<1>1. ASSUME Inv PROVE WordsScored
  <2> SUFFICES ASSUME room.started, ~stray, NEW c \in Members(room),
                      NEW i \in DOMAIN stack[c],
                      stack[c][i].view = "Game", stack[c][i].game = game
               PROVE  Carries(toServer[c], game, Reached(c), stack[c][i].word)
    BY DEF WordsScored
  <2>1. c \in Fds
    BY <1>1, RoomIs, MemberSeat
  <2>2. Tracked(stack[c], inbox[c], toServer[c], game, Reached(c))
    BY <1>1, <2>1, ClientTypes DEF ClientInv
  <2>3. i \in Screens(stack[c], game)
    BY DEF Screens
  <2> QED BY <2>2, <2>3 DEF Tracked
<1> QED BY <1>1, Inductive, PTL
=============================================================================
