-------------------------- MODULE Connection_proofs --------------------------
(***************************************************************************)
(* Theorems about Connection, for every number of messages: its types, that *)
(* the client's process ends without its user's will only after the server *)
(* is gone, and that both directions implement Channel.                    *)
(*                                                                         *)
(* What carries the second is that, from Connect to the end of main,       *)
(* connected_ is cleared under a thread that is not joined only by that    *)
(* thread itself, which the server's end makes do so, or by disconnect,    *)
(* which goes on to join it.                                               *)
(*                                                                         *)
(* For the third, what is buffered and what has not arrived are one stream *)
(* in which bodies and ends of messages alternate, and which is cut only   *)
(* when its sender goes: recv does not change it, a sender adds a message  *)
(* at its end, and a parsed line is the message at its front.              *)
(***************************************************************************)
EXTENDS Connection, TLAPS, SequenceTheorems, NaturalsInduction, WellFoundedInduction

Inv ==
    /\ EndsOnOwnTerms
    /\ app \in {"running", "disconnect"} /\ joinable /\ ~connected => server = "down"
    /\ app \in {"destroy"} \cup Gone /\ joinable => server = "down"
    /\ sock = "shut" => app \in {"join", "destroy"} \cup Gone
    /\ app = "start" => ~joinable

-----------------------------------------------------------------------------
(* Framing.                                                                  *)

LessThan == {p \in Nat \X Nat : p[1] < p[2]}

\* A non-empty set of naturals has a least element, and Min is that element.
LEMMA LeastOfNats ==
    ASSUME NEW S \in SUBSET Nat, S # {}
    PROVE  Min(S) \in S /\ \A y \in S : Min(S) <= y
<1>1. IsWellFoundedOn(LessThan, Nat)
  BY NatLessThanWellFounded, Zenon DEF OpToRel, LessThan
<1>2. PICK x \in S : \A y \in S : <<y, x>> \notin LessThan
  BY <1>1, WFMin, Zenon
<1>3. ASSUME NEW y \in S, ~(x <= y) PROVE FALSE
  <2>1. <<y, x>> \in Nat \X Nat /\ <<y, x>>[1] < <<y, x>>[2]
    BY <1>3
  <2>2. <<y, x>> \in LessThan
    BY <2>1, Zenon DEF LessThan
  <2> QED BY <1>2, <2>2
<1> QED BY <1>3 DEF Min

\* A complete line ends at the first NL of the buffer.
LEMMA LineEndProperties ==
    ASSUME NEW buffer \in Seq(Token), HasLine(buffer)
    PROVE  /\ LineEnd(buffer) \in 1 .. Len(buffer)
           /\ \A i \in 1 .. LineEnd(buffer) - 1 : buffer[i] # NL
           /\ buffer[LineEnd(buffer)] = NL
<1> DEFINE Ends == {i \in 1 .. Len(buffer) : buffer[i] = NL}
<1>1. Ends \in SUBSET Nat /\ Ends # {}
  BY DEF HasLine, Contains
<1>2. LineEnd(buffer) = Min(Ends)
  BY <1>1 DEF LineEnd, SelectInSeq
<1>3. Min(Ends) \in Ends /\ \A y \in Ends : Min(Ends) <= y
  BY <1>1, LeastOfNats
<1> HIDE DEF Ends
<1>4. LineEnd(buffer) \in 1 .. Len(buffer)
  BY <1>2, <1>3 DEF Ends
<1>5. ASSUME NEW i \in 1 .. LineEnd(buffer) - 1, buffer[i] = NL PROVE FALSE
  <2>1. i \in Ends
    BY <1>4, <1>5 DEF Ends
  <2> QED BY <1>2, <1>3, <1>4, <2>1
<1>6. buffer[LineEnd(buffer)] = NL
  BY <1>2, <1>3 DEF Ends
<1> QED BY <1>4, <1>5, <1>6

\* What is left of a buffer is tokens, and a message parsed is a number.
LEMMA LineProperties ==
    ASSUME NEW buffer \in Seq(Token), HasLine(buffer)
    PROVE  /\ AfterLine(buffer) \in Seq(Token)
           /\ Parsed(Line(buffer)) \in Seq(Nat)
<1> DEFINE e == LineEnd(buffer)
<1>1. e \in 1 .. Len(buffer) /\ \A i \in 1 .. e - 1 : buffer[i] # NL
  BY LineEndProperties
<1> HIDE DEF e
<1>2. Len(buffer) \in Nat
  BY LenProperties
<1>3. AfterLine(buffer) \in Seq(Token)
  <2>1. \A i \in e + 1 .. Len(buffer) : buffer[i] \in Token
    BY <1>1, <1>2, ElementOfSeq
  <2> QED BY <1>1, <1>2, <2>1, SubSeqProperties DEF AfterLine, e
<1>4. /\ Line(buffer) \in Seq(Token)
      /\ Len(Line(buffer)) = e - 1
      /\ \A i \in 1 .. e - 1 : Line(buffer)[i] = buffer[i]
  <2>1. \A i \in 1 .. e - 1 : buffer[i] \in Token
    BY <1>1, <1>2, ElementOfSeq
  <2>2. /\ SubSeq(buffer, 1, e - 1) \in Seq(Token)
        /\ Len(SubSeq(buffer, 1, e - 1)) = IF 1 <= e - 1 THEN e - 1 - 1 + 1 ELSE 0
        /\ \A i \in 1 .. e - 1 - 1 + 1 : SubSeq(buffer, 1, e - 1)[i] = buffer[1 + i - 1]
    BY <1>1, <2>1, SubSeqProperties
  <2> QED BY <1>1, <2>2 DEF Line, e
<1>5. ASSUME Len(Line(buffer)) = 1, Line(buffer)[1] # Junk
      PROVE  Line(buffer) \in Seq(Nat)
  <2>1. 1 \in 1 .. e - 1
    <3>1. e - 1 = 1
      BY <1>4, <1>5, Zenon
    <3> QED BY <3>1
  <2>2. Line(buffer)[1] = buffer[1] /\ buffer[1] # NL
    BY <1>1, <1>4, <2>1
  <2>3. Line(buffer)[1] \in Token
    <3>1. 1 \in 1 .. Len(Line(buffer))
      BY <1>5
    <3> QED BY <1>4, <3>1, ElementOfSeq
  <2>4. Line(buffer)[1] \in Nat
    BY <1>5, <2>2, <2>3 DEF Token
  <2>5. \A i \in 1 .. Len(Line(buffer)) : Line(buffer)[i] \in Nat
    BY <1>5, <2>4
  <2> QED BY <1>4, <2>5, SeqDef
<1> QED BY <1>3, <1>5 DEF Parsed

\* A part of a stream, taken or cut off, leaves tokens.
LEMMA PartProperties ==
    ASSUME NEW stream \in Seq(Token), NEW n \in 0 .. Len(stream)
    PROVE  /\ SubSeq(stream, 1, n) \in Seq(Token)
           /\ SubSeq(stream, n + 1, Len(stream)) \in Seq(Token)
<1>1. Len(stream) \in Nat
  BY LenProperties
<1>2. \A i \in 1 .. Len(stream) : stream[i] \in Token
  BY ElementOfSeq
<1> QED BY <1>1, <1>2, SubSeqProperties

LEMMA MessageProperties ==
    ASSUME NEW body \in Nat \cup {Junk}
    PROVE  Message(body) \in Seq(Token)
BY DEF Message, Token

-----------------------------------------------------------------------------
(* Types.                                                                    *)

LEMMA TypeInit == Init => TypeOK
<1>1. <<>> \in Seq(Token) /\ <<>> \in Seq(Nat)
  OBVIOUS
<1>2. 0 \in 0 .. MaxUp /\ 0 \in 0 .. MaxDown
  BY ConnectionAssumption
<1> QED BY <1>1, <1>2 DEF Init, TypeOK

LEMMA TypeMain == TypeOK /\ Main => TypeOK'
<1> USE ConnectionAssumption
<1> SUFFICES ASSUME TypeOK, Main PROVE TypeOK'
  OBVIOUS
<1>1. CASE Connect
  BY <1>1 DEF TypeOK, Connect, serverVars
<1>2. CASE Send
  <2>1. asked' \in 0 .. MaxUp
    BY <1>2 DEF TypeOK, Send
  <2>2. Message(asked') \in Seq(Token)
    BY <2>1, MessageProperties
  <2>3. up \o Message(asked') \in Seq(Token)
    BY <2>2 DEF TypeOK
  <2> QED BY <1>2, <2>1, <2>3 DEF TypeOK, Send, serverVars, threadVars, Gone
<1>3. CASE PollEvent
  BY <1>3 DEF TypeOK, PollEvent, serverVars, threadVars
<1>4. CASE Quit
  BY <1>4 DEF TypeOK, Quit, serverVars, threadVars
<1>5. CASE Disconnect
  BY <1>5 DEF TypeOK, Disconnect, serverVars, threadVars
<1>6. CASE Shutdown
  <2>1. up' \in Seq(Token)
    BY <1>6, PartProperties DEF TypeOK, Shutdown, Cutoff
  <2> QED BY <1>6, <2>1 DEF TypeOK, Shutdown, serverVars, threadVars
<1>7. CASE Join
  BY <1>7 DEF TypeOK, Join, serverVars, threadVars
<1>8. CASE Destroy
  BY <1>8 DEF TypeOK, Destroy, serverVars, threadVars, Gone
<1> QED BY <1>1, <1>2, <1>3, <1>4, <1>5, <1>6, <1>7, <1>8 DEF Main

LEMMA TypeReceiver == TypeOK /\ Receiver => TypeOK'
<1> SUFFICES ASSUME TypeOK, Receiver PROVE TypeOK'
  OBVIOUS
<1>1. CASE CheckLoop
  BY <1>1 DEF TypeOK, CheckLoop, serverVars, mainVars
<1>2. CASE Receive
  <2>1. PICK n \in Chunks(down) :
          /\ recv_buffer' = recv_buffer \o SubSeq(down, 1, n)
          /\ down' = SubSeq(down, n + 1, Len(down))
    BY <1>2 DEF Receive
  <2>2. SubSeq(down, 1, n) \in Seq(Token) /\ down' \in Seq(Token)
    BY <2>1, PartProperties DEF TypeOK, Chunks
  <2>3. recv_buffer' \in Seq(Token)
    BY <2>1, <2>2 DEF TypeOK
  <2> QED BY <1>2, <2>2, <2>3 DEF TypeOK, Receive, serverVars, mainVars
<1>3. CASE ReceiveEnd
  BY <1>3 DEF TypeOK, ReceiveEnd, serverVars, mainVars
<1>4. CASE TakeLine
  <2>1. CASE HasLine(recv_buffer)
    <3>1. recv_buffer' \in Seq(Token) /\ Parsed(Line(recv_buffer)) \in Seq(Nat)
      BY <1>4, <2>1, LineProperties DEF TypeOK, TakeLine
    <3>2. queue \in Seq(Nat) /\ queue' = queue \o Parsed(Line(recv_buffer))
      BY <1>4, <2>1 DEF TypeOK, TakeLine
    <3>3. queue' \in Seq(Nat)
      BY <3>1, <3>2, ConcatProperties, Zenon
    <3> QED BY <1>4, <2>1, <3>1, <3>3 DEF TypeOK, TakeLine, serverVars, mainVars
  <2>2. CASE ~HasLine(recv_buffer)
    BY <1>4, <2>2 DEF TypeOK, TakeLine, serverVars, mainVars
  <2> QED BY <2>1, <2>2
<1> QED BY <1>1, <1>2, <1>3, <1>4 DEF Receiver

LEMMA TypeServer == TypeOK /\ Server => TypeOK'
<1> USE ConnectionAssumption
<1> SUFFICES ASSUME TypeOK, Server PROVE TypeOK'
  OBVIOUS
<1>1. CASE Accept
  <2>1. down' \in Seq(Token)
    BY <1>1, MessageProperties DEF TypeOK, Accept
  <2> QED BY <1>1, <2>1 DEF TypeOK, Accept, mainVars, threadVars
<1>2. CASE SendJson
  <2>1. told' \in 0 .. MaxDown
    BY <1>2 DEF TypeOK, SendJson
  <2>2. \A body \in {told', Junk} : down \o Message(body) \in Seq(Token)
    BY <2>1, MessageProperties DEF TypeOK
  <2>3. /\ down' \in Seq(Token) /\ up' \in Seq(Token) /\ recvBuffer' \in Seq(Token)
        /\ server' \in {"down", "accept", "recv", "lines", "closed"}
    <3>1. CASE /\ ~ClientGone
               /\ \E body \in {told', Junk} : down' = down \o Message(body)
               /\ UNCHANGED <<server, up, recvBuffer>>
      BY <2>2, <3>1 DEF TypeOK
    <3>2. CASE UNCHANGED <<server, down, up, recvBuffer>>
      BY <3>2 DEF TypeOK
    <3>3. CASE /\ server' = "down"
               /\ up' = <<>>
               /\ recvBuffer' = <<>>
               /\ UNCHANGED down
      BY <3>3 DEF TypeOK
    <3> QED BY <1>2, <3>1, <3>2, <3>3 DEF SendJson
  <2> QED BY <1>2, <2>1, <2>3 DEF TypeOK, SendJson, mainVars, threadVars
<1>3. CASE HandleClientReceive
  <2>1. PICK n \in Chunks(up) :
          /\ recvBuffer' = recvBuffer \o SubSeq(up, 1, n)
          /\ up' = SubSeq(up, n + 1, Len(up))
    BY <1>3 DEF HandleClientReceive
  <2>2. SubSeq(up, 1, n) \in Seq(Token) /\ up' \in Seq(Token)
    BY <2>1, PartProperties DEF TypeOK, Chunks
  <2>3. recvBuffer' \in Seq(Token)
    BY <2>1, <2>2 DEF TypeOK
  <2> QED BY <1>3, <2>2, <2>3 DEF TypeOK, HandleClientReceive, mainVars, threadVars
<1>4. CASE HandleClientLine
  <2>1. CASE HasLine(recvBuffer)
    <3>1. recvBuffer' \in Seq(Token) /\ Parsed(Line(recvBuffer)) \in Seq(Nat)
      BY <1>4, <2>1, LineProperties DEF TypeOK, HandleClientLine
    <3>2. handled \in Seq(Nat) /\ handled' = handled \o Parsed(Line(recvBuffer))
      BY <1>4, <2>1 DEF TypeOK, HandleClientLine
    <3>3. handled' \in Seq(Nat)
      BY <3>1, <3>2, ConcatProperties, Zenon
    <3> QED BY <1>4, <2>1, <3>1, <3>3 DEF TypeOK, HandleClientLine, mainVars, threadVars
  <2>2. CASE ~HasLine(recvBuffer)
    BY <1>4, <2>2 DEF TypeOK, HandleClientLine, mainVars, threadVars
  <2> QED BY <2>1, <2>2
<1>5. CASE HandleClientEnd
  BY <1>5 DEF TypeOK, HandleClientEnd, mainVars, threadVars
<1>6. CASE ServerGoes
  <2>1. down' \in Seq(Token)
    BY <1>6, PartProperties DEF TypeOK, ServerGoes, Cutoff
  <2> QED BY <1>6, <2>1 DEF TypeOK, ServerGoes, mainVars, threadVars
<1> QED BY <1>1, <1>2, <1>3, <1>4, <1>5, <1>6 DEF Server

\* Threads stay at statements they have and handle whole messages only,
\* however many messages are sent and wherever recv cuts the streams.
THEOREM TypeCorrect == Spec => []TypeOK
<1>1. TypeOK /\ UNCHANGED vars => TypeOK'
  BY DEF TypeOK, vars, serverVars, mainVars, threadVars
<1>2. TypeOK /\ [Next]_vars => TypeOK'
  BY <1>1, TypeMain, TypeReceiver, TypeServer DEF Next
<1> QED BY TypeInit, <1>2, PTL DEF Spec

-----------------------------------------------------------------------------
(* How the client's process ends.                                            *)

LEMMA InvMain == Inv /\ Main => Inv'
<1> SUFFICES ASSUME Inv, Main PROVE Inv'
  OBVIOUS
<1> USE DEF Inv, EndsOnOwnTerms, Gone, serverVars
<1>1. CASE Connect
  BY <1>1 DEF Connect
<1>2. CASE Send
  BY <1>2 DEF Send
<1>3. CASE PollEvent
  BY <1>3 DEF PollEvent
<1>4. CASE Quit
  BY <1>4 DEF Quit
<1>5. CASE Disconnect
  BY <1>5 DEF Disconnect
<1>6. CASE Shutdown
  BY <1>6 DEF Shutdown
<1>7. CASE Join
  BY <1>7 DEF Join
<1>8. CASE Destroy
  BY <1>8 DEF Destroy
<1> QED BY <1>1, <1>2, <1>3, <1>4, <1>5, <1>6, <1>7, <1>8 DEF Main

\* The thread itself clears connected_ only when the server is gone or the
\* main thread, past its check of connected_, has shut the socket down.
LEMMA InvReceiver == Inv /\ Receiver => Inv'
<1> SUFFICES ASSUME Inv, Receiver PROVE Inv'
  OBVIOUS
<1> USE DEF Inv, EndsOnOwnTerms, Gone, serverVars, mainVars
<1>1. CASE CheckLoop
  BY <1>1 DEF CheckLoop
<1>2. CASE Receive
  BY <1>2 DEF Receive
<1>3. CASE ReceiveEnd
  BY <1>3 DEF ReceiveEnd
<1>4. CASE TakeLine
  BY <1>4 DEF TakeLine
<1> QED BY <1>1, <1>2, <1>3, <1>4 DEF Receiver

\* A server that is gone does not come back.
LEMMA InvServer == Inv /\ Server => Inv'
<1> SUFFICES ASSUME Inv, Server PROVE Inv'
  OBVIOUS
<1> USE DEF Inv, EndsOnOwnTerms, Gone, mainVars
<1>1. CASE Accept
  BY <1>1 DEF Accept
<1>2. CASE SendJson
  BY <1>2 DEF SendJson
<1>3. CASE HandleClientReceive
  BY <1>3 DEF HandleClientReceive
<1>4. CASE HandleClientLine
  BY <1>4 DEF HandleClientLine
<1>5. CASE HandleClientEnd
  BY <1>5 DEF HandleClientEnd
<1>6. CASE ServerGoes
  BY <1>6 DEF ServerGoes
<1> QED BY <1>1, <1>2, <1>3, <1>4, <1>5, <1>6 DEF Server

\* The client's process is neither aborted nor killed before the server is
\* gone, whatever the threads do while the window is closed.
THEOREM EndsOnOwnTermsHolds == Spec => []EndsOnOwnTerms
<1>1. Init => Inv
  BY DEF Init, Inv, EndsOnOwnTerms, Gone
<1>2. Inv /\ UNCHANGED vars => Inv'
  BY DEF Inv, EndsOnOwnTerms, vars, serverVars, mainVars
<1>3. Inv /\ [Next]_vars => Inv'
  BY <1>2, InvMain, InvReceiver, InvServer DEF Next
<1>4. Inv => EndsOnOwnTerms
  BY DEF Inv
<1> QED BY <1>1, <1>3, <1>4, PTL DEF Spec
-----------------------------------------------------------------------------
(* The complete messages of a stream.                                        *)

\* Induction, with the set of the numbers that satisfy the claim.
LEMMA Induction ==
    ASSUME NEW N \in SUBSET Nat, 0 \in N, \A n \in N : n + 1 \in N
    PROVE  N = Nat
<1> SUFFICES ASSUME Nat \ N # {} PROVE FALSE
  OBVIOUS
<1> DEFINE m == Min(Nat \ N)
<1>1. m \in Nat \ N /\ \A y \in Nat \ N : m <= y
  <2>1. Nat \ N \in SUBSET Nat
    OBVIOUS
  <2> QED BY <2>1, LeastOfNats
<1> HIDE DEF m
<1>2. m - 1 \in Nat /\ ~(m <= m - 1)
  BY <1>1
<1>3. m - 1 \in N
  BY <1>1, <1>2
<1>4. (m - 1) + 1 = m
  BY <1>1
<1> QED BY <1>1, <1>3, <1>4

\* Concatenation is associative, for messages and for tokens.
LEMMA Regroup ==
    ASSUME NEW p \in Seq(Nat), NEW q \in Seq(Nat), NEW r \in Seq(Nat)
    PROVE  /\ (p \o q) \o r = p \o (q \o r)
           /\ p \o (q \o r) = (p \o q) \o r
           /\ p \o q \in Seq(Nat)
<1>1. (p \o q) \o r = p \o (q \o r)
  BY ConcatAssociative, SMTT(60)
<1>2. p \o q \in Seq(Nat)
  BY ConcatProperties
<1> QED BY <1>1, <1>2, Zenon

LEMMA RegroupTokens ==
    ASSUME NEW p \in Seq(Token), NEW q \in Seq(Token), NEW r \in Seq(Token)
    PROVE  (p \o q) \o r = p \o (q \o r)
BY ConcatAssociative, SMTT(60)

LEMMA EndedType ==
    ASSUME NEW s, NEW n
    PROVE  Ended(s, n) \in Seq(Nat)
<1>1. CASE s[n - 1] \in Nat
  <2>1. <<s[n - 1]>> \in Seq(Nat) /\ <<>> \in Seq(Nat)
    BY <1>1
  <2> QED BY <2>1, Zenon DEF Ended
<1>2. CASE s[n - 1] \notin Nat
  <2>1. <<>> \in Seq(Nat)
    OBVIOUS
  <2> QED BY <1>2, <2>1, Zenon DEF Ended
<1> QED BY <1>1, <1>2

\* f[n] are the complete messages in the first n tokens of s.
Steps(s, f) ==
    /\ f[0] = <<>>
    /\ \A n \in 1 .. Len(s) : f[n] = f[n - 1] \o Ended(s, n)

Agree(s, t, k) ==
    k \in Nat /\ k <= Len(s) /\ k <= Len(t) /\ \A i \in 1 .. k : s[i] = t[i]

\* Streams that agree up to a token have the same complete messages up to it.
LEMMA StepsAgree ==
    ASSUME NEW s \in Seq(Token), NEW t \in Seq(Token), NEW f, NEW g,
           Steps(s, f), Steps(t, g), NEW k, Agree(s, t, k)
    PROVE  \A n \in 0 .. k : f[n] = g[n]
<1>0. /\ k \in Nat /\ k <= Len(s) /\ k <= Len(t)
      /\ \A i \in 1 .. k : s[i] = t[i]
  BY DEF Agree
<1> DEFINE N == {n \in Nat : n <= k => f[n] = g[n]}
<1>1. 0 \in N
  BY DEF Steps
<1>2. ASSUME NEW n \in N PROVE n + 1 \in N
  <2> SUFFICES ASSUME n + 1 <= k PROVE f[n + 1] = g[n + 1]
    OBVIOUS
  <2>1. f[n] = g[n]
    <3>1. n <= k
      BY <1>0
    <3> QED BY <3>1
  <2>2. n + 1 \in 1 .. Len(s) /\ n + 1 \in 1 .. Len(t) /\ (n + 1) - 1 = n
    BY <1>0, LenProperties
  <2>3. f[n + 1] = f[n] \o Ended(s, n + 1) /\ g[n + 1] = g[n] \o Ended(t, n + 1)
    BY <2>2 DEF Steps
  <2>4. s[n + 1] = t[n + 1] /\ (n + 1 > 1 => s[n] = t[n])
    BY <1>0, <2>2
  <2>5. Ended(s, n + 1) = Ended(t, n + 1)
    BY <2>2, <2>4 DEF Ended
  <2> QED BY <2>1, <2>3, <2>5
<1>3. N = Nat
  <2> HIDE DEF N
  <2>1. N \in SUBSET Nat
    BY DEF N
  <2> QED BY <1>1, <1>2, <2>1, Induction
<1> QED BY <1>0, <1>3

LEMMA StepsExist ==
    ASSUME NEW s \in Seq(Token)
    PROVE  \E f \in [0 .. Len(s) -> Seq(Nat)] : Steps(s, f)
<1> DEFINE Upto(m, f) == f[0] = <<>> /\ \A n \in 1 .. m : f[n] = f[n - 1] \o Ended(s, n)
           N == {m \in Nat : \E f \in [0 .. m -> Seq(Nat)] : Upto(m, f)}
<1>1. 0 \in N
  <2>1. [n \in 0 .. 0 |-> <<>>] \in [0 .. 0 -> Seq(Nat)]
    OBVIOUS
  <2>2. Upto(0, [n \in 0 .. 0 |-> <<>>])
    OBVIOUS
  <2> QED BY <2>1, <2>2, Zenon
<1>2. ASSUME NEW m \in N PROVE m + 1 \in N
  <2>0. m \in Nat /\ m + 1 \in Nat
    OBVIOUS
  <2>1. PICK f \in [0 .. m -> Seq(Nat)] : Upto(m, f)
    OBVIOUS
  <2> DEFINE g == [n \in 0 .. m + 1 |-> IF n = m + 1 THEN f[m] \o Ended(s, m + 1) ELSE f[n]]
  <2>2. f[m] \o Ended(s, m + 1) \in Seq(Nat)
    <3>1. f[m] \in Seq(Nat) /\ Ended(s, m + 1) \in Seq(Nat)
      BY EndedType
    <3> QED BY <3>1, ConcatProperties
  <2>3. g \in [0 .. m + 1 -> Seq(Nat)]
    BY <2>2
  <2>4. g[0] = <<>>
    BY <2>1
  <2>5. ASSUME NEW n \in 1 .. m + 1 PROVE g[n] = g[n - 1] \o Ended(s, n)
    <3>1. CASE n = m + 1
      <4>1. n \in 0 .. m + 1 /\ n - 1 \in 0 .. m + 1 /\ n - 1 # m + 1 /\ n - 1 = m
        BY <2>0, <3>1
      <4>2. g[n] = f[m] \o Ended(s, m + 1) /\ g[n - 1] = f[n - 1]
        <5> HIDE DEF N, Upto
        <5> QED BY <3>1, <4>1
      <4> QED BY <3>1, <4>1, <4>2, Zenon
    <3>2. CASE n # m + 1
      <4>1. n \in 1 .. m /\ g[n] = f[n] /\ g[n - 1] = f[n - 1]
        BY <3>2
      <4>2. f[n] = f[n - 1] \o Ended(s, n)
        BY <2>1, <4>1
      <4> QED BY <4>1, <4>2, Zenon
    <3> QED BY <3>1, <3>2
  <2> HIDE DEF g
  <2>6. Upto(m + 1, g)
    BY <2>4, <2>5
  <2> QED BY <2>0, <2>3, <2>6, Zenon
<1>3. N = Nat
  <2> HIDE DEF N
  <2>1. N \in SUBSET Nat
    BY DEF N
  <2> QED BY <1>1, <1>2, <2>1, Induction
<1>4. Len(s) \in N
  <2> HIDE DEF N
  <2> QED BY <1>3, LenProperties
<1> QED BY <1>4 DEF Steps

Counts(s, f) ==
    /\ f \in [0 .. Len(s) -> Seq(Nat)]
    /\ Steps(s, f)
    /\ Complete(s) = f[Len(s)]

LEMMA CompleteSteps ==
    ASSUME NEW s \in Seq(Token)
    PROVE  \E f : Counts(s, f)
<1> DEFINE Upto(f) == f = [n \in 0 .. Len(s) |-> IF n = 0 THEN <<>> ELSE f[n - 1] \o Ended(s, n)]
           u == CHOOSE f : Upto(f)
<1>1. PICK f \in [0 .. Len(s) -> Seq(Nat)] : Steps(s, f)
  BY StepsExist
<1>2. Len(s) \in Nat
  BY LenProperties
<1>3. Upto(f)
  <2>1. ASSUME NEW n \in 0 .. Len(s)
        PROVE  f[n] = IF n = 0 THEN <<>> ELSE f[n - 1] \o Ended(s, n)
    BY <1>1, <1>2 DEF Steps
  <2> QED BY <2>1
<1>4. Upto(u)
  BY <1>3, Zenon
<1>5. Complete(s) = u[Len(s)]
  BY DEF Complete
<1> HIDE DEF u
<1>6. Steps(s, u)
  <2>0. ASSUME NEW n \in 0 .. Len(s)
        PROVE  u[n] = IF n = 0 THEN <<>> ELSE u[n - 1] \o Ended(s, n)
    BY <1>4, Zenon
  <2>1. u[0] = <<>>
    BY <1>2, <2>0
  <2>2. ASSUME NEW n \in 1 .. Len(s) PROVE u[n] = u[n - 1] \o Ended(s, n)
    <3>1. n \in 0 .. Len(s) /\ n # 0
      BY <1>2
    <3> QED BY <2>0, <3>1, Zenon
  <2> QED BY <2>1, <2>2 DEF Steps
<1>7. u[Len(s)] = f[Len(s)]
  <2>1. \A n \in 0 .. Len(s) : u[n] = f[n]
    <3>1. Agree(s, s, Len(s))
      BY <1>2 DEF Agree
    <3> QED BY <1>1, <1>6, <3>1, StepsAgree
  <2> QED BY <1>2, <2>1
<1> QED BY <1>1, <1>5, <1>7 DEF Counts

LEMMA CompleteType ==
    ASSUME NEW s \in Seq(Token)
    PROVE  Complete(s) \in Seq(Nat)
<1>1. PICK f : Counts(s, f)
  BY CompleteSteps
<1>2. Len(s) \in 0 .. Len(s)
  BY LenProperties
<1> QED BY <1>1, <1>2 DEF Counts

\* A stream with at most one token holds no complete message.
LEMMA CompleteShort ==
    ASSUME NEW s \in Seq(Token), Len(s) <= 1
    PROVE  Complete(s) = <<>>
<1>1. Len(s) = 0 \/ Len(s) = 1
  <2> DEFINE n == Len(s)
  <2>1. n \in Nat /\ n <= 1
    BY LenProperties
  <2> HIDE DEF n
  <2>2. n = 0 \/ n = 1
    BY <2>1
  <2> QED BY <2>2 DEF n
<1>2. PICK f : Counts(s, f)
  BY CompleteSteps
<1>3. f[0] = <<>>
  BY <1>2 DEF Steps, Counts
<1>4. CASE Len(s) = 1
  <2>1. 1 \in 1 .. Len(s) /\ 1 - 1 = 0
    BY <1>4
  <2>2. f[1] = f[0] \o Ended(s, 1)
    BY <1>2, <2>1 DEF Steps, Counts
  <2>3. Ended(s, 1) = <<>>
    BY DEF Ended
  <2>4. <<>> \o <<>> = <<>>
    OBVIOUS
  <2> QED BY <1>2, <1>3, <1>4, <2>2, <2>3, <2>4 DEF Counts
<1> QED BY <1>1, <1>2, <1>3, <1>4 DEF Counts

LEMMA CompleteEmpty == Complete(<<>>) = <<>>
<1> DEFINE e == <<>>
<1>1. e \in Seq(Token) /\ Len(e) <= 1
  OBVIOUS
<1>2. Complete(e) = <<>>
  <2> HIDE DEF e
  <2> QED BY <1>1, CompleteShort
<1> QED BY <1>2

\* The tokens of a stream to which a message is added.
LEMMA MessageAdded ==
    ASSUME NEW s \in Seq(Token), NEW b \in Nat \cup {Junk}
    PROVE  LET t == s \o Message(b) IN
           /\ t \in Seq(Token)
           /\ Len(t) = Len(s) + 2
           /\ \A i \in 1 .. Len(s) : t[i] = s[i]
           /\ t[Len(s) + 1] = b
           /\ t[Len(s) + 2] = NL
<1> DEFINE t == s \o Message(b)
<1>1. /\ Message(b) \in Seq(Token) /\ Len(Message(b)) = 2
      /\ Message(b)[1] = b /\ Message(b)[2] = NL
  BY MessageProperties DEF Message
<1>2. /\ t \in Seq(Token)
      /\ Len(t) = Len(s) + Len(Message(b))
      /\ \A i \in 1 .. Len(s) + Len(Message(b)) :
            t[i] = IF i <= Len(s) THEN s[i] ELSE Message(b)[i - Len(s)]
  BY <1>1, ConcatProperties
<1>3. Len(s) \in Nat
  BY LenProperties
<1> HIDE DEF t
<1>4. \A i \in 1 .. Len(s) : t[i] = s[i]
  BY <1>1, <1>2, <1>3
<1>5. t[Len(s) + 1] = b /\ t[Len(s) + 2] = NL
  <2>1. /\ Len(s) + 1 \in 1 .. Len(s) + 2 /\ Len(s) + 2 \in 1 .. Len(s) + 2
        /\ ~(Len(s) + 1 <= Len(s)) /\ ~(Len(s) + 2 <= Len(s))
        /\ Len(s) + 1 - Len(s) = 1 /\ Len(s) + 2 - Len(s) = 2
    BY <1>3
  <2> QED BY <1>1, <1>2, <2>1
<1> QED BY <1>1, <1>2, <1>4, <1>5 DEF t

\* The body of a message as its receiver understands it.
Body(b) == IF b \in Nat THEN <<b>> ELSE <<>>

\* A message added to a stream is complete, and nothing else becomes so.
LEMMA CompleteMessage ==
    ASSUME NEW s \in Seq(Token), NEW b \in Nat \cup {Junk}
    PROVE  Complete(s \o Message(b)) = Complete(s) \o Body(b)
<1> DEFINE t == s \o Message(b)
           k == Len(s)
<1>1. /\ t \in Seq(Token) /\ Len(t) = k + 2
      /\ \A i \in 1 .. k : t[i] = s[i]
      /\ t[k + 1] = b /\ t[k + 2] = NL
  BY MessageAdded
<1>2. k \in Nat
  BY LenProperties
<1>3. PICK f : Counts(s, f)
  BY CompleteSteps
<1> HIDE DEF t
<1>4. PICK g : Counts(t, g)
  BY <1>1, CompleteSteps
<1>5. g[k] = f[k]
  <2>1. Agree(s, t, k)
    BY <1>1, <1>2 DEF Agree
  <2>2. \A n \in 0 .. k : f[n] = g[n]
    <3> HIDE DEF k
    <3>1. Steps(s, f) /\ Steps(t, g)
      BY <1>3, <1>4 DEF Counts
    <3> QED BY <1>1, <2>1, <3>1, StepsAgree
  <2> QED BY <1>2, <2>2
<1> HIDE DEF k
<1>6. g[k + 1] = g[k] \o Ended(t, k + 1) /\ g[k + 2] = g[k + 1] \o Ended(t, k + 2)
  <2>1. /\ k + 1 \in 1 .. Len(t) /\ (k + 1) - 1 = k
        /\ k + 2 \in 1 .. Len(t) /\ (k + 2) - 1 = k + 1
    BY <1>1, <1>2
  <2> QED BY <1>4, <2>1 DEF Steps, Counts
<1>7. Ended(t, k + 1) = <<>>
  <2>1. b # NL
    BY ConnectionAssumption
  <2> QED BY <1>1, <2>1 DEF Ended
<1>8. Ended(t, k + 2) = Body(b)
  <2>1. k + 2 > 1 /\ (k + 2) - 1 = k + 1
    BY <1>2
  <2> QED BY <1>1, <2>1 DEF Ended, Body
<1>9. g[k] \o <<>> = g[k]
  <2>1. g[k] \in Seq(Nat)
    BY <1>1, <1>2, <1>4 DEF Counts
  <2> QED BY <2>1, ConcatEmptySeq
<1>10. Complete(s) = f[k] /\ Complete(t) = g[k + 2]
  BY <1>1, <1>3, <1>4 DEF Counts, k
<1> QED BY <1>5, <1>6, <1>7, <1>8, <1>9, <1>10 DEF t

\* What is cut off a stream is cut off its messages.
LEMMA CompleteCut ==
    ASSUME NEW s \in Seq(Token), NEW k \in 0 .. Len(s)
    PROVE  \E w \in Seq(Nat) : Complete(s) = Complete(SubSeq(s, 1, k)) \o w
<1> DEFINE t == SubSeq(s, 1, k)
<1>1. /\ t \in Seq(Token) /\ Len(t) = k
      /\ \A i \in 1 .. k : t[i] = s[i]
  <2>1. t \in Seq(Token)
    BY PartProperties
  <2>2. \A i \in 1 .. k : s[i] \in Token
    BY LenProperties, ElementOfSeq
  <2>3. /\ Len(t) = IF 1 <= k THEN k - 1 + 1 ELSE 0
        /\ \A i \in 1 .. k - 1 + 1 : t[i] = s[1 + i - 1]
    BY <2>2, SubSeqProperties
  <2> HIDE DEF t
  <2> QED BY <2>1, <2>3
<1>2. Len(s) \in Nat /\ k \in Nat /\ k <= Len(s)
  BY LenProperties
<1>3. PICK f : Counts(s, f)
  BY CompleteSteps
<1> HIDE DEF t
<1>4. PICK g : Counts(t, g)
  BY <1>1, CompleteSteps
<1>5. Complete(t) = f[k]
  <2>1. Agree(s, t, k)
    BY <1>1, <1>2 DEF Agree
  <2>2. \A n \in 0 .. k : f[n] = g[n]
    <3>1. Steps(s, f) /\ Steps(t, g)
      BY <1>3, <1>4 DEF Counts
    <3> QED BY <1>1, <2>1, <3>1, StepsAgree
  <2>3. Complete(t) = g[k]
    BY <1>1, <1>4 DEF Counts
  <2> QED BY <1>2, <2>2, <2>3
<1>6. \A n \in 0 .. Len(s) : f[n] \in Seq(Nat)
  BY <1>3 DEF Counts
<1> DEFINE N == {d \in Nat : k + d <= Len(s) => \E w \in Seq(Nat) : f[k + d] = f[k] \o w}
<1>7. 0 \in N
  <2>1. f[k] \in Seq(Nat) /\ <<>> \in Seq(Nat)
    BY <1>2, <1>6
  <2>2. k + 0 = k /\ f[k] = f[k] \o <<>>
    BY <1>2, <2>1, ConcatEmptySeq
  <2> QED BY <2>1, <2>2
<1>8. ASSUME NEW d \in N PROVE d + 1 \in N
  <2>0. d \in Nat /\ d + 1 \in Nat
    OBVIOUS
  <2> SUFFICES ASSUME k + (d + 1) <= Len(s)
               PROVE  \E w \in Seq(Nat) : f[k + (d + 1)] = f[k] \o w
    BY <2>0
  <2>1. PICK v \in Seq(Nat) : f[k + d] = f[k] \o v
    <3>1. k + d <= Len(s)
      BY <1>2, <2>0
    <3> QED BY <3>1, Zenon
  <2> HIDE DEF N
  <2>2. k + (d + 1) \in 1 .. Len(s) /\ (k + (d + 1)) - 1 = k + d
    BY <1>2, <2>0
  <2>3. f[k + (d + 1)] = f[k + d] \o Ended(s, k + (d + 1))
    BY <1>3, <2>2 DEF Steps, Counts
  <2>4. f[k] \in Seq(Nat) /\ Ended(s, k + (d + 1)) \in Seq(Nat)
    BY <1>2, <1>6, EndedType
  <2>5. f[k + (d + 1)] = f[k] \o (v \o Ended(s, k + (d + 1)))
    <3> DEFINE p == f[k]
               e == Ended(s, k + (d + 1))
    <3>1. p \in Seq(Nat) /\ v \in Seq(Nat) /\ e \in Seq(Nat)
      BY <2>4
    <3>2. (p \o v) \o e = p \o (v \o e)
      <4> HIDE DEF p, e
      <4> QED BY <3>1, Regroup, ZenonT(30)
    <3> QED BY <2>1, <2>3, <3>2, Zenon
  <2>6. v \o Ended(s, k + (d + 1)) \in Seq(Nat)
    BY <2>4, ConcatProperties, Zenon
  <2> QED BY <2>5, <2>6, Zenon
<1>9. N = Nat
  <2> HIDE DEF N
  <2>1. N \in SUBSET Nat
    BY DEF N
  <2> QED BY <1>7, <1>8, <2>1, Induction
<1>10. PICK w \in Seq(Nat) : f[Len(s)] = f[k] \o w
  <2>1. Len(s) - k \in N
    <3> HIDE DEF N
    <3> QED BY <1>2, <1>9
  <2>2. k + (Len(s) - k) = Len(s) /\ Len(s) <= Len(s)
    BY <1>2
  <2> QED BY <2>1, <2>2
<1>11. Complete(s) = Complete(t) \o w
  BY <1>3, <1>5, <1>10 DEF Counts
<1> QED BY <1>11 DEF t
-----------------------------------------------------------------------------
(* Streams in which bodies and ends of messages alternate.                   *)

Framed(s) == \A i \in 1 .. Len(s) : s[i] = NL <=> i % 2 = 0

Even(n) == n \in Nat /\ n % 2 = 0

\* A stream without its first message.
Rest(s) == SubSeq(s, 3, Len(s))

LEMMA RestProperties ==
    ASSUME NEW s \in Seq(Token), Len(s) >= 2
    PROVE  /\ Rest(s) \in Seq(Token)
           /\ Len(Rest(s)) = Len(s) - 2
           /\ \A i \in 1 .. Len(s) - 2 : Rest(s)[i] = s[i + 2]
<1> DEFINE k == Len(s)
<1>1. k \in Nat /\ k >= 2
  BY LenProperties
<1>2. \A i \in 1 .. k : s[i] \in Token
  BY ElementOfSeq
<1> HIDE DEF k
<1>3. \A i \in 3 .. k : s[i] \in Token
  BY <1>1, <1>2
<1>4. /\ SubSeq(s, 3, k) \in Seq(Token)
      /\ Len(SubSeq(s, 3, k)) = IF 3 <= k THEN k - 3 + 1 ELSE 0
      /\ \A i \in 1 .. k - 3 + 1 : SubSeq(s, 3, k)[i] = s[3 + i - 1]
  BY <1>1, <1>3, SubSeqProperties
<1>5. Len(SubSeq(s, 3, k)) = k - 2
  BY <1>1, <1>4
<1>6. ASSUME NEW i \in 1 .. k - 2 PROVE SubSeq(s, 3, k)[i] = s[i + 2]
  <2>1. i \in 1 .. k - 3 + 1 /\ 3 + i - 1 = i + 2
    BY <1>1
  <2> QED BY <1>4, <2>1
<1> QED BY <1>4, <1>5, <1>6 DEF Rest, k

LEMMA FramedMessage ==
    ASSUME NEW s \in Seq(Token), Framed(s), Even(Len(s)), NEW b \in Nat \cup {Junk}
    PROVE  Framed(s \o Message(b)) /\ Even(Len(s \o Message(b)))
<1> DEFINE t == s \o Message(b)
           k == Len(s)
<1>1. /\ Len(t) = k + 2
      /\ \A i \in 1 .. k : t[i] = s[i]
      /\ t[k + 1] = b /\ t[k + 2] = NL
  BY MessageAdded
<1>2. k \in Nat /\ k % 2 = 0 /\ \A i \in 1 .. k : s[i] = NL <=> i % 2 = 0
  BY DEF Even, Framed
<1>3. b # NL
  BY ConnectionAssumption
<1> HIDE DEF t, k
<1>4. ASSUME NEW i \in 1 .. k + 2 PROVE t[i] = NL <=> i % 2 = 0
  <2>1. i \in 1 .. k \/ i = k + 1 \/ i = k + 2
    BY <1>2
  <2>2. (k + 1) % 2 # 0 /\ (k + 2) % 2 = 0
    BY <1>2
  <2> QED BY <1>1, <1>2, <1>3, <2>1, <2>2
<1>5. k + 2 \in Nat /\ (k + 2) % 2 = 0
  BY <1>2
<1> QED BY <1>1, <1>4, <1>5 DEF Framed, Even, t

LEMMA FramedCut ==
    ASSUME NEW s \in Seq(Token), Framed(s), NEW k \in 0 .. Len(s)
    PROVE  Framed(SubSeq(s, 1, k))
<1> DEFINE t == SubSeq(s, 1, k)
<1>1. /\ Len(t) = IF 1 <= k THEN k - 1 + 1 ELSE 0
      /\ \A i \in 1 .. k - 1 + 1 : t[i] = s[1 + i - 1]
  <2>1. \A i \in 1 .. k : s[i] \in Token
    BY LenProperties, ElementOfSeq
  <2> QED BY <2>1, SubSeqProperties
<1>2. k \in Nat /\ \A i \in 1 .. k : i \in 1 .. Len(s)
  BY LenProperties
<1> HIDE DEF t
<1>3. Len(t) = k /\ \A i \in 1 .. k : t[i] = s[i]
  BY <1>1, <1>2
<1> QED BY <1>2, <1>3 DEF Framed, t

LEMMA FramedRest ==
    ASSUME NEW s \in Seq(Token), Framed(s), Len(s) >= 2
    PROVE  Framed(Rest(s)) /\ (Even(Len(s)) => Even(Len(Rest(s))))
<1> DEFINE k == Len(s)
<1>1. /\ Len(Rest(s)) = k - 2
      /\ \A i \in 1 .. k - 2 : Rest(s)[i] = s[i + 2]
  BY RestProperties
<1>2. k \in Nat /\ k >= 2 /\ \A i \in 1 .. k : s[i] = NL <=> i % 2 = 0
  BY LenProperties DEF Framed
<1> HIDE DEF k
<1>3. ASSUME NEW i \in 1 .. k - 2 PROVE Rest(s)[i] = NL <=> i % 2 = 0
  <2>1. i + 2 \in 1 .. k /\ (i + 2) % 2 = i % 2
    BY <1>2
  <2> QED BY <1>1, <1>2, <2>1
<1>4. k % 2 = 0 => k - 2 \in Nat /\ (k - 2) % 2 = 0
  BY <1>2
<1> QED BY <1>1, <1>3, <1>4 DEF Framed, Even, k

\* The complete messages of a stream are its first one, if its receiver
\* understands that, and those of the rest.
LEMMA CompleteRest ==
    ASSUME NEW s \in Seq(Token), Framed(s), Len(s) >= 2
    PROVE  Complete(s) = Body(s[1]) \o Complete(Rest(s))
<1> DEFINE t == Rest(s)
           k == Len(s) - 2
           h == Body(s[1])
<1>1. /\ t \in Seq(Token) /\ Len(t) = k
      /\ \A i \in 1 .. k : t[i] = s[i + 2]
  BY RestProperties
<1>2. k \in Nat /\ Len(s) = k + 2
  BY LenProperties
<1>3. \A i \in 1 .. k + 2 : s[i] = NL <=> i % 2 = 0
  BY <1>2 DEF Framed
<1> HIDE DEF k, t
<1>4. PICK f : Counts(s, f)
  BY CompleteSteps
<1>5. PICK g : Counts(t, g)
  BY <1>1, CompleteSteps
<1>6. /\ f[0] = <<>>
      /\ \A n \in 1 .. k + 2 : f[n] = f[n - 1] \o Ended(s, n)
  BY <1>2, <1>4 DEF Counts, Steps
<1>7. /\ g[0] = <<>>
      /\ \A n \in 1 .. k : g[n] = g[n - 1] \o Ended(t, n)
      /\ \A n \in 0 .. k : g[n] \in Seq(Nat)
  BY <1>1, <1>5 DEF Counts, Steps
<1>8. h \in Seq(Nat)
  BY DEF Body
<1>9. f[2] = h
  <2>1. 1 \in 1 .. k + 2 /\ 2 \in 1 .. k + 2 /\ 1 - 1 = 0 /\ 2 - 1 = 1
    BY <1>2
  <2>2. f[1] = f[0] \o Ended(s, 1) /\ f[2] = f[1] \o Ended(s, 2)
    BY <1>6, <2>1
  <2>3. Ended(s, 1) = <<>>
    BY DEF Ended
  <2>4. Ended(s, 2) = h
    <3>1. s[2] = NL
      BY <1>3, <2>1
    <3> QED BY <2>1, <3>1 DEF Ended, Body
  <2>5. <<>> \o <<>> = <<>>
    OBVIOUS
  <2>6. <<>> \o h = h
    BY <1>8, ConcatEmptySeq
  <2> QED BY <1>6, <2>2, <2>3, <2>4, <2>5, <2>6
<1> HIDE DEF h
<1> DEFINE N == {n \in Nat : n <= k => f[n + 2] = h \o g[n]}
<1>10. 0 \in N
  <2>1. h \o <<>> = h
    BY <1>8, ConcatEmptySeq
  <2>2. f[0 + 2] = h \o g[0]
    BY <1>7, <1>9, <2>1
  <2> QED BY <2>2
<1>11. ASSUME NEW n \in N PROVE n + 1 \in N
  <2>0. n \in Nat /\ n + 1 \in Nat
    OBVIOUS
  <2> SUFFICES ASSUME n + 1 <= k PROVE f[(n + 1) + 2] = h \o g[n + 1]
    BY <2>0
  <2>1. f[n + 2] = h \o g[n]
    <3>1. n <= k
      BY <1>2, <2>0
    <3> QED BY <3>1
  <2> HIDE DEF N
  <2>2. /\ (n + 1) + 2 \in 1 .. k + 2 /\ ((n + 1) + 2) - 1 = n + 2
        /\ n + 1 \in 1 .. k /\ (n + 1) - 1 = n
        /\ n \in 0 .. k /\ n + 1 \in 1 .. k + 2
    BY <1>2, <2>0
  <2>3. f[(n + 1) + 2] = f[n + 2] \o Ended(s, (n + 1) + 2)
    BY <1>6, <2>2
  <2>4. g[n + 1] = g[n] \o Ended(t, n + 1)
    BY <1>7, <2>2
  <2>5. Ended(s, (n + 1) + 2) = Ended(t, n + 1)
    <3>1. t[n + 1] = s[(n + 1) + 2]
      BY <1>1, <2>2
    <3>2. CASE n = 0
      <4>1. s[(n + 1) + 2] # NL
        <5>1. ((n + 1) + 2) % 2 # 0
          BY <3>2
        <5> QED BY <1>3, <2>2, <5>1
      <4>2. ~(n + 1 > 1)
        BY <3>2
      <4> QED BY <4>1, <4>2 DEF Ended
    <3>3. CASE n # 0
      <4>1. /\ n \in 1 .. k /\ n + 1 > 1 /\ (n + 1) + 2 > 1
            /\ (n + 1) - 1 = n /\ ((n + 1) + 2) - 1 = n + 2
        BY <2>0, <2>2, <3>3
      <4>2. t[n] = s[n + 2]
        BY <1>1, <4>1
      <4> QED BY <3>1, <4>1, <4>2 DEF Ended
    <3> QED BY <3>2, <3>3
  <2> DEFINE p == g[n]
             e == Ended(t, n + 1)
  <2>6. p \in Seq(Nat) /\ e \in Seq(Nat)
    BY <1>7, <2>2, EndedType
  <2>7. (h \o p) \o e = h \o (p \o e)
    <3> HIDE DEF p, e
    <3> QED BY <1>8, <2>6, Regroup, SMTT(30)
  <2> QED BY <2>1, <2>3, <2>4, <2>5, <2>7, Zenon
<1>12. N = Nat
  <2> HIDE DEF N
  <2>1. N \in SUBSET Nat
    BY DEF N
  <2> QED BY <1>10, <1>11, <2>1, Induction
<1>13. f[k + 2] = h \o g[k]
  BY <1>2, <1>12
<1> HIDE DEF N
<1>14. Complete(s) = f[k + 2] /\ Complete(t) = g[k]
  BY <1>1, <1>2, <1>4, <1>5 DEF Counts
<1> QED BY <1>13, <1>14 DEF t, h
-----------------------------------------------------------------------------
(* A stream as its receiver sees it: what it has buffered, and what has not  *)
(* arrived.                                                                  *)

\* What recv returns moves from the one to the other.
LEMMA Received ==
    ASSUME NEW b \in Seq(Token), NEW s \in Seq(Token), NEW n \in 0 .. Len(s)
    PROVE  (b \o SubSeq(s, 1, n)) \o SubSeq(s, n + 1, Len(s)) = b \o s
<1>1. SubSeq(s, 1, n) \in Seq(Token) /\ SubSeq(s, n + 1, Len(s)) \in Seq(Token)
  BY PartProperties
<1>2. Len(s) \in Nat
  BY LenProperties
<1>3. SubSeq(s, 1, n) \o SubSeq(s, n + 1, Len(s)) = SubSeq(s, 1, Len(s))
  <2>1. 1 \in 1 .. Len(s) + 1 /\ n \in 1 - 1 .. Len(s) /\ Len(s) \in n .. Len(s)
    BY <1>2
  <2> QED BY <2>1, ConcatAdjacentSubSeq
<1>4. SubSeq(s, 1, Len(s)) = s
  BY SubSeqFull
<1> DEFINE x == SubSeq(s, 1, n)
           y == SubSeq(s, n + 1, Len(s))
<1>5. (b \o x) \o y = b \o (x \o y)
  <2>1. x \in Seq(Token) /\ y \in Seq(Token)
    BY <1>1
  <2> HIDE DEF x, y
  <2> QED BY <2>1, RegroupTokens
<1> QED BY <1>3, <1>4, <1>5

\* What is cut off on the way is cut off the stream.
LEMMA CutOnTheWay ==
    ASSUME NEW b \in Seq(Token), NEW s \in Seq(Token), NEW n \in 0 .. Len(s)
    PROVE  /\ Len(b) + n \in 0 .. Len(b \o s)
           /\ b \o SubSeq(s, 1, n) = SubSeq(b \o s, 1, Len(b) + n)
<1> DEFINE x == SubSeq(s, 1, n)
           t == b \o s
           u == SubSeq(t, 1, Len(b) + n)
<1>1. Len(b) \in Nat /\ Len(s) \in Nat /\ n \in Nat /\ n <= Len(s)
  BY LenProperties
<1>2. /\ t \in Seq(Token) /\ Len(t) = Len(b) + Len(s)
      /\ \A i \in 1 .. Len(b) + Len(s) : t[i] = IF i <= Len(b) THEN b[i] ELSE s[i - Len(b)]
  BY ConcatProperties
<1>3. /\ x \in Seq(Token) /\ Len(x) = n /\ \A i \in 1 .. n : x[i] = s[i]
  <2>1. \A i \in 1 .. n : s[i] \in Token
    BY <1>1, ElementOfSeq
  <2>2. /\ x \in Seq(Token) /\ Len(x) = IF 1 <= n THEN n - 1 + 1 ELSE 0
        /\ \A i \in 1 .. n - 1 + 1 : x[i] = s[1 + i - 1]
    BY <1>1, <2>1, SubSeqProperties
  <2> HIDE DEF x
  <2> QED BY <1>1, <2>2
<1>4. /\ b \o x \in Seq(Token) /\ Len(b \o x) = Len(b) + n
      /\ \A i \in 1 .. Len(b) + n : (b \o x)[i] = IF i <= Len(b) THEN b[i] ELSE x[i - Len(b)]
  <2> HIDE DEF x
  <2> QED BY <1>3, ConcatProperties
<1>5. Len(b) + n \in 0 .. Len(t)
  <2> HIDE DEF t
  <2> QED BY <1>1, <1>2
<1>6. /\ u \in Seq(Token) /\ Len(u) = Len(b) + n /\ \A i \in 1 .. Len(b) + n : u[i] = t[i]
  <2> DEFINE k == Len(b) + n
  <2> HIDE DEF t
  <2>1. \A i \in 1 .. k : t[i] \in Token
    <3>1. \A i \in 1 .. k : i \in 1 .. Len(t)
      BY <1>1, <1>5
    <3> QED BY <1>2, <3>1, ElementOfSeq
  <2>2. k \in Nat
    BY <1>1
  <2> HIDE DEF k
  <2>3. /\ SubSeq(t, 1, k) \in Seq(Token) /\ Len(SubSeq(t, 1, k)) = IF 1 <= k THEN k - 1 + 1 ELSE 0
        /\ \A i \in 1 .. k - 1 + 1 : SubSeq(t, 1, k)[i] = t[1 + i - 1]
    BY <2>1, <2>2, SubSeqProperties
  <2>4. Len(SubSeq(t, 1, k)) = k /\ \A i \in 1 .. k : SubSeq(t, 1, k)[i] = t[i]
    BY <2>2, <2>3
  <2> QED BY <2>3, <2>4 DEF k
<1> DEFINE v == b \o x
<1>7. ASSUME NEW i \in 1 .. Len(b) + n PROVE v[i] = u[i]
  <2> HIDE DEF t, x, u
  <2>1. i \in 1 .. Len(b) + Len(s) /\ (~(i <= Len(b)) => i - Len(b) \in 1 .. n)
    BY <1>1
  <2> QED BY <1>2, <1>3, <1>4, <1>6, <2>1
<1>8. v = u
  <2>1. v \in Seq(Token) /\ u \in Seq(Token) /\ Len(v) = Len(u)
    BY <1>4, <1>6
  <2>2. \A i \in 1 .. Len(v) : v[i] = u[i]
    BY <1>4, <1>7
  <2> HIDE DEF u, v
  <2> QED BY <2>1, <2>2, SeqEqual
<1> QED BY <1>5, <1>8

\* A complete line in the buffer is the first message of the stream.
LEMMA FirstLine ==
    ASSUME NEW b \in Seq(Token), NEW s \in Seq(Token), Framed(b \o s), HasLine(b)
    PROVE  /\ Len(b \o s) >= 2
           /\ Parsed(Line(b)) = Body((b \o s)[1])
           /\ AfterLine(b) \in Seq(Token)
           /\ AfterLine(b) \o s = Rest(b \o s)
<1> DEFINE t == b \o s
           e == LineEnd(b)
<1>1. Len(b) \in Nat /\ Len(s) \in Nat
  BY LenProperties
<1>2. /\ t \in Seq(Token) /\ Len(t) = Len(b) + Len(s)
      /\ \A i \in 1 .. Len(b) + Len(s) : t[i] = IF i <= Len(b) THEN b[i] ELSE s[i - Len(b)]
  BY ConcatProperties
<1>3. \A i \in 1 .. Len(t) : t[i] = NL <=> i % 2 = 0
  BY DEF Framed
<1>4. e \in 1 .. Len(b) /\ \A i \in 1 .. e - 1 : b[i] # NL
  BY LineEndProperties
<1>5. b[e] = NL
  BY LineEndProperties
<1> HIDE DEF t, e
<1>6. \A i \in 1 .. Len(b) : b[i] = NL <=> i % 2 = 0
  BY <1>1, <1>2, <1>3
<1>7. e = 2 /\ Len(b) >= 2
  <2>1. e % 2 = 0
    BY <1>4, <1>5, <1>6
  <2>2. e >= 2
    BY <1>1, <1>4, <2>1
  <2>3. ASSUME e > 2 PROVE FALSE
    <3>1. 2 \in 1 .. e - 1 /\ 2 \in 1 .. Len(b)
      BY <1>1, <1>4, <2>3
    <3>2. b[2] # NL
      BY <1>4, <3>1
    <3> QED BY <1>6, <3>1, <3>2
  <2> QED BY <1>1, <1>4, <2>2, <2>3
<1>8. /\ 1 \in 1 .. Len(b) /\ b[1] \in Nat \cup {Junk} /\ t[1] = b[1]
  <2>1. 1 \in 1 .. Len(b) /\ 1 \in 1 .. Len(b) + Len(s) /\ 1 <= Len(b)
    BY <1>1, <1>7
  <2>2. b[1] \in Token /\ b[1] # NL
    BY <1>6, <2>1, ElementOfSeq
  <2> QED BY <1>2, <2>1, <2>2 DEF Token
<1>9. Parsed(Line(b)) = Body(t[1])
  <2>1. Line(b) = SubSeq(b, 1, 1)
    BY <1>7 DEF Line, e
  <2>2. /\ Len(SubSeq(b, 1, 1)) = 1 /\ SubSeq(b, 1, 1)[1] = b[1]
        /\ SubSeq(b, 1, 1) = <<b[1]>>
    <3>1. \A i \in 1 .. 1 : b[i] \in Token
      BY <1>8, ElementOfSeq
    <3>2. /\ SubSeq(b, 1, 1) \in Seq(Token)
          /\ Len(SubSeq(b, 1, 1)) = 1 /\ SubSeq(b, 1, 1)[1] = b[1]
      BY <3>1, SubSeqProperties
    <3> DEFINE x == SubSeq(b, 1, 1)
               y == <<b[1]>>
    <3>3. y \in Seq(Token) /\ Len(y) = 1 /\ y[1] = b[1]
      BY <3>1
    <3> HIDE DEF x, y
    <3>4. x = y
      BY <3>2, <3>3, SeqEqual DEF x
    <3> QED BY <3>2, <3>4 DEF x, y
  <2>3. Junk \notin Nat
    BY ConnectionAssumption
  <2>4. Line(b) = <<b[1]>> /\ Len(Line(b)) = 1 /\ Line(b)[1] = b[1]
    BY <2>1, <2>2
  <2> QED BY <1>8, <2>3, <2>4 DEF Parsed, Body
<1>10. AfterLine(b) = Rest(b)
  BY <1>7 DEF AfterLine, Rest, e
<1>11. /\ Rest(b) \in Seq(Token) /\ Len(Rest(b)) = Len(b) - 2
       /\ \A i \in 1 .. Len(b) - 2 : Rest(b)[i] = b[i + 2]
  BY <1>7, RestProperties
<1>12. Len(t) >= 2
  BY <1>1, <1>2, <1>7
<1>13. /\ Rest(t) \in Seq(Token) /\ Len(Rest(t)) = Len(t) - 2
       /\ \A i \in 1 .. Len(t) - 2 : Rest(t)[i] = t[i + 2]
  BY <1>2, <1>12, RestProperties
<1> DEFINE r == Rest(b)
           v == r \o s
           u == Rest(t)
<1>14. v = u
  <2>1. /\ v \in Seq(Token) /\ Len(v) = Len(r) + Len(s)
        /\ \A i \in 1 .. Len(r) + Len(s) : v[i] = IF i <= Len(r) THEN r[i] ELSE s[i - Len(r)]
    <3>1. r \in Seq(Token)
      BY <1>11
    <3> HIDE DEF r
    <3> QED BY <3>1, ConcatProperties
  <2>2. Len(v) = Len(u)
    <3>1. Len(v) = Len(b) - 2 + Len(s)
      BY <1>11, <2>1
    <3>2. Len(u) = Len(b) + Len(s) - 2
      BY <1>2, <1>13
    <3> HIDE DEF u, v
    <3> QED BY <1>1, <3>1, <3>2
  <2>3. ASSUME NEW i \in 1 .. Len(v) PROVE v[i] = u[i]
    <3>1. i \in 1 .. Len(b) - 2 + Len(s)
      BY <1>11, <2>1
    <3>2. u[i] = t[i + 2]
      <4>1. i \in 1 .. Len(t) - 2
        BY <1>1, <1>2, <3>1
      <4> QED BY <1>13, <4>1
    <3>3. i + 2 \in 1 .. Len(b) + Len(s)
      BY <1>1, <3>1
    <3>4. CASE i <= Len(b) - 2
      <4>1. i \in 1 .. Len(b) - 2 /\ i + 2 <= Len(b)
        BY <1>1, <3>1, <3>4
      <4>2. v[i] = r[i] /\ r[i] = b[i + 2]
        BY <1>11, <2>1, <3>4, <4>1
      <4>3. t[i + 2] = b[i + 2]
        BY <1>2, <3>3, <4>1
      <4> QED BY <3>2, <4>2, <4>3
    <3>5. CASE ~(i <= Len(b) - 2)
      <4>1. ~(i + 2 <= Len(b)) /\ i - (Len(b) - 2) = i + 2 - Len(b)
        BY <1>1, <3>1, <3>5
      <4>2. v[i] = s[i - (Len(b) - 2)]
        BY <1>11, <2>1, <3>5
      <4>3. t[i + 2] = s[i + 2 - Len(b)]
        BY <1>2, <3>3, <4>1
      <4> QED BY <3>2, <4>1, <4>2, <4>3
    <3> QED BY <3>4, <3>5
  <2>4. v \in Seq(Token) /\ u \in Seq(Token)
    BY <1>13, <2>1
  <2> HIDE DEF u, v
  <2> QED BY <2>2, <2>3, <2>4, SeqEqual
<1> QED BY <1>9, <1>10, <1>11, <1>12, <1>14 DEF t

\* Without a line the buffer holds at most a body.
LEMMA NoLine ==
    ASSUME NEW b \in Seq(Token), NEW s \in Seq(Token), Framed(b \o s), ~HasLine(b)
    PROVE  Len(b) <= 1
<1> DEFINE t == b \o s
<1>1. Len(b) \in Nat /\ Len(s) \in Nat
  BY LenProperties
<1>2. /\ Len(t) = Len(b) + Len(s)
      /\ \A i \in 1 .. Len(b) + Len(s) : t[i] = IF i <= Len(b) THEN b[i] ELSE s[i - Len(b)]
  BY ConcatProperties
<1>3. \A i \in 1 .. Len(t) : t[i] = NL <=> i % 2 = 0
  BY DEF Framed
<1>4. \A i \in 1 .. Len(b) : b[i] # NL
  BY DEF HasLine, Contains
<1> HIDE DEF t
<1> SUFFICES ASSUME ~(Len(b) <= 1) PROVE FALSE
  OBVIOUS
<1>5. 2 \in 1 .. Len(b) /\ 2 \in 1 .. Len(b) + Len(s) /\ 2 <= Len(b) /\ 2 % 2 = 0
  BY <1>1
<1>6. t[2] = b[2] /\ t[2] = NL
  BY <1>2, <1>3, <1>5
<1> QED BY <1>4, <1>5, <1>6
\* A message is sent.
LEMMA AddedToStream ==
    ASSUME NEW b \in Seq(Token), NEW s \in Seq(Token), NEW m \in Nat \cup {Junk},
           Framed(b \o s), Even(Len(b \o s))
    PROVE  /\ Framed(b \o (s \o Message(m))) /\ Even(Len(b \o (s \o Message(m))))
           /\ Complete(b \o (s \o Message(m))) = Complete(b \o s) \o Body(m)
<1> DEFINE t == b \o s
           x == Message(m)
<1>1. t \in Seq(Token) /\ x \in Seq(Token)
  BY ConcatProperties, MessageProperties
<1>2. t \o x = b \o (s \o x)
  <2> HIDE DEF x
  <2> QED BY <1>1, RegroupTokens
<1>3. Framed(t \o x) /\ Even(Len(t \o x)) /\ Complete(t \o x) = Complete(t) \o Body(m)
  <2> HIDE DEF t
  <2> QED BY <1>1, FramedMessage, CompleteMessage DEF t
<1> QED BY <1>2, <1>3

\* The end of what was sent is lost.
LEMMA CutFromStream ==
    ASSUME NEW b \in Seq(Token), NEW s \in Seq(Token), NEW t \in Cutoff(s), Framed(b \o s)
    PROVE  /\ Framed(b \o t)
           /\ \E w \in Seq(Nat) : Complete(b \o s) = Complete(b \o t) \o w
<1>1. PICK n \in 0 .. Len(s) : t = SubSeq(s, 1, n)
  BY DEF Cutoff
<1>2. Len(b) + n \in 0 .. Len(b \o s) /\ b \o t = SubSeq(b \o s, 1, Len(b) + n)
  BY <1>1, CutOnTheWay
<1>3. b \o s \in Seq(Token)
  BY ConcatProperties
<1>4. Framed(b \o t)
  BY <1>2, <1>3, FramedCut
<1>5. \E w \in Seq(Nat) : Complete(b \o s) = Complete(b \o t) \o w
  BY <1>2, <1>3, CompleteCut
<1> QED BY <1>4, <1>5

\* A line is parsed.
LEMMA LineOfStream ==
    ASSUME NEW b \in Seq(Token), NEW s \in Seq(Token), Framed(b \o s), HasLine(b)
    PROVE  /\ Framed(AfterLine(b) \o s)
           /\ Even(Len(b \o s)) => Even(Len(AfterLine(b) \o s))
           /\ Complete(b \o s) = Parsed(Line(b)) \o Complete(AfterLine(b) \o s)
           /\ AfterLine(b) \in Seq(Token)
           /\ Parsed(Line(b)) = <<>> \/ \E m \in Nat : Parsed(Line(b)) = <<m>>
<1> DEFINE t == b \o s
<1>1. t \in Seq(Token)
  BY ConcatProperties
<1>2. /\ Len(t) >= 2 /\ Parsed(Line(b)) = Body(t[1]) /\ AfterLine(b) \in Seq(Token)
      /\ AfterLine(b) \o s = Rest(t) /\ Framed(t)
  BY FirstLine
<1> HIDE DEF t
<1>3. /\ Framed(Rest(t)) /\ (Even(Len(t)) => Even(Len(Rest(t))))
      /\ Complete(t) = Body(t[1]) \o Complete(Rest(t))
  BY <1>1, <1>2, FramedRest, CompleteRest
<1>4. Body(t[1]) = <<>> \/ \E m \in Nat : Body(t[1]) = <<m>>
  BY DEF Body
<1> QED BY <1>2, <1>3, <1>4 DEF t

-----------------------------------------------------------------------------
(* Sequences of messages.                                                    *)

LEMMA PutLast ==
    ASSUME NEW p \in Seq(Nat), NEW q \in Seq(Nat), NEW m \in Nat
    PROVE  p \o (q \o <<m>>) = Append(p \o q, m) /\ q \o <<m>> = Append(q, m)
<1>1. p \o q \in Seq(Nat)
  BY ConcatProperties
<1> DEFINE x == <<m>>
<1>2. x \in Seq(Nat)
  OBVIOUS
<1>3. (p \o q) \o x = p \o (q \o x)
  <2> HIDE DEF x
  <2> QED BY <1>2, Regroup, SMTT(30)
<1>4. Append(p \o q, m) = (p \o q) \o x /\ Append(q, m) = q \o x
  BY <1>1, AppendIsConcat
<1> QED BY <1>3, <1>4

LEMMA TakeFirst ==
    ASSUME NEW p \in Seq(Nat), NEW q \in Seq(Nat), p # <<>>
    PROVE  /\ p \o q # <<>>
           /\ Head(p \o q) = Head(p)
           /\ Tail(p \o q) = Tail(p) \o q
<1> DEFINE t == p \o q
<1>1. Len(p) \in Nat /\ Len(p) # 0 /\ Len(q) \in Nat
  BY LenProperties, EmptySeq
<1>2. /\ t \in Seq(Nat) /\ Len(t) = Len(p) + Len(q)
      /\ \A i \in 1 .. Len(p) + Len(q) : t[i] = IF i <= Len(p) THEN p[i] ELSE q[i - Len(p)]
  BY ConcatProperties
<1> HIDE DEF t
<1>3. t # <<>>
  BY <1>1, <1>2
<1>4. Head(t) = Head(p)
  <2>1. Head(t) = t[1] /\ Head(p) = p[1]
    BY <1>2, <1>3, HeadTailProperties
  <2>2. 1 \in 1 .. Len(p) + Len(q) /\ 1 <= Len(p)
    BY <1>1
  <2> QED BY <1>2, <2>1, <2>2
<1>5. /\ Tail(t) \in Seq(Nat) /\ Len(Tail(t)) = Len(t) - 1
      /\ \A i \in 1 .. Len(Tail(t)) : Tail(t)[i] = t[i + 1]
  BY <1>2, <1>3, HeadTailProperties
<1>6. /\ Tail(p) \in Seq(Nat) /\ Len(Tail(p)) = Len(p) - 1
      /\ \A i \in 1 .. Len(Tail(p)) : Tail(p)[i] = p[i + 1]
  BY HeadTailProperties
<1> DEFINE x == Tail(p)
           v == x \o q
           u == Tail(t)
<1>7. /\ v \in Seq(Nat) /\ Len(v) = Len(x) + Len(q)
      /\ \A i \in 1 .. Len(x) + Len(q) : v[i] = IF i <= Len(x) THEN x[i] ELSE q[i - Len(x)]
  <2>1. x \in Seq(Nat)
    BY <1>6
  <2> HIDE DEF x
  <2> QED BY <2>1, ConcatProperties
<1>8. v = u
  <2>1. Len(u) = Len(p) + Len(q) - 1 /\ Len(x) = Len(p) - 1
    BY <1>2, <1>5, <1>6
  <2>2. \A i \in 1 .. Len(u) : u[i] = t[i + 1]
    BY <1>5
  <2>3. \A i \in 1 .. Len(x) : x[i] = p[i + 1]
    BY <1>6
  <2>4. u \in Seq(Nat)
    BY <1>5
  <2> HIDE DEF u, v, x
  <2>5. ASSUME NEW i \in 1 .. Len(u) PROVE v[i] = u[i]
    <3>1. i \in 1 .. Len(x) + Len(q) /\ i + 1 \in 1 .. Len(p) + Len(q)
      BY <1>1, <2>1
    <3>2. CASE i <= Len(x)
      <4>1. i \in 1 .. Len(x) /\ i + 1 <= Len(p)
        BY <1>1, <2>1, <3>1, <3>2
      <4>2. v[i] = p[i + 1] /\ t[i + 1] = p[i + 1]
        BY <1>2, <1>7, <2>3, <3>1, <3>2, <4>1
      <4> QED BY <2>2, <4>2
    <3>3. CASE ~(i <= Len(x))
      <4>1. ~(i + 1 <= Len(p)) /\ i - Len(x) = i + 1 - Len(p)
        BY <1>1, <2>1, <3>1, <3>3
      <4>2. v[i] = q[i - Len(x)]
        BY <1>7, <3>1, <3>3
      <4>3. t[i + 1] = q[i + 1 - Len(p)]
        <5>1. i + 1 \in 1 .. Len(p) + Len(q)
          BY <3>1
        <5> DEFINE n == i + 1
        <5>2. n \in 1 .. Len(p) + Len(q) /\ ~(n <= Len(p))
          BY <4>1, <5>1
        <5> HIDE DEF n
        <5>3. t[n] = q[n - Len(p)]
          BY <1>2, <5>2
        <5> QED BY <5>3 DEF n
      <4> QED BY <2>2, <4>1, <4>2, <4>3
    <3> QED BY <3>2, <3>3
  <2>6. Len(v) = Len(u)
    BY <1>1, <1>7, <2>1
  <2> QED BY <1>7, <2>4, <2>5, <2>6, SeqEqual
<1> QED BY <1>3, <1>4, <1>8 DEF t

LEMMA PrefixOfConcat ==
    ASSUME NEW p \in Seq(Nat), NEW q \in Seq(Nat)
    PROVE  Len(p) <= Len(p \o q) /\ SubSeq(p, 1, Len(p)) = SubSeq(p \o q, 1, Len(p))
<1>1. Len(p) \in Nat /\ Len(q) \in Nat
  BY LenProperties
<1>2. Len(p \o q) = Len(p) + Len(q)
  BY ConcatProperties
<1>3. CASE Len(p) = 0
  <2>1. SubSeq(p, 1, 0) = <<>> /\ SubSeq(p \o q, 1, 0) = <<>>
    BY SubSeqEmpty
  <2> QED BY <1>1, <1>2, <1>3, <2>1
<1>4. CASE Len(p) # 0
  <2>1. 1 \in 1 .. Len(p) /\ Len(p) \in 1 .. Len(p)
    BY <1>1, <1>4
  <2>2. SubSeq(p \o q, 1, Len(p)) = SubSeq(p, 1, Len(p))
    BY <2>1, SubSeqOfConcat1
  <2> QED BY <1>1, <1>2, <2>2
<1> QED BY <1>3, <1>4
-----------------------------------------------------------------------------
(* The messages to the client.                                               *)

Running == app \in {"start", "running"}

DownStream == recv_buffer \o down
DownPending == IF Running THEN queue \o Complete(DownStream) ELSE <<>>
DownStatus == IF ~Running THEN "cut" ELSE IF server = "down" THEN "ended" ELSE "open"

\* While the server is there its stream is cut nowhere.
DownWhole ==
    /\ Framed(DownStream)
    /\ server # "down" => Even(Len(DownStream))

LEMMA DownSame ==
    ASSUME UNCHANGED <<DownPending, polled, DownStatus>>
    PROVE  UNCHANGED Down!vars
BY DEF Down!vars, DownPending, DownStatus, DownStream, Running

\* A step that touches neither the stream nor the queue.
LEMMA DownIdle ==
    ASSUME UNCHANGED <<DownStream, queue, polled>>, Running' = Running,
           (server' = "down") = (server = "down"), DownWhole
    PROVE  DownWhole' /\ UNCHANGED Down!vars
<1>1. DownWhole'
  BY DEF DownWhole
<1>2. UNCHANGED <<DownPending, polled, DownStatus>>
  BY DEF DownPending, DownStatus
<1> QED BY <1>1, <1>2, DownSame

LEMMA DownCut ==
    ASSUME ~Running', polled' = polled
    PROVE  Down!Cut
BY DEF Down!Cut, Running

LEMMA DownTypes ==
    ASSUME TypeOK
    PROVE  /\ recv_buffer \in Seq(Token) /\ down \in Seq(Token) /\ queue \in Seq(Nat)
           /\ DownStream \in Seq(Token) /\ Complete(DownStream) \in Seq(Nat)
<1>1. DownStream \in Seq(Token)
  BY ConcatProperties DEF TypeOK, DownStream
<1> QED BY <1>1, CompleteType DEF TypeOK

LEMMA DownMain ==
    ASSUME TypeOK, Inv, DownWhole, Main
    PROVE  DownWhole' /\ [Down!Next]_(Down!vars)
<1> USE DEF serverVars, threadVars
<1>1. CASE Connect
  <2>1. UNCHANGED <<DownStream, queue, polled>> /\ Running' = Running
    BY <1>1 DEF Connect, DownStream, Running
  <2>2. server' = server
    BY <1>1 DEF Connect
  <2> QED BY <2>1, <2>2, DownIdle
<1>2. CASE Send
  <2>1. UNCHANGED <<DownStream, queue, polled, server>> /\ Running /\ app' \in {"running", "killed"}
    BY <1>2 DEF Send, DownStream, Running
  <2>2. CASE app' = "running"
    <3>1. Running' = Running
      BY <2>1, <2>2 DEF Running
    <3> QED BY <2>1, <3>1, DownIdle
  <2>3. CASE app' = "killed"
    <3>1. ~Running'
      BY <2>3 DEF Running
    <3>2. DownWhole'
      BY <2>1 DEF DownWhole
    <3> QED BY <2>1, <3>1, <3>2, DownCut DEF Down!Next
  <2> QED BY <2>1, <2>2, <2>3
<1>3. CASE PollEvent
  <2>1. /\ Running /\ Running' /\ UNCHANGED <<DownStream, server>>
        /\ queue # <<>> /\ queue' = Tail(queue) /\ polled' = Append(polled, Head(queue))
    BY <1>3 DEF PollEvent, DownStream, Running
  <2>2. DownWhole'
    BY <2>1 DEF DownWhole
  <2>3. queue \in Seq(Nat) /\ Complete(DownStream) \in Seq(Nat)
    BY DownTypes
  <2>4. /\ queue \o Complete(DownStream) # <<>>
        /\ Head(queue \o Complete(DownStream)) = Head(queue)
        /\ Tail(queue \o Complete(DownStream)) = Tail(queue) \o Complete(DownStream)
    BY <2>1, <2>3, TakeFirst
  <2>5. DownPending = queue \o Complete(DownStream)
        /\ DownPending' = Tail(queue) \o Complete(DownStream)
    BY <2>1 DEF DownPending
  <2>6. DownStatus' = DownStatus
    BY <2>1 DEF DownStatus
  <2>7. /\ DownPending # <<>> /\ polled' = Append(polled, Head(DownPending))
        /\ DownPending' = Tail(DownPending)
    BY <2>1, <2>4, <2>5
  <2>8. Down!Take
    BY <2>6, <2>7 DEF Down!Take, DownPending, DownStatus, DownStream, Running
  <2> QED BY <2>2, <2>8 DEF Down!Next
<1>4. CASE Quit
  <2>1. ~Running' /\ UNCHANGED <<DownStream, server, polled>>
    BY <1>4 DEF Quit, DownStream, Running
  <2> QED BY <2>1, DownCut DEF DownWhole, Down!Next
<1>5. CASE Disconnect \/ Shutdown \/ Join \/ Destroy
  <2>1. /\ ~Running /\ ~Running'
        /\ UNCHANGED <<DownStream, queue, polled, server>>
    BY <1>5 DEF Disconnect, Shutdown, Join, Destroy, DownStream, Running
  <2>2. Running' = Running
    BY <2>1 DEF Running
  <2> QED BY <2>1, <2>2, DownIdle
<1> QED BY <1>1, <1>2, <1>3, <1>4, <1>5 DEF Main

LEMMA DownReceiver ==
    ASSUME TypeOK, DownWhole, Receiver
    PROVE  DownWhole' /\ [Down!Next]_(Down!vars)
<1> USE DEF serverVars, mainVars
<1>1. Running' = Running /\ UNCHANGED <<polled, server>>
  BY DEF Receiver, CheckLoop, Receive, ReceiveEnd, TakeLine, Running
<1>2. CASE CheckLoop \/ ReceiveEnd
  <2>1. UNCHANGED <<DownStream, queue>>
    BY <1>2 DEF CheckLoop, ReceiveEnd, DownStream
  <2> QED BY <1>1, <2>1, DownIdle
<1>3. CASE Receive
  <2>1. PICK n \in Chunks(down) :
          /\ recv_buffer' = recv_buffer \o SubSeq(down, 1, n)
          /\ down' = SubSeq(down, n + 1, Len(down))
    BY <1>3 DEF Receive
  <2>2. n \in 0 .. Len(down)
    BY <2>1 DEF Chunks
  <2>3. DownStream' = DownStream
    BY <2>1, <2>2, DownTypes, Received DEF DownStream
  <2>4. queue' = queue
    BY <1>3 DEF Receive
  <2> QED BY <1>1, <2>3, <2>4, DownIdle
<1>4. CASE TakeLine /\ HasLine(recv_buffer)
  <2>1. /\ queue' = queue \o Parsed(Line(recv_buffer))
        /\ DownStream' = AfterLine(recv_buffer) \o down
    BY <1>4 DEF TakeLine, DownStream
  <2>2. /\ Framed(AfterLine(recv_buffer) \o down)
        /\ Even(Len(DownStream)) => Even(Len(AfterLine(recv_buffer) \o down))
        /\ Complete(DownStream) =
              Parsed(Line(recv_buffer)) \o Complete(AfterLine(recv_buffer) \o down)
        /\ AfterLine(recv_buffer) \in Seq(Token)
    BY <1>4, DownTypes, LineOfStream DEF DownStream, DownWhole
  <2>3. DownWhole'
    BY <1>1, <2>1, <2>2 DEF DownWhole
  <2> DEFINE p == Parsed(Line(recv_buffer))
             c == Complete(AfterLine(recv_buffer) \o down)
  <2>4. p \in Seq(Nat)
    BY <1>4, DownTypes, LineProperties
  <2>5. c \in Seq(Nat)
    <3>1. AfterLine(recv_buffer) \o down \in Seq(Token)
      BY <2>2, DownTypes, ConcatProperties
    <3> QED BY <3>1, CompleteType
  <2>6. (queue \o p) \o c = queue \o (p \o c)
    <3>1. queue \in Seq(Nat)
      BY DownTypes
    <3> HIDE DEF p, c
    <3> QED BY <2>4, <2>5, <3>1, Regroup
  <2>7. queue' \o Complete(DownStream)' = queue \o Complete(DownStream)
    BY <2>1, <2>2, <2>6
  <2>8. DownPending' = DownPending
    BY <1>1, <2>7 DEF DownPending
  <2>9. DownStatus' = DownStatus
    BY <1>1 DEF DownStatus
  <2> QED BY <1>1, <2>3, <2>8, <2>9, DownSame
<1>5. CASE TakeLine /\ ~HasLine(recv_buffer)
  <2>1. UNCHANGED <<DownStream, queue>>
    BY <1>5 DEF TakeLine, DownStream
  <2> QED BY <1>1, <2>1, DownIdle
<1> QED BY <1>2, <1>3, <1>4, <1>5 DEF Receiver

\* The server sends a message.
LEMMA DownSends ==
    ASSUME TypeOK, DownWhole, NEW m \in (1 .. MaxDown) \cup {Junk},
           down' = down \o Message(m), UNCHANGED <<recv_buffer, queue, polled, app>>,
           server # "down", server' # "down"
    PROVE  DownWhole' /\ [Down!Next]_(Down!vars)
<1> DEFINE c == Complete(DownStream)
<1>1. m \in Nat \cup {Junk}
  BY ConnectionAssumption
<1>2. DownStream' = recv_buffer \o (down \o Message(m))
  BY DEF DownStream
<1>3. /\ Framed(DownStream') /\ Even(Len(DownStream'))
      /\ Complete(DownStream') = c \o Body(m)
  <2>1. /\ recv_buffer \in Seq(Token) /\ down \in Seq(Token)
        /\ Framed(recv_buffer \o down) /\ Even(Len(recv_buffer \o down))
    BY DownTypes DEF DownWhole, DownStream
  <2>2. /\ Framed(recv_buffer \o (down \o Message(m)))
        /\ Even(Len(recv_buffer \o (down \o Message(m))))
        /\ Complete(recv_buffer \o (down \o Message(m))) = Complete(recv_buffer \o down) \o Body(m)
    BY <1>1, <2>1, AddedToStream
  <2> QED BY <1>2, <2>2 DEF DownStream
<1>4. DownWhole'
  BY <1>3 DEF DownWhole
<1>5. DownStatus' = DownStatus
  BY DEF DownStatus, Running
<1>6. c \in Seq(Nat) /\ queue \in Seq(Nat)
  BY DownTypes
<1>7. CASE Running /\ m \in 1 .. MaxDown
  <2>1. Body(m) = <<m>> /\ m \in Nat
    BY <1>7, ConnectionAssumption DEF Body
  <2>2. queue \o (c \o <<m>>) = Append(queue \o c, m)
    <3> HIDE DEF c
    <3> QED BY <1>6, <2>1, PutLast
  <2>3. DownPending' = Append(DownPending, m)
    <3>1. DownPending' = queue \o Complete(DownStream')
      BY <1>7 DEF DownPending, Running
    <3>2. DownPending = queue \o c
      BY <1>7 DEF DownPending
    <3> QED BY <1>3, <2>1, <2>2, <3>1, <3>2
  <2>4. DownStatus = "open"
    BY <1>7 DEF DownStatus
  <2>5. Down!Put
    BY <1>5, <1>7, <2>3, <2>4 DEF Down!Put, DownPending, DownStatus, DownStream, Running
  <2> QED BY <1>4, <2>5 DEF Down!Next
<1>8. CASE ~(Running /\ m \in 1 .. MaxDown)
  <2>1. DownPending' = DownPending
    <3>1. CASE ~Running
      BY <3>1 DEF DownPending, Running
    <3>2. CASE m = Junk
      <4>1. Body(m) = <<>>
        BY <3>2, ConnectionAssumption DEF Body
      <4>2. c \o <<>> = c
        <5> HIDE DEF c
        <5> QED BY <1>6, ConcatEmptySeq
      <4> QED BY <1>3, <4>1, <4>2 DEF DownPending, Running
    <3> QED BY <1>8, <3>1, <3>2
  <2> QED BY <1>4, <1>5, <2>1, DownSame
<1> QED BY <1>7, <1>8

LEMMA DownServer ==
    ASSUME TypeOK, TypeOK', Inv, DownWhole, Server
    PROVE  DownWhole' /\ [Down!Next]_(Down!vars)
<1> USE DEF mainVars, threadVars
<1>1. UNCHANGED <<app, sock, recv_buffer, queue, polled>> /\ Running' = Running
  BY DEF Server, Accept, SendJson, HandleClientReceive, HandleClientLine, HandleClientEnd,
         ServerGoes, Running
<1>2. ASSUME down' = down, (server' = "down") = (server = "down")
      PROVE  DownWhole' /\ [Down!Next]_(Down!vars)
  <2>1. DownStream' = DownStream
    BY <1>1, <1>2 DEF DownStream
  <2> QED BY <1>1, <1>2, <2>1, DownIdle
<1>3. CASE Accept
  <2>1. server # "down" /\ server' # "down"
    BY <1>3 DEF Accept
  <2>2. CASE ClientGone
    BY <1>2, <1>3, <2>1, <2>2 DEF Accept
  <2>3. CASE ~ClientGone
    <3>1. 1 \in 1 .. MaxDown /\ down' = down \o Message(1)
      BY <1>3, <2>3, ConnectionAssumption DEF Accept
    <3> QED BY <1>1, <2>1, <3>1, DownSends
  <2> QED BY <2>2, <2>3
<1>4. CASE SendJson
  <2>1. server # "down" /\ told' \in 1 .. MaxDown
    BY <1>4 DEF SendJson, TypeOK
  <2>2. CASE ~ClientGone
    <3>1. PICK body \in {told', Junk} : down' = down \o Message(body)
      BY <1>4, <2>2 DEF SendJson
    <3>2. server' = server
      BY <1>4, <2>2 DEF SendJson
    <3>3. body \in (1 .. MaxDown) \cup {Junk}
      BY <2>1
    <3> QED BY <1>1, <2>1, <3>1, <3>2, <3>3, DownSends
  <2>3. CASE ClientGone
    <3>1. down' = down /\ ~Running
      BY <1>4, <2>3 DEF SendJson, ClientGone, Alive, Inv, Gone, Running
    <3>2. DownStream' = DownStream
      BY <1>1, <3>1 DEF DownStream
    <3>3. DownWhole'
      BY <2>1, <3>2 DEF DownWhole
    <3>4. UNCHANGED <<DownPending, polled, DownStatus>>
      BY <1>1, <3>1 DEF DownPending, DownStatus
    <3> QED BY <3>3, <3>4, DownSame
  <2> QED BY <2>2, <2>3
<1>5. CASE HandleClientReceive \/ HandleClientLine \/ HandleClientEnd
  <2>1. down' = down /\ (server' = "down") = (server = "down")
    BY <1>5 DEF HandleClientReceive, HandleClientLine, HandleClientEnd
  <2> QED BY <1>2, <2>1
<1>6. CASE ServerGoes
  <2>1. server # "down" /\ server' = "down" /\ down' \in Cutoff(down)
    BY <1>6 DEF ServerGoes
  <2>2. DownStream' = recv_buffer \o down'
    BY <1>1 DEF DownStream
  <2>3. PICK w \in Seq(Nat) :
          /\ Framed(DownStream')
          /\ Complete(DownStream) = Complete(DownStream') \o w
    <3>1. recv_buffer \in Seq(Token) /\ down \in Seq(Token) /\ Framed(recv_buffer \o down)
      BY DownTypes DEF DownWhole, DownStream
    <3>2. /\ Framed(recv_buffer \o down')
          /\ \E w \in Seq(Nat) : Complete(recv_buffer \o down) = Complete(recv_buffer \o down') \o w
      BY <2>1, <3>1, CutFromStream
    <3> QED BY <2>2, <3>2 DEF DownStream
  <2>4. DownWhole'
    BY <2>1, <2>3 DEF DownWhole
  <2>5. CASE ~Running
    <3>1. UNCHANGED <<DownPending, polled, DownStatus>>
      BY <1>1, <2>5 DEF DownPending, DownStatus
    <3> QED BY <2>4, <3>1, DownSame
  <2>6. CASE Running
    <3> DEFINE c == Complete(DownStream')
    <3>1. c \in Seq(Nat) /\ queue \in Seq(Nat)
      <4>1. DownStream' \in Seq(Token)
        BY <1>1, <2>2, ConcatProperties DEF TypeOK
      <4> QED BY <4>1, CompleteType, DownTypes
    <3>2. /\ queue \o (c \o w) = (queue \o c) \o w
          /\ queue \o c \in Seq(Nat)
      <4> HIDE DEF c
      <4> QED BY <3>1, Regroup, SMTT(30)
    <3>3. DownPending = (queue \o c) \o w /\ DownPending' = queue \o c
      BY <1>1, <2>3, <2>6, <3>2 DEF DownPending
    <3>4. Len(DownPending') <= Len(DownPending)
          /\ SubSeq(DownPending', 1, Len(DownPending')) = SubSeq(DownPending, 1, Len(DownPending'))
      <4> HIDE DEF c
      <4> QED BY <2>3, <3>2, <3>3, PrefixOfConcat
    <3>5. DownStatus = "open" /\ DownStatus' = "ended"
      BY <1>1, <2>1, <2>6 DEF DownStatus
    <3>6. Down!End
      BY <1>1, <3>4, <3>5
         DEF Down!End, Down!IsPrefix, DownPending, DownStatus, DownStream, Running
    <3> QED BY <2>4, <3>6 DEF Down!Next
  <2> QED BY <2>5, <2>6
<1> QED BY <1>3, <1>4, <1>5, <1>6 DEF Server
-----------------------------------------------------------------------------
(* The messages to the server.                                               *)

UpStream == recvBuffer \o up
UpPending == Complete(UpStream)
UpStatus == IF server = "down" THEN "cut" ELSE IF ClientGone THEN "ended" ELSE "open"

\* While both ends are there the stream is cut nowhere, and a thread that waits
\* for more has no line left.
UpWhole ==
    /\ Framed(UpStream)
    /\ server # "down" /\ ~ClientGone => Even(Len(UpStream))
    /\ server = "down" => up = <<>> /\ recvBuffer = <<>>
    /\ server \in {"accept", "recv"} => Len(recvBuffer) <= 1

LEMMA UpSame ==
    ASSUME UNCHANGED <<UpPending, handled, UpStatus>>
    PROVE  UNCHANGED Up!vars
BY DEF Up!vars, UpPending, UpStatus, UpStream, ClientGone, Alive, Gone

\* A step that touches neither the stream nor its ends.
LEMMA UpIdle ==
    ASSUME UNCHANGED <<up, recvBuffer, handled, server>>, UpWhole,
           ClientGone' = ClientGone \/ (server = "down" /\ ClientGone')
    PROVE  UpWhole' /\ UNCHANGED Up!vars
<1>1. UpStream' = UpStream /\ UpStatus' = UpStatus
  BY DEF UpStream, UpStatus
<1>2. UpWhole'
  BY <1>1 DEF UpWhole
<1> QED BY <1>1, <1>2, UpSame DEF UpPending

LEMMA UpTypes ==
    ASSUME TypeOK
    PROVE  /\ recvBuffer \in Seq(Token) /\ up \in Seq(Token) /\ handled \in Seq(Nat)
           /\ UpStream \in Seq(Token) /\ UpPending \in Seq(Nat)
<1>1. UpStream \in Seq(Token)
  BY ConcatProperties DEF TypeOK, UpStream
<1> QED BY <1>1, CompleteType DEF TypeOK, UpPending

\* The server goes.
LEMMA UpCut ==
    ASSUME server' = "down", up' = <<>>, recvBuffer' = <<>>, handled' = handled
    PROVE  UpWhole' /\ Up!Cut
<1>1. UpStream' = <<>> /\ <<>> \in Seq(Token) /\ Len(<<>>) = 0
  BY DEF UpStream
<1>2. UpWhole'
  BY <1>1 DEF UpWhole, Framed
<1>3. Complete(UpStream') = <<>>
  BY <1>1, CompleteEmpty
<1> QED BY <1>2, <1>3 DEF Up!Cut, UpStream

\* The client goes; what it sent may be cut.
LEMMA UpEnds ==
    ASSUME TypeOK, TypeOK', UpWhole, up' \in Cutoff(up),
           UNCHANGED <<recvBuffer, handled, server>>, ~ClientGone, ClientGone'
    PROVE  UpWhole' /\ [Up!Next]_(Up!vars)
<1>1. CASE server = "down"
  <2>1. up' = <<>>
    BY <1>1 DEF UpWhole, Cutoff
  <2>2. up' = up
    BY <1>1, <2>1 DEF UpWhole
  <2> QED BY <1>1, <2>2, UpIdle
<1>2. CASE server # "down"
  <2>1. UpStream' = recvBuffer \o up'
    BY DEF UpStream
  <2>2. /\ Framed(UpStream')
        /\ \E w \in Seq(Nat) : UpPending = UpPending' \o w
    <3>1. recvBuffer \in Seq(Token) /\ up \in Seq(Token) /\ Framed(recvBuffer \o up)
      BY UpTypes DEF UpWhole, UpStream
    <3>2. /\ Framed(recvBuffer \o up')
          /\ \E w \in Seq(Nat) : Complete(recvBuffer \o up) = Complete(recvBuffer \o up') \o w
      BY <3>1, CutFromStream
    <3> QED BY <2>1, <3>2 DEF UpStream, UpPending
  <2>3. UpWhole'
    BY <1>2, <2>2 DEF UpWhole
  <2>4. UpPending' \in Seq(Nat)
    <3>1. UpStream' \in Seq(Token)
      BY <2>1, ConcatProperties DEF TypeOK
    <3> QED BY <3>1, CompleteType DEF UpPending
  <2>5. /\ Len(UpPending') <= Len(UpPending)
        /\ SubSeq(UpPending', 1, Len(UpPending')) = SubSeq(UpPending, 1, Len(UpPending'))
    BY <2>2, <2>4, PrefixOfConcat
  <2>6. UpStatus = "open" /\ UpStatus' = "ended"
    BY <1>2 DEF UpStatus
  <2>7. Up!End
    BY <2>5, <2>6
       DEF Up!End, Up!IsPrefix, UpPending, UpStatus, UpStream, ClientGone, Alive, Gone
  <2> QED BY <2>3, <2>7 DEF Up!Next
<1> QED BY <1>1, <1>2

LEMMA UpMain ==
    ASSUME TypeOK, TypeOK', Inv, UpWhole, Main
    PROVE  UpWhole' /\ [Up!Next]_(Up!vars)
<1> USE DEF serverVars, threadVars
<1>1. UNCHANGED <<recvBuffer, handled, server>>
  BY DEF Main, Connect, Send, PollEvent, Quit, Disconnect, Shutdown, Join, Destroy
<1>2. CASE Connect \/ PollEvent \/ Quit \/ Disconnect \/ Join
  <2>1. up' = up /\ ClientGone' = ClientGone
    BY <1>2 DEF Connect, PollEvent, Quit, Disconnect, Join, ClientGone, Alive, Gone, Inv
  <2> QED BY <1>1, <2>1, UpIdle
<1>3. CASE Send
  <2>1. app = "running" /\ ~ClientGone /\ asked' \in 1 .. MaxUp /\ sock' = sock
    BY <1>3 DEF Send, Inv, ClientGone, Alive, Gone, TypeOK
  <2>2. CASE connected /\ server # "down" /\ up' = up \o Message(asked') /\ app' = app
    <3> DEFINE m == asked'
    <3>1. UpStream' = recvBuffer \o (up \o Message(m))
      BY <1>1, <2>2 DEF UpStream
    <3>2. m \in Nat \cup {Junk} /\ m \in 1 .. MaxUp /\ m \in Nat
      BY <2>1, ConnectionAssumption
    <3>3. Framed(UpStream) /\ Even(Len(UpStream))
      BY <2>1, <2>2 DEF UpWhole
    <3>4. recvBuffer \in Seq(Token) /\ up \in Seq(Token) /\ UpPending \in Seq(Nat)
      BY UpTypes
    <3> HIDE DEF m
    <3>5. /\ Framed(UpStream') /\ Even(Len(UpStream'))
          /\ Complete(UpStream') = UpPending \o Body(m)
      <4>1. Framed(recvBuffer \o up) /\ Even(Len(recvBuffer \o up))
        BY <3>3 DEF UpStream
      <4>2. /\ Framed(recvBuffer \o (up \o Message(m)))
            /\ Even(Len(recvBuffer \o (up \o Message(m))))
            /\ Complete(recvBuffer \o (up \o Message(m))) = Complete(recvBuffer \o up) \o Body(m)
        BY <3>2, <3>4, <4>1, AddedToStream
      <4> QED BY <3>1, <4>2 DEF UpStream, UpPending
    <3>6. UpWhole'
      BY <1>1, <2>2, <3>5 DEF UpWhole
    <3>7. UpPending' = Append(UpPending, m)
      <4>1. Body(m) = <<m>>
        BY <3>2 DEF Body
      <4>2. UpPending \o <<m>> = Append(UpPending, m)
        BY <3>2, <3>4, PutLast
      <4> QED BY <3>5, <4>1, <4>2 DEF UpPending
    <3>8. UpStatus = "open" /\ UpStatus' = UpStatus
      <4>1. ClientGone' = ClientGone
        BY <2>1, <2>2 DEF ClientGone, Alive
      <4> QED BY <1>1, <2>1, <2>2, <4>1 DEF UpStatus
    <3>9. Up!Put
      BY <1>1, <3>2, <3>7, <3>8
         DEF Up!Put, UpPending, UpStatus, UpStream, ClientGone, Alive, Gone
    <3> QED BY <3>6, <3>9 DEF Up!Next
  <2>3. CASE /\ ~connected \/ server = "down"
             /\ app' \in {"running"} \cup (IF connected THEN {"killed"} ELSE {})
             /\ UNCHANGED up
    <3>1. ClientGone' = ClientGone \/ (server = "down" /\ ClientGone')
      BY <2>1, <2>3 DEF ClientGone, Alive, Gone
    <3> QED BY <1>1, <2>3, <3>1, UpIdle
  <2> QED BY <1>3, <2>2, <2>3 DEF Send
<1>4. CASE Shutdown
  <2>1. ~ClientGone /\ ClientGone' /\ up' \in Cutoff(up)
    BY <1>4 DEF Shutdown, Inv, ClientGone, Alive, Gone
  <2> QED BY <1>1, <2>1, UpEnds
<1>5. CASE Destroy
  <2>1. up' = up /\ ClientGone'
    BY <1>5 DEF Destroy, ClientGone, Alive, Gone
  <2>2. CASE ClientGone
    BY <1>1, <2>1, <2>2, UpIdle
  <2>3. CASE ~ClientGone
    <3>1. up \in Cutoff(up)
      <4>1. up \in Seq(Token)
        BY UpTypes
      <4>2. Len(up) \in 0 .. Len(up) /\ SubSeq(up, 1, Len(up)) = up
        BY <4>1, LenProperties, SubSeqFull
      <4> QED BY <4>2 DEF Cutoff
    <3> QED BY <1>1, <2>1, <2>3, <3>1, UpEnds
  <2> QED BY <2>2, <2>3
<1> QED BY <1>2, <1>3, <1>4, <1>5 DEF Main

LEMMA UpReceiver ==
    ASSUME UpWhole, Receiver
    PROVE  UpWhole' /\ [Up!Next]_(Up!vars)
<1>1. UNCHANGED <<up, recvBuffer, handled, server>> /\ ClientGone' = ClientGone
  BY DEF Receiver, CheckLoop, Receive, ReceiveEnd, TakeLine, serverVars, mainVars,
         ClientGone, Alive
<1> QED BY <1>1, UpIdle

\* The server handles the first message, or passes over one it does not know.
LEMMA UpLine ==
    ASSUME TypeOK, UpWhole, HandleClientLine, HasLine(recvBuffer), ClientGone' = ClientGone
    PROVE  UpWhole' /\ [Up!Next]_(Up!vars)
<1> DEFINE p == Parsed(Line(recvBuffer))
           s == AfterLine(recvBuffer) \o up
           c == Complete(s)
<1>1. /\ handled' = handled \o p /\ UpStream' = s
      /\ server = "lines" /\ server' = "lines"
  BY DEF HandleClientLine, UpStream
<1>2. recvBuffer \in Seq(Token) /\ up \in Seq(Token) /\ Framed(recvBuffer \o up)
  BY UpTypes DEF UpWhole, UpStream
<1>3. /\ Framed(s)
      /\ Even(Len(UpStream)) => Even(Len(s))
      /\ UpPending = p \o c
      /\ AfterLine(recvBuffer) \in Seq(Token)
      /\ p = <<>> \/ \E m \in Nat : p = <<m>>
  BY <1>2, LineOfStream DEF UpStream, UpPending
<1>4. c \in Seq(Nat)
  <2>1. s \in Seq(Token)
    BY <1>2, <1>3, ConcatProperties
  <2> QED BY <2>1, CompleteType
<1> HIDE DEF p, s
<1>5. UpWhole'
  BY <1>1, <1>3 DEF UpWhole
<1>6. UpStatus' = UpStatus
  BY <1>1 DEF UpStatus
<1>7. UpPending' = c
  BY <1>1 DEF UpPending
<1>8. handled \in Seq(Nat)
  BY UpTypes
<1> HIDE DEF c
<1>9. CASE p = <<>>
  <2>1. handled' = handled /\ UpPending' = UpPending
    BY <1>1, <1>3, <1>4, <1>7, <1>8, <1>9, ConcatEmptySeq
  <2> QED BY <1>5, <1>6, <2>1, UpSame
<1>10. ASSUME NEW m \in Nat, p = <<m>> PROVE Up!Take
  <2>1. p \in Seq(Nat) /\ p # <<>> /\ Head(p) = m /\ Tail(p) = <<>>
    BY <1>10
  <2>2. UpPending # <<>> /\ Head(UpPending) = m /\ Tail(UpPending) = <<>> \o c
    BY <1>3, <1>4, <2>1, TakeFirst
  <2>3. <<>> \o c = c
    BY <1>4, ConcatEmptySeq
  <2>4. handled' = Append(handled, m)
    <3>1. handled \o <<m>> = Append(handled, m)
      BY <1>8, <1>10, PutLast
    <3> QED BY <1>1, <1>10, <3>1
  <2>5. /\ UpPending # <<>> /\ handled' = Append(handled, Head(UpPending))
        /\ UpPending' = Tail(UpPending)
    BY <1>7, <2>2, <2>3, <2>4
  <2> QED BY <1>6, <2>5 DEF Up!Take, UpPending, UpStatus, UpStream, ClientGone, Alive, Gone
<1> QED BY <1>3, <1>5, <1>9, <1>10 DEF Up!Next

LEMMA UpServer ==
    ASSUME TypeOK, UpWhole, Server
    PROVE  UpWhole' /\ [Up!Next]_(Up!vars)
<1>1. ClientGone' = ClientGone
  BY DEF Server, Accept, SendJson, HandleClientReceive, HandleClientLine, HandleClientEnd,
         ServerGoes, mainVars, ClientGone, Alive
<1>2. recvBuffer \in Seq(Token) /\ up \in Seq(Token) /\ Framed(recvBuffer \o up)
  BY UpTypes DEF UpWhole, UpStream
<1>3. CASE Accept
  <2>1. UNCHANGED <<up, recvBuffer, handled>> /\ server = "accept" /\ server' = "recv"
    BY <1>3 DEF Accept
  <2>2. UpStream' = UpStream /\ UpStatus' = UpStatus
    BY <1>1, <2>1 DEF UpStream, UpStatus
  <2>3. UpWhole'
    BY <1>1, <2>1, <2>2 DEF UpWhole
  <2> QED BY <2>1, <2>2, <2>3, UpSame DEF UpPending
<1>4. CASE SendJson
  <2>1. handled' = handled
    BY <1>4 DEF SendJson
  <2>2. CASE UNCHANGED <<server, up, recvBuffer>>
    BY <1>1, <2>1, <2>2, UpIdle
  <2>3. CASE server' = "down" /\ up' = <<>> /\ recvBuffer' = <<>>
    BY <2>1, <2>3, UpCut DEF Up!Next
  <2> QED BY <1>4, <2>2, <2>3 DEF SendJson
<1>5. CASE HandleClientReceive
  <2>1. PICK n \in Chunks(up) :
          /\ recvBuffer' = recvBuffer \o SubSeq(up, 1, n)
          /\ up' = SubSeq(up, n + 1, Len(up))
    BY <1>5 DEF HandleClientReceive
  <2>2. n \in 0 .. Len(up)
    BY <2>1 DEF Chunks
  <2>3. UpStream' = UpStream
    BY <1>2, <2>1, <2>2, Received DEF UpStream
  <2>4. handled' = handled /\ server = "recv" /\ server' = "lines"
    BY <1>5 DEF HandleClientReceive
  <2>5. UpStatus' = UpStatus
    BY <1>1, <2>4 DEF UpStatus
  <2>6. UpWhole'
    BY <1>1, <2>3, <2>4 DEF UpWhole
  <2> QED BY <2>3, <2>4, <2>5, <2>6, UpSame DEF UpPending
<1>6. CASE HandleClientLine /\ HasLine(recvBuffer)
  BY <1>1, <1>6, UpLine
<1>7. CASE HandleClientLine /\ ~HasLine(recvBuffer)
  <2>1. UNCHANGED <<up, recvBuffer, handled>> /\ server = "lines" /\ server' = "recv"
    BY <1>7 DEF HandleClientLine
  <2>2. Len(recvBuffer) <= 1
    BY <1>2, <1>7, NoLine
  <2>3. UpStream' = UpStream /\ UpStatus' = UpStatus
    BY <1>1, <2>1 DEF UpStream, UpStatus
  <2>4. UpWhole'
    BY <1>1, <2>1, <2>2, <2>3 DEF UpWhole
  <2> QED BY <2>1, <2>3, <2>4, UpSame DEF UpPending
<1>8. CASE HandleClientEnd
  <2>1. /\ server = "recv" /\ server' = "closed" /\ ClientGone /\ up = <<>> /\ up' = <<>>
        /\ recvBuffer' = <<>> /\ handled' = handled
    BY <1>8 DEF HandleClientEnd
  <2>2. UpStream = recvBuffer
    BY <1>2, <2>1, ConcatEmptySeq DEF UpStream
  <2>3. UpStream' = <<>> /\ <<>> \in Seq(Token) /\ Len(<<>>) = 0
    BY <2>1 DEF UpStream
  <2>4. UpPending = <<>>
    <3>1. Len(recvBuffer) <= 1
      BY <2>1 DEF UpWhole
    <3> QED BY <1>2, <2>2, <3>1, CompleteShort DEF UpPending
  <2>5. UpPending' = <<>>
    BY <2>3, CompleteEmpty DEF UpPending
  <2>6. UpStatus' = UpStatus
    BY <1>1, <2>1 DEF UpStatus
  <2>7. UpWhole'
    BY <1>1, <2>1, <2>3 DEF UpWhole, Framed
  <2> QED BY <2>1, <2>4, <2>5, <2>6, <2>7, UpSame
<1>9. CASE ServerGoes
  <2>1. server' = "down" /\ up' = <<>> /\ recvBuffer' = <<>> /\ handled' = handled
    BY <1>9 DEF ServerGoes
  <2> QED BY <2>1, UpCut DEF Up!Next
<1> QED BY <1>3, <1>4, <1>5, <1>6, <1>7, <1>8, <1>9 DEF Server

-----------------------------------------------------------------------------
(* Both directions.                                                          *)

LEMMA ChannelsInit == Init => /\ DownWhole /\ Down!Init
                              /\ UpWhole /\ Up!Init
<1> SUFFICES ASSUME Init PROVE DownWhole /\ Down!Init /\ UpWhole /\ Up!Init
  OBVIOUS
<1>1. /\ DownStream = <<>> /\ UpStream = <<>> /\ <<>> \o <<>> = <<>>
      /\ <<>> \in Seq(Token) /\ Len(<<>>) = 0
  BY DEF Init, DownStream, UpStream
<1>2. Complete(<<>>) = <<>>
  BY CompleteEmpty
<1>3. DownWhole /\ UpWhole
  BY <1>1 DEF Init, DownWhole, UpWhole, Framed, Even
<1>4. Down!Init
  BY <1>1, <1>2 DEF Init, Down!Init, Down!Status, DownStream
<1>5. Up!Init
  BY <1>1, <1>2 DEF Init, Up!Init, Up!Status, UpStream, ClientGone, Alive, Gone
<1> QED BY <1>3, <1>4, <1>5

LEMMA ChannelsNext ==
    TypeOK /\ TypeOK' /\ Inv /\ DownWhole /\ UpWhole /\ [Next]_vars =>
        /\ DownWhole' /\ [Down!Next]_(Down!vars)
        /\ UpWhole' /\ [Up!Next]_(Up!vars)
<1> SUFFICES ASSUME TypeOK, TypeOK', Inv, DownWhole, UpWhole, [Next]_vars
             PROVE  /\ DownWhole' /\ [Down!Next]_(Down!vars)
                    /\ UpWhole' /\ [Up!Next]_(Up!vars)
  OBVIOUS
<1>1. CASE Main
  BY <1>1, DownMain, UpMain
<1>2. CASE Receiver
  BY <1>2, DownReceiver, UpReceiver
<1>3. CASE Server
  BY <1>3, DownServer, UpServer
<1>4. CASE UNCHANGED vars
  <2>1. UNCHANGED <<DownStream, queue, polled, up, recvBuffer, handled, server>>
        /\ Running' = Running /\ ClientGone' = ClientGone
    BY <1>4 DEF vars, serverVars, mainVars, threadVars, DownStream, Running, ClientGone, Alive
  <2> QED BY <2>1, DownIdle, UpIdle
<1> QED BY <1>1, <1>2, <1>3, <1>4 DEF Next

\* Both directions are channels: what a side sends the other takes in order,
\* each message once, however recv cuts the streams and whoever goes when.
THEOREM ImplementsChannelsHolds == Spec => ImplementsChannels
<1>1. Init => Inv
  BY DEF Init, Inv, EndsOnOwnTerms, Gone
<1>2. Inv /\ UNCHANGED vars => Inv'
  BY DEF Inv, EndsOnOwnTerms, vars, serverVars, mainVars
<1>3. Inv /\ [Next]_vars => Inv'
  BY <1>2, InvMain, InvReceiver, InvServer DEF Next
<1> QED BY TypeCorrect, ChannelsInit, <1>1, <1>3, ChannelsNext, PTL
        DEF Spec, ImplementsChannels, Down!Spec, Up!Spec
=============================================================================
