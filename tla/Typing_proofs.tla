---------------------------- MODULE Typing_proofs ----------------------------
(***************************************************************************)
(* What is proved about one game, for every set of players, every          *)
(* paragraph and every bound.                                              *)
(***************************************************************************)
EXTENDS Typing, TLAPS, FiniteSetTheorems, SequenceTheorems,
        NaturalsInduction, WellFoundedInduction

LessThan == {p \in Nat \X Nat : p[1] < p[2]}

-----------------------------------------------------------------------------
(* Induction, with the set of the values that satisfy the claim.             *)

LEMMA InductionOnNat ==
    ASSUME NEW N \in SUBSET Nat, 0 \in N, \A n \in N : n + 1 \in N
    PROVE  N = Nat
<1> SUFFICES ASSUME Nat \ N # {} PROVE FALSE
  OBVIOUS
<1>1. IsWellFoundedOn(LessThan, Nat)
  BY NatLessThanWellFounded, Zenon DEF OpToRel, LessThan
<1>2. PICK x \in Nat \ N : \A y \in Nat \ N : <<y, x>> \notin LessThan
  <2>1. Nat \ N \subseteq Nat
    OBVIOUS
  <2> QED BY <1>1, <2>1, WFMin, Zenon
<1>3. x # 0 /\ x - 1 \in Nat
  OBVIOUS
<1>4. <<x - 1, x>> \in LessThan
  <2>1. <<x - 1, x>> \in Nat \X Nat /\ <<x - 1, x>>[1] < <<x - 1, x>>[2]
    BY <1>3
  <2> QED BY <2>1, Zenon DEF LessThan
<1>5. x - 1 \in N
  BY <1>2, <1>3, <1>4
<1>6. (x - 1) + 1 = x
  OBVIOUS
<1> QED BY <1>2, <1>5, <1>6

\* A non-empty sequence is its front and its last element.
LEMMA FrontLast ==
    ASSUME NEW E, NEW s \in Seq(E), s # <<>>
    PROVE  /\ Len(s) \in Nat \ {0}
           /\ Front(s) \in Seq(E)
           /\ Last(s) \in E
           /\ Len(Front(s)) = Len(s) - 1
           /\ \A i \in 1 .. Len(s) - 1 : Front(s)[i] = s[i]
           /\ s = Append(Front(s), Last(s))
<1>1. Len(s) \in Nat \ {0}
  BY EmptySeq
<1>2. \A i \in 1 .. Len(s) : s[i] \in E
  BY ElementOfSeq
<1>3. /\ Front(s) \in Seq(E)
      /\ Len(Front(s)) = Len(s) - 1
      /\ \A i \in 1 .. Len(s) - 1 : Front(s)[i] = s[i]
  <2> DEFINE k == Len(s) - 1
  <2>1. k \in Int /\ \A i \in 1 .. k : s[i] \in E
    BY <1>1, <1>2
  <2>2. /\ SubSeq(s, 1, k) \in Seq(E)
        /\ Len(SubSeq(s, 1, k)) = IF 1 <= k THEN k - 1 + 1 ELSE 0
        /\ \A i \in 1 .. k - 1 + 1 : SubSeq(s, 1, k)[i] = s[1 + i - 1]
    <3> HIDE DEF k
    <3> QED BY <2>1, SubSeqProperties
  <2>3. \A i \in 1 .. k : SubSeq(s, 1, k)[i] = s[i]
    <3> HIDE DEF k
    <3> QED BY <2>1, <2>2
  <2>4. Front(s) = SubSeq(s, 1, k)
    BY DEF Front
  <2>5. Len(SubSeq(s, 1, k)) = Len(s) - 1
    <3>1. Len(SubSeq(s, 1, k)) = IF 1 <= k THEN k - 1 + 1 ELSE 0
      BY <2>2
    <3>2. k = Len(s) - 1 /\ k \in Nat
      BY <1>1
    <3> HIDE DEF k
    <3>3. (IF 1 <= k THEN k - 1 + 1 ELSE 0) = k
      BY <3>2
    <3> QED BY <3>1, <3>2, <3>3, Zenon
  <2> QED BY <2>2, <2>3, <2>4, <2>5, Zenon
<1>4. Last(s) \in E
  BY <1>1, <1>2 DEF Last
<1>5. /\ Append(Front(s), Last(s)) \in Seq(E)
      /\ Len(Append(Front(s), Last(s))) = Len(s)
      /\ \A i \in 1 .. Len(s) - 1 : Append(Front(s), Last(s))[i] = s[i]
      /\ Append(Front(s), Last(s))[Len(s)] = s[Len(s)]
  BY <1>1, <1>3, <1>4, AppendProperties DEF Last
<1>6. \A i \in 1 .. Len(s) : Append(Front(s), Last(s))[i] = s[i]
  BY <1>1, <1>5
<1>7. s = Append(Front(s), Last(s))
  BY <1>5, <1>6, SeqEqual
<1> QED BY <1>1, <1>3, <1>4, <1>7

LEMMA FrontOfAppend ==
    ASSUME NEW E, NEW s \in Seq(E), NEW e \in E
    PROVE  /\ Front(Append(s, e)) = s
           /\ Last(Append(s, e)) = e
           /\ Append(s, e) # <<>>
<1> DEFINE a == Append(s, e)
<1>1. /\ a \in Seq(E) /\ a # <<>> /\ Len(a) = Len(s) + 1 /\ Len(s) \in Nat
      /\ \A i \in 1 .. Len(s) : a[i] = s[i]
      /\ a[Len(s) + 1] = e
  BY AppendProperties, LenProperties
<1> HIDE DEF a
<1>2. /\ Front(a) \in Seq(E) /\ Len(Front(a)) = Len(s)
      /\ \A i \in 1 .. Len(s) : Front(a)[i] = s[i]
  BY <1>1, FrontLast
<1>3. Front(a) = s
  BY <1>1, <1>2, SeqEqual
<1> QED BY <1>1, <1>3 DEF Last, a

LEMMA InductionOnSeq ==
    ASSUME NEW E, NEW T, T \subseteq Seq(E), <<>> \in T,
           \A s \in T, e \in E : Append(s, e) \in T
    PROVE  T = Seq(E)
<1> DEFINE N == {n \in Nat : \A s \in Seq(E) : Len(s) = n => s \in T}
<1>1. 0 \in N
  BY EmptySeq
<1>2. ASSUME NEW n \in N PROVE n + 1 \in N
  <2> SUFFICES ASSUME NEW s \in Seq(E), Len(s) = n + 1 PROVE s \in T
    OBVIOUS
  <2>1. s # <<>>
    BY EmptySeq
  <2>2. Front(s) \in Seq(E) /\ Len(Front(s)) = n /\ Last(s) \in E /\ s = Append(Front(s), Last(s))
    <3>1. Front(s) \in Seq(E) /\ Len(Front(s)) = Len(s) - 1 /\ Last(s) \in E
      BY <2>1, FrontLast
    <3>2. s = Append(Front(s), Last(s))
      BY <2>1, FrontLast
    <3>3. Len(s) - 1 = n
      <4>1. n \in Nat
        OBVIOUS
      <4> HIDE DEF N
      <4> QED BY <4>1
    <3> QED BY <3>1, <3>2, <3>3, Zenon
  <2>3. Front(s) \in T
    BY <2>2
  <2> QED BY <2>2, <2>3
<1> HIDE DEF N
<1>3. N = Nat
  <2>1. N \in SUBSET Nat
    BY DEF N
  <2> QED BY <1>1, <1>2, <2>1, InductionOnNat
<1>4. ASSUME NEW s \in Seq(E) PROVE s \in T
  BY <1>3, LenProperties DEF N
<1> QED BY <1>4

-----------------------------------------------------------------------------
(* Recursion over sequences: a function defined by its value on the empty    *)
(* sequence and on one element more exists.                                  *)

\* t holds the values for the prefixes of s.
Trace(t, base, step, s) ==
    /\ t[0] = base
    /\ \A n \in 1 .. Len(s) : t[n] = step[<<t[n - 1], s[n]>>]

LEMMA TraceExists ==
    ASSUME NEW E, NEW V, NEW base \in V, NEW step \in [V \X E -> V], NEW s \in Seq(E)
    PROVE  \E t \in [0 .. Len(s) -> V] : Trace(t, base, step, s)
<1> DEFINE T == {q \in Seq(E) : \E t \in [0 .. Len(q) -> V] : Trace(t, base, step, q)}
<1>1. <<>> \in T
  <2> DEFINE t == [n \in 0 .. 0 |-> base]
  <2>1. t \in [0 .. Len(<<>>) -> V] /\ Trace(t, base, step, <<>>) /\ <<>> \in Seq(E)
    BY EmptySeq DEF Trace
  <2> QED BY <2>1
<1>2. ASSUME NEW q \in T, NEW e \in E PROVE Append(q, e) \in T
  <2> DEFINE k == Len(q)
             a == Append(q, e)
  <2>1. q \in Seq(E) /\ k \in Nat
    BY LenProperties
  <2>2. PICK t \in [0 .. k -> V] : Trace(t, base, step, q)
    OBVIOUS
  <2>3. a \in Seq(E) /\ Len(a) = k + 1 /\ (\A i \in 1 .. k : a[i] = q[i]) /\ a[k + 1] = e
    BY <2>1, AppendProperties
  <2> DEFINE u == [n \in 0 .. k + 1 |-> IF n = k + 1 THEN step[<<t[k], e>>] ELSE t[n]]
  <2>4. step[<<t[k], e>>] \in V
    <3>1. t[k] \in V
      BY <2>1, <2>2, SMTT(30)
    <3>2. <<t[k], e>> \in V \X E
      BY <3>1
    <3> QED BY <3>2
  <2>5. u \in [0 .. Len(a) -> V]
    <3>1. u \in [0 .. k + 1 -> V]
      BY <2>1, <2>2, <2>4
    <3> QED BY <2>3, <3>1
  <2>6. u[0] = base
    BY <2>1, <2>2 DEF Trace
  <2>7. ASSUME NEW n \in 1 .. Len(a) PROVE u[n] = step[<<u[n - 1], a[n]>>]
    <3>1. CASE n = k + 1
      <4>1. u[n] = step[<<t[k], e>>] /\ u[n - 1] = t[k] /\ a[n] = e
        BY <3>1, <2>1, <2>3
      <4> QED BY <4>1, Zenon
    <3>2. CASE n # k + 1
      <4>1. n \in 1 .. k /\ n - 1 \in 0 .. k
        BY <3>2, <2>1, <2>3
      <4>2. t[n] = step[<<t[n - 1], q[n]>>]
        BY <4>1, <2>2 DEF Trace
      <4>3. u[n] = t[n] /\ u[n - 1] = t[n - 1] /\ a[n] = q[n]
        BY <4>1, <3>2, <2>1, <2>3
      <4> QED BY <4>2, <4>3, Zenon
    <3> QED BY <3>1, <3>2
  <2>8. Trace(u, base, step, a)
    BY <2>6, <2>7 DEF Trace
  <2> QED BY <2>3, <2>5, <2>8
<1> HIDE DEF T
<1>3. T = Seq(E)
  <2>1. T \subseteq Seq(E)
    BY DEF T
  <2> QED BY <1>1, <1>2, <2>1, InductionOnSeq, Zenon
<1>4. s \in T
  BY <1>3
<1> QED BY <1>4 DEF T

LEMMA TraceUnique ==
    ASSUME NEW base, NEW step, NEW s, Len(s) \in Nat,
           NEW t, Trace(t, base, step, s),
           NEW u, Trace(u, base, step, s)
    PROVE  t[Len(s)] = u[Len(s)]
<1> DEFINE N == {n \in Nat : n <= Len(s) => t[n] = u[n]}
<1>1. 0 \in N
  BY DEF Trace
<1>2. ASSUME NEW n \in N PROVE n + 1 \in N
  <2> SUFFICES ASSUME n + 1 <= Len(s) PROVE t[n + 1] = u[n + 1]
    OBVIOUS
  <2>1. n + 1 \in 1 .. Len(s) /\ (n + 1) - 1 = n /\ n <= Len(s)
    OBVIOUS
  <2>2. t[n + 1] = step[<<t[n], s[n + 1]>>] /\ u[n + 1] = step[<<u[n], s[n + 1]>>]
    BY <2>1 DEF Trace
  <2> QED BY <2>1, <2>2
<1> HIDE DEF N
<1>3. N = Nat
  <2>1. N \in SUBSET Nat
    BY DEF N
  <2> QED BY <1>1, <1>2, <2>1, InductionOnNat
<1> QED BY <1>3 DEF N

\* The value of the recursion on s.
RecValue(V, base, step, s) ==
    (CHOOSE t \in [0 .. Len(s) -> V] : Trace(t, base, step, s))[Len(s)]

Recurses(f, E, base, step) ==
    \A s \in Seq(E) :
        f[s] = IF s = <<>> THEN base ELSE step[<<f[Front(s)], Last(s)>>]

LEMMA RecursionOnSeq ==
    ASSUME NEW E, NEW V, NEW base \in V, NEW step \in [V \X E -> V]
    PROVE  \E f \in [Seq(E) -> V] : Recurses(f, E, base, step)
<1> DEFINE f == [s \in Seq(E) |-> RecValue(V, base, step, s)]
<1>1. ASSUME NEW s \in Seq(E), NEW t \in [0 .. Len(s) -> V], Trace(t, base, step, s)
      PROVE  f[s] = t[Len(s)]
  <2> DEFINE u == CHOOSE t1 \in [0 .. Len(s) -> V] : Trace(t1, base, step, s)
  <2>1. Trace(u, base, step, s)
    BY <1>1
  <2>2. f[s] = u[Len(s)]
    BY DEF RecValue
  <2>3. Len(s) \in Nat
    BY LenProperties
  <2> HIDE DEF u, f
  <2> QED BY <1>1, <2>1, <2>2, <2>3, TraceUnique
<1>2. ASSUME NEW s \in Seq(E)
      PROVE  /\ f[s] \in V
             /\ f[s] = IF s = <<>> THEN base ELSE step[<<f[Front(s)], Last(s)>>]
  <2>1. PICK t \in [0 .. Len(s) -> V] : Trace(t, base, step, s)
    BY TraceExists
  <2>2. f[s] = t[Len(s)] /\ Len(s) \in Nat
    BY <1>1, <2>1, LenProperties
  <2>3. CASE s = <<>>
    BY <2>1, <2>2, <2>3, EmptySeq DEF Trace
  <2>4. CASE s # <<>>
    <3> DEFINE r == Front(s)
               k == Len(s)
               u == [n \in 0 .. k - 1 |-> t[n]]
    <3>1. /\ k \in Nat \ {0} /\ r \in Seq(E) /\ Len(r) = k - 1
          /\ \A i \in 1 .. k - 1 : r[i] = s[i]
      BY <2>4, FrontLast
    <3>2. u \in [0 .. Len(r) -> V]
      BY <3>1, <2>1
    <3>3. Trace(u, base, step, r)
      <4>1. u[0] = base
        BY <3>1, <2>1 DEF Trace
      <4>2. ASSUME NEW n \in 1 .. Len(r) PROVE u[n] = step[<<u[n - 1], r[n]>>]
        <5>1. t[n] = step[<<t[n - 1], s[n]>>]
          BY <3>1, <2>1 DEF Trace
        <5>2. u[n] = t[n] /\ u[n - 1] = t[n - 1] /\ r[n] = s[n]
          BY <3>1
        <5> QED BY <5>1, <5>2, Zenon
      <4> QED BY <4>1, <4>2 DEF Trace
    <3>4. f[r] = t[k - 1]
      <4>1. f[r] = u[Len(r)]
        BY <1>1, <3>1, <3>2, <3>3
      <4> QED BY <4>1, <3>1
    <3>5. t[k] = step[<<t[k - 1], s[k]>>]
      BY <3>1, <2>1 DEF Trace
    <3>6. f[s] = step[<<f[Front(s)], Last(s)>>]
      BY <2>2, <3>4, <3>5, Zenon DEF Last
    <3>7. t[Len(s)] \in V
      BY <2>1, <2>2
    <3> QED BY <2>2, <2>4, <3>6, <3>7, Zenon
  <2> QED BY <2>3, <2>4
<1> HIDE DEF f
<1>3. f \in [Seq(E) -> V]
  BY <1>2 DEF f
<1> QED BY <1>2, <1>3 DEF Recurses

-----------------------------------------------------------------------------
(* What the recursive functions of Typing compute.                           *)

\* A word after one more key.
Struck(word, e) ==
    IF e.key # Backspace THEN Append(word, e.key)
    ELSE IF word = <<>> THEN word ELSE Front(word)

LEMMA StruckType ==
    ASSUME NEW word \in Seq(Letters), NEW e \in CharEvent
    PROVE  Struck(word, e) \in Seq(Letters)
<1>1. CASE e.key # Backspace
  BY <1>1, AppendProperties DEF Struck, CharEvent
<1>2. CASE e.key = Backspace
  BY <1>2, FrontLast DEF Struck
<1> QED BY <1>1, <1>2

LEMMA ReplayIs ==
    /\ DOMAIN Replay = Seq(CharEvent)
    /\ \A s \in Seq(CharEvent) :
          Replay[s] = IF s = <<>> THEN <<>> ELSE Struck(Replay[Front(s)], Last(s))
<1> DEFINE step == [x \in Seq(Letters) \X CharEvent |-> Struck(x[1], x[2])]
<1>1. step \in [Seq(Letters) \X CharEvent -> Seq(Letters)]
  BY StruckType
<1>2. <<>> \in Seq(Letters)
  BY EmptySeq
<1>3. \A word \in Seq(Letters), e \in CharEvent : step[<<word, e>>] = Struck(word, e)
  OBVIOUS
<1> HIDE DEF step
<1>4. PICK f \in [Seq(CharEvent) -> Seq(Letters)] : \A s \in Seq(CharEvent) :
          f[s] = IF s = <<>> THEN <<>> ELSE step[<<f[Front(s)], Last(s)>>]
  <2>1. \E f \in [Seq(CharEvent) -> Seq(Letters)] : Recurses(f, CharEvent, <<>>, step)
    BY <1>1, <1>2, RecursionOnSeq, Zenon
  <2> QED BY <2>1, Zenon DEF Recurses
<1> DEFINE Body(g) == [events \in Seq(CharEvent) |->
                          IF events = <<>> THEN <<>>
                          ELSE LET word == g[Front(events)]
                                   key == Last(events).key
                               IN  IF key # Backspace THEN Append(word, key)
                                   ELSE IF word = <<>> THEN word ELSE Front(word)]
<1>5. \A g, s : s \in Seq(CharEvent) =>
          Body(g)[s] = IF s = <<>> THEN <<>> ELSE Struck(g[Front(s)], Last(s))
  BY Zenon DEF Struck
<1>6. f = Body(f)
  <2>1. ASSUME NEW s \in Seq(CharEvent) PROVE f[s] = Body(f)[s]
    <3>1. CASE s = <<>>
      BY <1>4, <1>5, <3>1, Zenon
    <3>2. CASE s # <<>>
      <4>1. Front(s) \in Seq(CharEvent) /\ Last(s) \in CharEvent
        BY <3>2, FrontLast
      <4>2. f[Front(s)] \in Seq(Letters)
        BY <1>4, <4>1
      <4>3. step[<<f[Front(s)], Last(s)>>] = Struck(f[Front(s)], Last(s))
        BY <1>3, <4>1, <4>2
      <4> QED BY <1>4, <1>5, <3>2, <4>3, Zenon
    <3> QED BY <3>1, <3>2
  <2>2. f = [s \in Seq(CharEvent) |-> f[s]]
    BY <1>4
  <2>3. Body(f) = [s \in Seq(CharEvent) |-> Body(f)[s]]
    BY Zenon
  <2> HIDE DEF Body
  <2> QED BY <2>1, <2>2, <2>3, Zenon
<1>7. Replay = CHOOSE g : g = Body(g)
  BY DEF Replay
<1>8. Replay = Body(Replay)
  <2> HIDE DEF Body
  <2> QED BY <1>6, <1>7, Zenon
<1>9. DOMAIN Body(Replay) = Seq(CharEvent)
  BY Zenon
<1> HIDE DEF Body
<1> QED BY <1>5, <1>8, <1>9, Zenon

\* Replay gives a word, and one more event strikes one more key.
LEMMA ReplayType ==
    ASSUME NEW s \in Seq(CharEvent)
    PROVE  Replay[s] \in Seq(Letters)
<1> DEFINE T == {q \in Seq(CharEvent) : Replay[q] \in Seq(Letters)}
<1>1. <<>> \in T
  BY ReplayIs, EmptySeq
<1>2. ASSUME NEW q \in T, NEW e \in CharEvent PROVE Append(q, e) \in T
  <2>1. q \in Seq(CharEvent) /\ Replay[q] \in Seq(Letters)
    OBVIOUS
  <2>2. Append(q, e) \in Seq(CharEvent) /\ Append(q, e) # <<>>
        /\ Front(Append(q, e)) = q /\ Last(Append(q, e)) = e
    BY <2>1, AppendProperties, FrontOfAppend
  <2>3. Replay[Append(q, e)] = Struck(Replay[q], e)
    BY <2>2, ReplayIs, Zenon
  <2> QED BY <2>1, <2>2, <2>3, StruckType
<1> HIDE DEF T
<1>3. T \subseteq Seq(CharEvent)
  BY DEF T
<1>4. T = Seq(CharEvent)
  BY <1>1, <1>2, <1>3, InductionOnSeq, Zenon
<1>5. s \in T
  BY <1>4, Zenon
<1> QED BY <1>5 DEF T

LEMMA ReplayAppend ==
    ASSUME NEW s \in Seq(CharEvent), NEW e \in CharEvent
    PROVE  Replay[Append(s, e)] = Struck(Replay[s], e)
<1>1. Append(s, e) \in Seq(CharEvent) /\ Append(s, e) # <<>>
      /\ Front(Append(s, e)) = s /\ Last(Append(s, e)) = e
  BY AppendProperties, FrontOfAppend
<1> QED BY <1>1, ReplayIs, Zenon

LEMMA SumIs ==
    /\ DOMAIN SumOf = Seq(Nat)
    /\ \A s \in Seq(Nat) :
          SumOf[s] = IF s = <<>> THEN 0 ELSE SumOf[Front(s)] + Last(s)
<1> DEFINE step == [x \in Nat \X Nat |-> x[1] + x[2]]
<1>1. step \in [Nat \X Nat -> Nat]
  OBVIOUS
<1>2. \A m, n \in Nat : step[<<m, n>>] = m + n
  OBVIOUS
<1> HIDE DEF step
<1>3. PICK f \in [Seq(Nat) -> Nat] : \A s \in Seq(Nat) :
          f[s] = IF s = <<>> THEN 0 ELSE step[<<f[Front(s)], Last(s)>>]
  <2>1. 0 \in Nat
    OBVIOUS
  <2>2. \E f \in [Seq(Nat) -> Nat] : Recurses(f, Nat, 0, step)
    BY <1>1, <2>1, RecursionOnSeq, Zenon
  <2> QED BY <2>2, Zenon DEF Recurses
<1> DEFINE Body(g) == [s \in Seq(Nat) |-> IF s = <<>> THEN 0 ELSE g[Front(s)] + Last(s)]
<1>4. f = Body(f)
  <2>1. ASSUME NEW s \in Seq(Nat)
        PROVE  f[s] = IF s = <<>> THEN 0 ELSE f[Front(s)] + Last(s)
    <3>1. CASE s = <<>>
      BY <1>3, <3>1, Zenon
    <3>2. CASE s # <<>>
      <4>1. Front(s) \in Seq(Nat) /\ Last(s) \in Nat
        BY <3>2, FrontLast
      <4>2. f[Front(s)] \in Nat
        BY <1>3, <4>1
      <4>3. step[<<f[Front(s)], Last(s)>>] = f[Front(s)] + Last(s)
        BY <1>2, <4>1, <4>2, Zenon
      <4> QED BY <1>3, <3>2, <4>3, Zenon
    <3> QED BY <3>1, <3>2
  <2>2. f = [s \in Seq(Nat) |-> f[s]]
    BY <1>3
  <2> QED BY <2>1, <2>2, Zenon
<1>5. SumOf = CHOOSE g : g = Body(g)
  BY DEF SumOf
<1>6. SumOf = Body(SumOf)
  <2> HIDE DEF Body
  <2> QED BY <1>4, <1>5, Zenon
<1>7. \A g : DOMAIN Body(g) = Seq(Nat)
  BY Zenon
<1>8. \A g, s : s \in Seq(Nat) => Body(g)[s] = IF s = <<>> THEN 0 ELSE g[Front(s)] + Last(s)
  BY Zenon
<1> HIDE DEF Body
<1> QED BY <1>6, <1>7, <1>8, Zenon

LEMMA SumType ==
    ASSUME NEW s \in Seq(Nat)
    PROVE  SumOf[s] \in Nat
<1> DEFINE T == {q \in Seq(Nat) : SumOf[q] \in Nat}
<1>1. <<>> \in T
  <2>1. <<>> \in Seq(Nat)
    BY EmptySeq
  <2>2. SumOf[<<>>] = 0
    BY <2>1, SumIs, Zenon
  <2> QED BY <2>1, <2>2
<1>2. ASSUME NEW q \in T, NEW n \in Nat PROVE Append(q, n) \in T
  <2>1. q \in Seq(Nat) /\ SumOf[q] \in Nat
    OBVIOUS
  <2>2. Append(q, n) \in Seq(Nat) /\ Append(q, n) # <<>>
        /\ Front(Append(q, n)) = q /\ Last(Append(q, n)) = n
    BY <2>1, AppendProperties, FrontOfAppend, SMTT(30)
  <2>3. SumOf[Append(q, n)] = SumOf[q] + n
    BY <2>2, SumIs, Zenon
  <2>4. SumOf[Append(q, n)] \in Nat
    BY <2>1, <2>3
  <2> QED BY <2>2, <2>4
<1> HIDE DEF T
<1>3. T \subseteq Seq(Nat)
  BY DEF T
<1>4. T = Seq(Nat)
  BY <1>1, <1>2, <1>3, InductionOnSeq, Zenon
<1>5. s \in T
  BY <1>4, Zenon
<1> QED BY <1>5 DEF T

\* The sum of one more number, the numbers being given by their indices.
LEMMA SumStep ==
    ASSUME NEW n \in Nat, NEW g \in [1 .. n + 1 -> Nat]
    PROVE  /\ SumOf[[i \in 1 .. n |-> g[i]]] \in Nat
           /\ SumOf[[i \in 1 .. n + 1 |-> g[i]]] = SumOf[[i \in 1 .. n |-> g[i]]] + g[n + 1]
<1> DEFINE s == [i \in 1 .. n |-> g[i]]
           t == [i \in 1 .. n + 1 |-> g[i]]
<1>1. s \in Seq(Nat) /\ Len(s) = n /\ \A i \in 1 .. n : s[i] = g[i]
  OBVIOUS
<1>2. t \in Seq(Nat) /\ Len(t) = n + 1 /\ \A i \in 1 .. n + 1 : t[i] = g[i]
  OBVIOUS
<1> HIDE DEF s, t
<1>3. t # <<>> /\ Last(t) = g[n + 1]
  BY <1>2, EmptySeq DEF Last
<1>4. Front(t) \in Seq(Nat) /\ Len(Front(t)) = n /\ \A i \in 1 .. n : Front(t)[i] = g[i]
  <2>1. /\ Front(t) \in Seq(Nat) /\ Len(Front(t)) = Len(t) - 1
        /\ \A i \in 1 .. Len(t) - 1 : Front(t)[i] = t[i]
    BY <1>2, <1>3, FrontLast
  <2>2. Len(t) - 1 = n /\ 1 .. n \subseteq 1 .. n + 1
    BY <1>2
  <2> QED BY <1>2, <2>1, <2>2
<1>5. Front(t) = s
  BY <1>1, <1>4, SeqEqual
<1>6. SumOf[t] = SumOf[s] + g[n + 1]
  BY <1>2, <1>3, <1>5, SumIs, Zenon
<1>7. SumOf[s] \in Nat
  BY <1>1, SumType
<1> QED BY <1>6, <1>7, Zenon DEF s, t

\* The letters struck in a sequence of events are counted one by one.
LEMMA LettersOfAppend ==
    ASSUME NEW s \in Seq(CharEvent), NEW e \in CharEvent
    PROVE  /\ LettersIn(s) \in Nat
           /\ LettersIn(<<>>) = 0
           /\ LettersIn(Append(s, e)) = LettersIn(s) + (IF e.key # Backspace THEN 1 ELSE 0)
<1> DEFINE a == Append(s, e)
           C == {i \in DOMAIN s : s[i].key # Backspace}
           D == {i \in DOMAIN a : a[i].key # Backspace}
<1>1. /\ Len(s) \in Nat /\ DOMAIN s = 1 .. Len(s)
      /\ a \in Seq(CharEvent) /\ Len(a) = Len(s) + 1 /\ DOMAIN a = 1 .. Len(s) + 1
      /\ \A i \in 1 .. Len(s) : a[i] = s[i]
      /\ a[Len(s) + 1] = e
  <2>1. /\ a \in Seq(CharEvent) /\ Len(a) = Len(s) + 1
        /\ \A i \in 1 .. Len(s) : a[i] = s[i]
        /\ a[Len(s) + 1] = e
    BY AppendProperties
  <2> HIDE DEF a
  <2>2. DOMAIN a = 1 .. Len(a)
    BY <2>1, LenProperties
  <2> QED BY <2>1, <2>2, LenProperties
<1> HIDE DEF a
<1>2. IsFiniteSet(C) /\ Cardinality(C) \in Nat /\ Len(s) + 1 \notin C
  <2>1. IsFiniteSet(1 .. Len(s))
    BY <1>1, FS_Interval
  <2>2. C \in SUBSET (1 .. Len(s))
    BY <1>1
  <2>3. IsFiniteSet(C)
    BY <2>1, <2>2, FS_Subset
  <2>4. Cardinality(C) \in Nat
    BY <2>3, FS_CardinalityType
  <2> QED BY <2>2, <2>3, <2>4, <1>1
<1>3. D = IF e.key # Backspace THEN C \cup {Len(s) + 1} ELSE C
  BY <1>1
<1>4. Cardinality(C \cup {Len(s) + 1}) = Cardinality(C) + 1
  BY <1>2, FS_AddElement
<1>5. Cardinality(D) = Cardinality(C) + (IF e.key # Backspace THEN 1 ELSE 0)
  <2> HIDE DEF C, D
  <2>1. CASE e.key # Backspace
    BY <2>1, <1>3, <1>4
  <2>2. CASE e.key = Backspace
    BY <2>2, <1>2, <1>3
  <2> QED BY <2>1, <2>2
<1>6. LettersIn(<<>>) = 0
  <2>1. {i \in DOMAIN <<>> : <<>>[i].key # Backspace} = {}
    OBVIOUS
  <2> QED BY <2>1, FS_EmptySet DEF LettersIn
<1> QED BY <1>2, <1>5, <1>6 DEF LettersIn, a

\* A word matches itself in every letter.
LEMMA MatchingIs ==
    ASSUME NEW word \in Seq(Letters), NEW target \in Seq(Letters)
    PROVE  /\ Matching(word, target) \in Nat
           /\ Matching(target, target) = Len(target)
<1>1. Len(target) \in Nat /\ DOMAIN target = 1 .. Len(target)
  BY LenProperties
<1>2. IsFiniteSet(1 .. Len(target)) /\ Cardinality(1 .. Len(target)) = Len(target)
  <2> DEFINE k == Len(target)
  <2>1. k \in Nat
    BY <1>1
  <2> HIDE DEF k
  <2>2. 1 \in Int /\ k \in Int /\ (IF 1 > k THEN 0 ELSE k - 1 + 1) = k
    BY <2>1
  <2>3. IsFiniteSet(1 .. k) /\ Cardinality(1 .. k) = IF 1 > k THEN 0 ELSE k - 1 + 1
    BY <2>2, FS_Interval
  <2>4. Cardinality(1 .. k) = k
    BY <2>2, <2>3
  <2> QED BY <2>3, <2>4 DEF k
<1>3. {i \in DOMAIN word \cap DOMAIN target : word[i] = target[i]} \in SUBSET (1 .. Len(target))
  BY <1>1
<1>4. Matching(word, target) \in Nat
  BY <1>2, <1>3, FS_Subset, FS_CardinalityType DEF Matching
<1>5. {i \in DOMAIN target \cap DOMAIN target : target[i] = target[i]} = 1 .. Len(target)
  BY <1>1
<1> QED BY <1>2, <1>4, <1>5 DEF Matching

Commits == [struck : Nat, time : Nat]

LEMMA WordsType ==
    /\ TotalWords \in Nat \ {0}
    /\ \A w \in 1 .. TotalWords : Words[w] \in Seq(Letters) /\ Words[w] # <<>> /\ Len(Words[w]) \in Nat
<1>1. Words \in Seq(Seq(Letters) \ {<<>>}) /\ Words # <<>>
  BY TypingAssumption
<1>2. TotalWords \in Nat \ {0}
  BY <1>1, EmptySeq DEF TotalWords
<1>3. ASSUME NEW w \in 1 .. TotalWords
      PROVE  Words[w] \in Seq(Letters) /\ Words[w] # <<>> /\ Len(Words[w]) \in Nat
  <2>1. Words[w] \in Seq(Letters) \ {<<>>}
    BY <1>1, ElementOfSeq DEF TotalWords
  <2> QED BY <2>1, LenProperties
<1> QED BY <1>2, <1>3

\* The sums of the first n words and of one word more.
LEMMA SumsStep ==
    ASSUME NEW done \in Seq(Commits), NEW n \in Nat
    PROVE  /\ LettersUpTo(0) = 0
           /\ StruckUpTo(done, 0) = 0
           /\ n < TotalWords => LettersUpTo(n + 1) = LettersUpTo(n) + Len(Words[n + 1])
           /\ n < Len(done) => StruckUpTo(done, n + 1) = StruckUpTo(done, n) + done[n + 1].struck
<1>1. \A g : SumOf[[i \in 1 .. 0 |-> g[i]]] = 0
  <2>1. \A g : [i \in 1 .. 0 |-> g[i]] = <<>>
    OBVIOUS
  <2>2. <<>> \in Seq(Nat)
    BY EmptySeq
  <2> QED BY <2>1, <2>2, SumIs, Zenon
<1>2. LettersUpTo(0) = 0
  <2> DEFINE g == [i \in 1 .. 0 |-> Len(Words[i])]
  <2>1. g = [i \in 1 .. 0 |-> g[i]]
    OBVIOUS
  <2> QED BY <1>1, <2>1, Zenon DEF LettersUpTo
<1>3. StruckUpTo(done, 0) = 0
  <2> DEFINE g == [i \in 1 .. 0 |-> done[i].struck]
  <2>1. g = [i \in 1 .. 0 |-> g[i]]
    OBVIOUS
  <2> QED BY <1>1, <2>1, Zenon DEF StruckUpTo
<1>4. ASSUME n < TotalWords
      PROVE  LettersUpTo(n + 1) = LettersUpTo(n) + Len(Words[n + 1])
  <2> DEFINE g == [i \in 1 .. n + 1 |-> Len(Words[i])]
  <2>1. g \in [1 .. n + 1 -> Nat]
    BY <1>4, WordsType
  <2>2. g[n + 1] = Len(Words[n + 1])
    OBVIOUS
  <2>3. [i \in 1 .. n + 1 |-> g[i]] = g /\ [i \in 1 .. n |-> g[i]] = [i \in 1 .. n |-> Len(Words[i])]
    OBVIOUS
  <2>4. SumOf[[i \in 1 .. n + 1 |-> g[i]]] = SumOf[[i \in 1 .. n |-> g[i]]] + g[n + 1]
    <3> HIDE DEF g
    <3> QED BY <2>1, SumStep
  <2> QED BY <2>2, <2>3, <2>4, Zenon DEF LettersUpTo
<1>5. ASSUME n < Len(done)
      PROVE  StruckUpTo(done, n + 1) = StruckUpTo(done, n) + done[n + 1].struck
  <2> DEFINE g == [i \in 1 .. n + 1 |-> done[i].struck]
  <2>1. g \in [1 .. n + 1 -> Nat]
    <3>1. \A i \in 1 .. n + 1 : i \in 1 .. Len(done)
      BY <1>5, LenProperties
    <3>2. \A i \in 1 .. n + 1 : done[i] \in Commits
      BY <3>1, ElementOfSeq
    <3> QED BY <3>2 DEF Commits
  <2>2. g[n + 1] = done[n + 1].struck
    OBVIOUS
  <2>3. [i \in 1 .. n + 1 |-> g[i]] = g /\ [i \in 1 .. n |-> g[i]] = [i \in 1 .. n |-> done[i].struck]
    OBVIOUS
  <2>4. SumOf[[i \in 1 .. n + 1 |-> g[i]]] = SumOf[[i \in 1 .. n |-> g[i]]] + g[n + 1]
    <3> HIDE DEF g
    <3> QED BY <2>1, SumStep
  <2> QED BY <2>2, <2>3, <2>4, Zenon DEF StruckUpTo
<1> QED BY <1>2, <1>3, <1>4, <1>5

\* One more word completed leaves the sums of those before.
LEMMA StruckOfAppend ==
    ASSUME NEW done \in Seq(Commits), NEW c \in Commits, NEW n \in 0 .. Len(done)
    PROVE  StruckUpTo(Append(done, c), n) = StruckUpTo(done, n)
<1>1. \A i \in 1 .. n : Append(done, c)[i] = done[i]
  BY AppendProperties, LenProperties
<1>2. [i \in 1 .. n |-> Append(done, c)[i].struck] = [i \in 1 .. n |-> done[i].struck]
  BY <1>1, Zenon
<1> QED BY <1>2, Zenon DEF StruckUpTo

-----------------------------------------------------------------------------
(* The inductive invariant.                                                  *)

\* A thread that has scored a late word is on its way to end the game.
LateInv(p) ==
    /\ late[p] <= 1
    /\ late[p] = 1 => \/ ~started
                      \/ handler[p].at \in {"rank", "end"}
                      \/ handler[p].at = "check" /\ TimeOver
    /\ handler[p].at = "score" => late[p] = 0

\* An entry has the time of the last of its words.
Fits(e, done) ==
    e.whole /\ e.word > 0 =>
        e.word <= Len(done) /\ e.latest = StartTime + done[e.word].time

\* Entries made, and those announced, fit; the announced ones are in order.
Announced ==
    /\ \A p \in Players : /\ IsFiniteSet(handler[p].entries)
                          /\ \A e \in handler[p].entries : Fits(e, committed[e.player])
    /\ \A i \in DOMAIN rankings : Fits(rankings[i], committed[rankings[i].player])
    /\ \A i, j \in DOMAIN rankings : i < j => ~Ahead(rankings[j], rankings[i])

\* What is on the screen is what its events play back to, and the last of them
\* carries the time of the last key.
Keyboard(s, h, now) ==
    /\ s.opened <= now
    /\ s.at # "open" => s.input = <<>> /\ s.events = <<>>
    /\ Replay[s.events] = s.input
    /\ s.at # "closed" => LettersIn(s.events) = h.struck
    /\ s.events # <<>> =>
          /\ s.opened <= h.last
          /\ Last(s.events).time = StartTime + (h.last - s.opened)

\* Before game_init there is nothing.
Blank(m, pending) == pending = <<>> /\ m = NoMetrics
Before(s, m, pending, done) == s.at = "unopened" => done = <<>> /\ Blank(m, pending)

\* The metrics are those of the words completed first.
Scored(m, done) ==
    /\ m.word <= Len(done)
    /\ m.correct = LettersUpTo(m.word)
    /\ m.total = StruckUpTo(done, m.word)
    /\ m.word > 0 => m.latest = StartTime + done[m.word].time

\* A message that carries the w-th of the words completed.
Carries(msg, done, w) ==
    /\ msg.word + 1 = w
    /\ Replay[msg.events] = Words[w]
    /\ LettersIn(msg.events) = done[w].struck
    /\ Last(msg.events).time = StartTime + done[w].time

\* Every word completed is scored or under way, in order, unless its player
\* has left.
UnderWay(s, m, pending, done) ==
    /\ s.at = "open" => s.word = Len(done)
    /\ \/ s.at = "closed" /\ Blank(m, pending)
       \/ m.word + Len(pending) = Len(done)
    /\ \A k \in 1 .. Len(pending) : Carries(pending[k], done, m.word + k)

\* Who has no seat has left the game.
Absent(s, m, pending) == s.at = "closed" /\ Blank(m, pending)

\* The message in the hands of the thread of p was taken while the game ran.
Scoring(p) == handler[p].at = "score"

PlayerInv(p) ==
    /\ Keyboard(screen[p], hand[p], clock)
    /\ Before(screen[p], metrics[p], inputs[p], committed[p])
    /\ Scored(metrics[p], committed[p])
    /\ started \/ Scoring(p) => UnderWay(screen[p], metrics[p], inputs[p], committed[p])
    /\ Scoring(p) => inputs[p] # <<>>
    /\ started /\ p \notin seated => Absent(screen[p], metrics[p], inputs[p])

Inv == TypeOK /\ Announced /\ \A p \in Players : PlayerInv(p) /\ LateInv(p)

LEMMA InitInv == Init => Inv
<1> SUFFICES ASSUME Init PROVE Inv
  OBVIOUS
<1>1. TypeOK
  <2>1. /\ clock \in StartTime .. MaxTime
        /\ started \in BOOLEAN
        /\ seated \subseteq Players
        /\ late \in [Players -> Nat]
        /\ joins \in 0 .. MaxJoins
        /\ rankings \in Seq(RankingEntries)
    BY TypingAssumption, EmptySeq DEF Init, StartTime
  <2>2. NoMetrics \in Metrics
    BY WordsType DEF NoMetrics, Metrics
  <2>3. Unopened \in Screens
    <3>1. Unopened = [at |-> "unopened", opened |-> 0, word |-> 0, input |-> <<>>, events |-> <<>>]
      BY DEF Unopened, NewScreen
    <3> QED BY <3>1, WordsType, EmptySeq DEF Screens
  <2>4. NoKeys \in [keys : 0 .. MaxKeys, struck : Nat, last : Nat]
    BY TypingAssumption DEF NoKeys
  <2>5. <<>> \in Seq(InputMessages) /\ <<>> \in Seq([struck : Nat, time : Nat])
    BY EmptySeq
  <2>6. Idle \in Handlers
    BY DEF Idle, Handlers
  <2> QED BY <2>1, <2>2, <2>3, <2>4, <2>5, <2>6, Zenon DEF Init, TypeOK
<1>2. Announced /\ \A p \in Players : LateInv(p)
  <2>1. rankings = <<>> /\ \A p \in Players : handler[p] = Idle /\ late[p] = 0
    BY DEF Init
  <2>2. Idle.entries = {} /\ Idle.at = "idle" /\ DOMAIN <<>> = {}
    BY DEF Idle
  <2>3. Announced
    BY <2>1, <2>2, FS_EmptySet DEF Announced
  <2> QED BY <2>1, <2>2, <2>3 DEF LateInv
<1>3. ASSUME NEW p \in Players PROVE PlayerInv(p)
  <2>1. /\ screen[p] = Unopened
        /\ hand[p] = NoKeys
        /\ metrics[p] = NoMetrics
        /\ inputs[p] = <<>>
        /\ committed[p] = <<>>
        /\ clock = 1
        /\ p \in seated
        /\ ~Scoring(p)
    BY DEF Init, StartTime, Idle, Scoring
  <2>2. /\ Unopened.at = "unopened" /\ Unopened.opened = 0 /\ Unopened.word = 0
        /\ Unopened.input = <<>> /\ Unopened.events = <<>>
    BY DEF Unopened, NewScreen
  <2>3. Replay[<<>>] = <<>>
    BY ReplayIs, EmptySeq
  <2>4. LettersIn(<<>>) = 0 /\ LettersUpTo(0) = 0 /\ StruckUpTo(<<>>, 0) = 0
    <3>1. CharEvent # {}
      <4>1. [key |-> Backspace, time |-> 0] \in CharEvent
        BY DEF CharEvent
      <4> QED BY <4>1
    <3>2. LettersIn(<<>>) = 0
      BY <3>1, EmptySeq, LettersOfAppend
    <3> QED BY <3>2, EmptySeq, SumsStep
  <2>5. Keyboard(screen[p], hand[p], clock)
    BY <2>1, <2>2, <2>3, <2>4 DEF Keyboard, NoKeys
  <2>6. Before(screen[p], metrics[p], inputs[p], committed[p])
    BY <2>1 DEF Before, Blank
  <2>7. Scored(metrics[p], committed[p])
    BY <2>1, <2>4, EmptySeq DEF Scored, NoMetrics
  <2>8. UnderWay(screen[p], metrics[p], inputs[p], committed[p])
    BY <2>1, <2>2, EmptySeq DEF UnderWay, NoMetrics
  <2> QED BY <2>1, <2>5, <2>6, <2>7, <2>8 DEF PlayerInv
<1> QED BY <1>1, <1>2, <1>3 DEF Inv

\* A player whom a step does not touch.
LEMMA Elsewhere ==
    ASSUME TypeOK, NEW q \in Players, PlayerInv(q),
           screen'[q] = screen[q], hand'[q] = hand[q], metrics'[q] = metrics[q],
           inputs'[q] = inputs[q], committed'[q] = committed[q],
           clock' \in Nat, clock <= clock', started' => started,
           Scoring(q)' => (started \/ Scoring(q)) /\ inputs[q] # <<>>,
           q \in seated <=> q \in seated'
    PROVE  PlayerInv(q)'
<1>1. screen[q].opened \in Nat /\ clock \in Nat
  BY DEF TypeOK, Screens, StartTime
<1>2. Keyboard(screen[q], hand[q], clock')
  BY <1>1 DEF PlayerInv, Keyboard
<1>3. Keyboard(screen'[q], hand'[q], clock')
  BY <1>2
<1>4. Before(screen'[q], metrics'[q], inputs'[q], committed'[q])
  BY DEF PlayerInv
<1>5. Scored(metrics'[q], committed'[q])
  BY DEF PlayerInv
<1>6. /\ started' \/ Scoring(q)' => UnderWay(screen'[q], metrics'[q], inputs'[q], committed'[q])
      /\ Scoring(q)' => inputs'[q] # <<>>
  BY DEF PlayerInv
<1>7. started' /\ q \notin seated' => Absent(screen'[q], metrics'[q], inputs'[q])
  BY DEF PlayerInv
<1> QED BY <1>3, <1>4, <1>5, <1>6, <1>7 DEF PlayerInv

LEMMA LateElsewhere ==
    ASSUME TypeOK, NEW q \in Players, LateInv(q),
           late'[q] = late[q], handler'[q] = handler[q],
           clock' \in Nat, clock <= clock', started' => started
    PROVE  LateInv(q)'
<1>1. clock \in Nat /\ StartTime \in Nat /\ Duration \in Nat
  BY TypingAssumption DEF TypeOK, StartTime
<1>2. \A c, d, n \in Nat : c <= d /\ c - 1 >= n => d - 1 >= n
  OBVIOUS
<1>3. TimeOver => TimeOver'
  BY <1>1, <1>2 DEF TimeOver, StartTime
<1> QED BY <1>3 DEF LateInv

\* Words completed stay as they are.
Grown(done, more) == \A w \in 1 .. Len(done) : w <= Len(more) /\ more[w] = done[w]

LEMMA FitsStill ==
    ASSUME NEW e \in RankingEntries, NEW done, Len(done) \in Nat, NEW more,
           Grown(done, more), Fits(e, done)
    PROVE  Fits(e, more)
<1>1. e.whole /\ e.word > 0 => e.word \in 1 .. Len(done)
  BY DEF RankingEntries, Fits
<1> QED BY <1>1 DEF Fits, Grown

LEMMA AnnouncedStill ==
    ASSUME TypeOK, Announced, UNCHANGED <<handler, rankings>>,
           \A q \in Players : Grown(committed[q], committed'[q])
    PROVE  Announced'
<1>1. ASSUME NEW e \in RankingEntries, Fits(e, committed[e.player])
      PROVE  Fits(e, committed'[e.player])
  <2>1. e.player \in Players
    BY DEF RankingEntries
  <2>2. Len(committed[e.player]) \in Nat
    BY <2>1, LenProperties DEF TypeOK
  <2> QED BY <1>1, <2>1, <2>2, FitsStill
<1>2. \A q \in Players : handler[q].entries \subseteq RankingEntries
  BY DEF TypeOK, Handlers
<1>3. \A i \in DOMAIN rankings : rankings[i] \in RankingEntries
  <2>1. rankings \in Seq(RankingEntries)
    BY DEF TypeOK
  <2> QED BY <2>1, ElementOfSeq, LenProperties
<1>4. \A q \in Players : \A e \in handler[q].entries : Fits(e, committed'[e.player])
  BY <1>1, <1>2 DEF Announced
<1>5. \A i \in DOMAIN rankings : Fits(rankings[i], committed'[rankings[i].player])
  BY <1>1, <1>3 DEF Announced
<1> QED BY <1>4, <1>5 DEF Announced

\* What the invariant says of the values of one player.
LEMMA PlayerTypes ==
    ASSUME TypeOK, NEW p \in Players
    PROVE  /\ clock \in Nat \ {0} /\ clock <= MaxTime /\ MaxTime \in Nat
           /\ screen[p] \in Screens
           /\ metrics[p] \in Metrics
           /\ inputs[p] \in Seq(InputMessages)
           /\ hand[p] \in [keys : 0 .. MaxKeys, struck : Nat, last : Nat]
           /\ committed[p] \in Seq(Commits)
           /\ handler[p] \in Handlers
           /\ late[p] \in Nat
           /\ Len(inputs[p]) \in Nat
           /\ Len(committed[p]) \in Nat
<1>1. /\ clock \in Nat \ {0} /\ clock <= MaxTime /\ MaxTime \in Nat
  BY TypingAssumption DEF TypeOK, StartTime
<1>2. /\ screen[p] \in Screens
      /\ metrics[p] \in Metrics
      /\ inputs[p] \in Seq(InputMessages)
      /\ hand[p] \in [keys : 0 .. MaxKeys, struck : Nat, last : Nat]
      /\ committed[p] \in Seq(Commits)
      /\ handler[p] \in Handlers /\ late[p] \in Nat
  BY Zenon DEF TypeOK, Commits
<1> QED BY <1>1, <1>2, LenProperties
\* A step at the screen of p, which becomes s.
Touches(p, s) ==
    /\ screen' = [screen EXCEPT ![p] = s]
    /\ UNCHANGED <<clock, roomVars>>

\* What is left to show of a step at the screen of p: what holds of p after it.
LEMMA ScreenStep ==
    ASSUME Inv, started, NEW p \in Players, NEW s \in Screens, Touches(p, s),
           inputs' \in [Players -> Seq(InputMessages)],
           hand' \in [Players -> [keys : 0 .. MaxKeys, struck : Nat, last : Nat]],
           committed' \in [Players -> Seq(Commits)],
           \A q \in Players \ {p} : /\ inputs'[q] = inputs[q]
                                    /\ hand'[q] = hand[q]
                                    /\ committed'[q] = committed[q],
           Grown(committed[p], committed'[p]),
           inputs[p] # <<>> => inputs'[p] # <<>>,
           Keyboard(s, hand'[p], clock),
           Before(s, metrics[p], inputs'[p], committed'[p]),
           Scored(metrics[p], committed'[p]),
           started => UnderWay(s, metrics[p], inputs'[p], committed'[p]),
           started /\ p \notin seated => Absent(s, metrics[p], inputs'[p])
    PROVE  Inv'
<1>1. screen' \in [Players -> Screens] /\ screen'[p] = s
      /\ \A q \in Players \ {p} : screen'[q] = screen[q]
  BY DEF Inv, TypeOK, Touches
<1>2. UNCHANGED <<clock, started, seated, metrics, handler, rankings, late, joins>>
  BY DEF Touches, roomVars
<1>3. TypeOK'
  BY <1>1, <1>2 DEF Inv, TypeOK, Commits
<1>4. Announced'
  <2>1. ASSUME NEW q \in Players PROVE Grown(committed[q], committed'[q])
    <3>1. Len(committed[q]) \in Nat
      BY PlayerTypes DEF Inv
    <3>2. CASE q = p
      BY <3>2
    <3>3. CASE q # p
      BY <3>1, <3>3 DEF Grown
    <3> QED BY <3>2, <3>3
  <2> QED BY <1>2, <2>1, AnnouncedStill DEF Inv
<1>6. ASSUME NEW q \in Players PROVE LateInv(q)'
  <2>1. TypeOK /\ LateInv(q) /\ clock \in Nat
    BY PlayerTypes DEF Inv
  <2> QED BY <1>2, <2>1, LateElsewhere
<1>5. ASSUME NEW q \in Players PROVE PlayerInv(q)'
  <2>1. CASE q = p
    <3>1. Scoring(p)' => inputs'[p] # <<>>
      BY <1>2 DEF Inv, PlayerInv, Scoring
    <3> QED BY <2>1, <3>1, <1>1, <1>2 DEF PlayerInv
  <2>2. CASE q # p
    <3>1. PlayerInv(q) /\ TypeOK
      BY DEF Inv
    <3>2. clock' \in Nat /\ clock <= clock'
      BY <1>2, <3>1, PlayerTypes
    <3>3. /\ screen'[q] = screen[q] /\ hand'[q] = hand[q] /\ metrics'[q] = metrics[q]
          /\ inputs'[q] = inputs[q] /\ committed'[q] = committed[q]
      BY <1>1, <1>2, <2>2
    <3>4. Scoring(q)' => Scoring(q) /\ inputs[q] # <<>>
      BY <1>2, <3>1 DEF Scoring, PlayerInv
    <3> QED BY <1>2, <3>1, <3>2, <3>3, <3>4, Elsewhere
  <2> QED BY <2>1, <2>2
<1> QED BY <1>3, <1>4, <1>5, <1>6 DEF Inv

\* The invariant of p and the types of its values.
LEMMA InvOf ==
    ASSUME Inv, NEW p \in Players
    PROVE  /\ TypeOK
           /\ Keyboard(screen[p], hand[p], clock)
           /\ Before(screen[p], metrics[p], inputs[p], committed[p])
           /\ Scored(metrics[p], committed[p])
           /\ started \/ Scoring(p) => UnderWay(screen[p], metrics[p], inputs[p], committed[p])
           /\ Scoring(p) => inputs[p] # <<>>
           /\ started /\ p \notin seated => Absent(screen[p], metrics[p], inputs[p])
           /\ LateInv(p)
BY DEF Inv, PlayerInv

LEMMA SameCommits ==
    ASSUME Inv, NEW p \in Players, UNCHANGED committed
    PROVE  Grown(committed[p], committed'[p])
<1>1. Len(committed[p]) \in Nat
  BY PlayerTypes DEF Inv
<1> QED BY <1>1 DEF Grown

LEMMA NoLetters == LettersIn(<<>>) = 0 /\ Replay[<<>>] = <<>>
<1>1. [key |-> Backspace, time |-> 0] \in CharEvent
  BY DEF CharEvent
<1> QED BY <1>1, EmptySeq, LettersOfAppend, ReplayIs

LEMMA OnEnterInv ==
    ASSUME Inv, started, NEW p \in Players, OnEnter(p)
    PROVE  Inv'
<1> DEFINE s == NewScreen(clock)
<1>1. /\ s.at = "open" /\ s.opened = clock /\ s.word = 0 /\ s.input = <<>> /\ s.events = <<>>
      /\ screen[p].at = "unopened" /\ TypeOK
  BY DEF NewScreen, OnEnter, Inv
<1>2. s \in Screens
  BY <1>1, PlayerTypes, WordsType, EmptySeq DEF Screens, NewScreen
<1>3. Touches(p, s) /\ UNCHANGED <<inputs, hand, committed>>
  BY DEF OnEnter, Touches
<1> HIDE DEF s
<1>4. hand[p].struck = 0 /\ committed[p] = <<>> /\ Blank(metrics[p], inputs[p])
  <2>1. screen[p].events = <<>> /\ LettersIn(screen[p].events) = hand[p].struck
    BY <1>1, InvOf DEF Keyboard
  <2> QED BY <1>1, <2>1, InvOf, NoLetters DEF Before
<1>5. Keyboard(s, hand'[p], clock)
  BY <1>1, <1>3, <1>4, PlayerTypes, NoLetters DEF Keyboard
<1>6. Before(s, metrics[p], inputs'[p], committed'[p])
  BY <1>1 DEF Before
<1>7. Scored(metrics[p], committed'[p])
  BY <1>3, InvOf
<1>8. started => UnderWay(s, metrics[p], inputs'[p], committed'[p])
  BY <1>1, <1>3, <1>4, EmptySeq DEF UnderWay, Blank, NoMetrics
<1>9. started /\ p \notin seated => Absent(s, metrics[p], inputs'[p])
  BY <1>1, InvOf DEF Absent
<1>10. /\ inputs' \in [Players -> Seq(InputMessages)]
       /\ hand' \in [Players -> [keys : 0 .. MaxKeys, struck : Nat, last : Nat]]
       /\ committed' \in [Players -> Seq(Commits)]
  BY <1>1, <1>3 DEF TypeOK, Commits
<1>11. Grown(committed[p], committed'[p]) /\ inputs'[p] = inputs[p]
  BY <1>3, SameCommits
<1> QED BY <1>2, <1>3, <1>5, <1>6, <1>7, <1>8, <1>9, <1>10, <1>11, ScreenStep

\* One more key: an event is recorded and the input follows it.
LEMMA StrikeInv ==
    ASSUME Inv, started, NEW p \in Players, OnScreen(p), NEW e \in CharEvent, e.time = EventTime(p),
           hand[p].keys < MaxKeys,
           NEW n \in Nat, n = (IF e.key # Backspace THEN 1 ELSE 0),
           Touches(p, [screen[p] EXCEPT !.input = Struck(screen[p].input, e),
                                        !.events = Append(screen[p].events, e)]),
           hand' = [hand EXCEPT ![p] = [keys |-> hand[p].keys + 1,
                                        struck |-> hand[p].struck + n, last |-> clock]],
           UNCHANGED <<inputs, committed>>
    PROVE  Inv'
<1> DEFINE s == [screen[p] EXCEPT !.input = Struck(screen[p].input, e),
                                  !.events = Append(screen[p].events, e)]
           h == [keys |-> hand[p].keys + 1, struck |-> hand[p].struck + n, last |-> clock]
<1>1. /\ TypeOK /\ screen[p] \in Screens /\ screen[p].at = "open"
      /\ clock \in Nat /\ hand[p] \in [keys : 0 .. MaxKeys, struck : Nat, last : Nat]
  BY InvOf, PlayerTypes DEF OnScreen
<1>2. /\ screen[p].opened \in Nat /\ screen[p].word \in 0 .. TotalWords
      /\ screen[p].input \in Seq(Letters) /\ screen[p].events \in Seq(CharEvent)
  BY <1>1 DEF Screens
<1>3. /\ Struck(screen[p].input, e) \in Seq(Letters)
      /\ Append(screen[p].events, e) \in Seq(CharEvent)
      /\ Append(screen[p].events, e) # <<>>
      /\ Last(Append(screen[p].events, e)) = e
      /\ Replay[Append(screen[p].events, e)] = Struck(Replay[screen[p].events], e)
      /\ LettersIn(Append(screen[p].events, e)) = LettersIn(screen[p].events) + n
  <2> DEFINE ev == screen[p].events
  <2>1. ev \in Seq(CharEvent)
    BY <1>2
  <2> HIDE DEF ev
  <2>2. Struck(screen[p].input, e) \in Seq(Letters)
    BY <1>2, StruckType
  <2>3. Append(ev, e) \in Seq(CharEvent) /\ Append(ev, e) # <<>> /\ Last(Append(ev, e)) = e
    BY <2>1, AppendProperties, FrontOfAppend
  <2>4. Replay[Append(ev, e)] = Struck(Replay[ev], e)
    BY <2>1, ReplayAppend
  <2>5. LettersIn(Append(ev, e)) = LettersIn(ev) + n
    BY <2>1, LettersOfAppend
  <2> QED BY <2>2, <2>3, <2>4, <2>5 DEF ev
<1>4. /\ s.at = "open" /\ s.opened = screen[p].opened /\ s.word = screen[p].word
      /\ s.input = Struck(screen[p].input, e) /\ s.events = Append(screen[p].events, e)
      /\ s \in Screens
  BY <1>1, <1>2, <1>3 DEF Screens
<1>5. h \in [keys : 0 .. MaxKeys, struck : Nat, last : Nat]
      /\ h.struck = hand[p].struck + n /\ h.last = clock
  <2>1. hand[p].keys \in 0 .. MaxKeys /\ hand[p].struck \in Nat /\ MaxKeys \in Nat
    BY <1>1, TypingAssumption
  <2>2. hand[p].keys + 1 \in 0 .. MaxKeys /\ hand[p].struck + n \in Nat
    BY <2>1
  <2>3. h \in [keys : 0 .. MaxKeys, struck : Nat, last : Nat]
    BY <1>1, <2>2, Zenon
  <2> QED BY <2>3, Zenon
<1>6. hand'[p] = h /\ hand' \in [Players -> [keys : 0 .. MaxKeys, struck : Nat, last : Nat]]
      /\ \A q \in Players \ {p} : hand'[q] = hand[q]
  <2> HIDE DEF h
  <2>1. hand' = [hand EXCEPT ![p] = h]
    BY DEF h
  <2> QED BY <1>1, <1>5, <2>1 DEF TypeOK
<1>7. Touches(p, s)
  OBVIOUS
<1> HIDE DEF s, h
<1>8. Keyboard(s, hand'[p], clock)
  <2>1. /\ screen[p].opened <= clock
        /\ Replay[screen[p].events] = screen[p].input
        /\ LettersIn(screen[p].events) = hand[p].struck
    BY <1>1, InvOf DEF Keyboard
  <2>2. e.time = StartTime + (clock - screen[p].opened)
    BY DEF EventTime
  <2> QED BY <1>3, <1>4, <1>5, <1>6, <2>1, <2>2 DEF Keyboard
<1>9. Before(s, metrics[p], inputs'[p], committed'[p])
  BY <1>4 DEF Before
<1>10. Scored(metrics[p], committed'[p])
  BY InvOf
<1>11. started => UnderWay(s, metrics[p], inputs'[p], committed'[p])
  <2>1. started => UnderWay(screen[p], metrics[p], inputs[p], committed[p])
    BY InvOf
  <2> QED BY <1>1, <1>4, <2>1 DEF UnderWay
<1>12. started /\ p \notin seated => Absent(s, metrics[p], inputs'[p])
  BY <1>1, InvOf DEF Absent
<1>13. inputs' \in [Players -> Seq(InputMessages)] /\ committed' \in [Players -> Seq(Commits)]
  BY <1>1 DEF TypeOK, Commits
<1>14. \A q \in Players \ {p} : inputs'[q] = inputs[q] /\ committed'[q] = committed[q]
  OBVIOUS
<1>15. Grown(committed[p], committed'[p]) /\ inputs'[p] = inputs[p]
  BY SameCommits
<1> QED BY <1>4, <1>6, <1>7, <1>8, <1>9, <1>10, <1>11, <1>12, <1>13, <1>14, <1>15, ScreenStep
LEMMA EventTimeType ==
    ASSUME Inv, NEW p \in Players
    PROVE  EventTime(p) \in Nat
<1>1. screen[p].opened <= clock /\ screen[p] \in Screens /\ clock \in Nat
  BY InvOf, PlayerTypes DEF Keyboard
<1> QED BY <1>1 DEF EventTime, Screens, StartTime

LEMMA TypeInv ==
    ASSUME Inv, started, NEW p \in Players, Type(p)
    PROVE  Inv'
<1>1. PICK ch \in Letters :
          screen' = [screen EXCEPT ![p].input = Append(@, ch),
                                   ![p].events = Append(@, Char(ch, EventTime(p)))]
  BY DEF Type
<1> DEFINE e == Char(ch, EventTime(p))
<1>2. e \in CharEvent /\ e.time = EventTime(p) /\ e.key = ch
  BY EventTimeType DEF Char, CharEvent
<1>3. e.key # Backspace
  BY <1>2, TypingAssumption
<1>4. TypeOK /\ screen[p] \in Screens
  BY InvOf, PlayerTypes
<1> HIDE DEF e
<1>5. Struck(screen[p].input, e) = Append(screen[p].input, ch)
  BY <1>2, <1>3 DEF Struck
<1>6. screen' = [screen EXCEPT ![p] = [screen[p] EXCEPT !.input = Append(screen[p].input, ch),
                                                        !.events = Append(screen[p].events, e)]]
  BY <1>1, <1>4 DEF TypeOK, Screens, e
<1>7. Touches(p, [screen[p] EXCEPT !.input = Struck(screen[p].input, e),
                                   !.events = Append(screen[p].events, e)])
  BY <1>5, <1>6 DEF Touches, Type
<1>8. hand' = [hand EXCEPT ![p] = [keys |-> hand[p].keys + 1,
                                   struck |-> hand[p].struck + 1, last |-> clock]]
  BY DEF Type
<1>9. OnScreen(p) /\ hand[p].keys < MaxKeys /\ UNCHANGED <<inputs, committed>>
  BY DEF Type
<1> QED BY <1>2, <1>3, <1>7, <1>8, <1>9, StrikeInv

LEMMA EraseInv ==
    ASSUME Inv, started, NEW p \in Players, Erase(p)
    PROVE  Inv'
<1> DEFINE e == Char(Backspace, EventTime(p))
<1>1. e \in CharEvent /\ e.time = EventTime(p) /\ e.key = Backspace
  BY EventTimeType DEF Char, CharEvent
<1>2. TypeOK /\ screen[p] \in Screens /\ hand[p] \in [keys : 0 .. MaxKeys, struck : Nat, last : Nat]
  BY InvOf, PlayerTypes
<1>3. screen' = [screen EXCEPT ![p].input = Front(@), ![p].events = Append(@, e)]
  BY DEF Erase
<1> HIDE DEF e
<1>4. Struck(screen[p].input, e) = Front(screen[p].input)
  BY <1>1 DEF Struck, Erase
<1>5. screen' = [screen EXCEPT ![p] = [screen[p] EXCEPT !.input = Front(screen[p].input),
                                                        !.events = Append(screen[p].events, e)]]
  BY <1>2, <1>3 DEF TypeOK, Screens
<1>6. Touches(p, [screen[p] EXCEPT !.input = Struck(screen[p].input, e),
                                   !.events = Append(screen[p].events, e)])
  BY <1>4, <1>5 DEF Touches, Erase
<1>7. hand' = [hand EXCEPT ![p] = [keys |-> hand[p].keys + 1,
                                   struck |-> hand[p].struck + 0, last |-> clock]]
  <2>1. hand[p].struck + 0 = hand[p].struck
    BY <1>2
  <2> QED BY <2>1, Zenon DEF Erase
<1>8. OnScreen(p) /\ hand[p].keys < MaxKeys /\ UNCHANGED <<inputs, committed>>
  BY DEF Erase
<1> QED BY <1>1, <1>6, <1>7, <1>8, StrikeInv

LEMMA CloseInv ==
    ASSUME Inv, started, NEW p \in Players, Close(p)
    PROVE  Inv'
<1>1. /\ Closed.at = "closed" /\ Closed.opened = 0 /\ Closed.word = 0
      /\ Closed.input = <<>> /\ Closed.events = <<>>
  BY DEF Closed, NewScreen
<1>2. Closed \in Screens
  <2>1. Closed = [at |-> "closed", opened |-> 0, word |-> 0, input |-> <<>>, events |-> <<>>]
    BY DEF Closed, NewScreen
  <2> QED BY <2>1, WordsType, EmptySeq DEF Screens
<1>3. Touches(p, Closed) /\ UNCHANGED <<inputs, hand, committed>>
  BY DEF Close, Touches
<1>4. TypeOK /\ clock \in Nat /\ screen[p].at = "open"
  BY InvOf, PlayerTypes DEF Close, OnScreen
<1>5. Keyboard(Closed, hand'[p], clock)
  BY <1>1, <1>4, NoLetters DEF Keyboard
<1>6. Before(Closed, metrics[p], inputs'[p], committed'[p])
  BY <1>1 DEF Before
<1>7. Scored(metrics[p], committed'[p])
  BY <1>3, InvOf
<1>8. started => UnderWay(Closed, metrics[p], inputs'[p], committed'[p])
  <2>1. started => UnderWay(screen[p], metrics[p], inputs[p], committed[p])
    BY InvOf
  <2> QED BY <1>1, <1>3, <1>4, <2>1 DEF UnderWay
<1>9. started /\ p \notin seated => Absent(Closed, metrics[p], inputs'[p])
  BY <1>4, InvOf DEF Absent
<1>10. /\ inputs' \in [Players -> Seq(InputMessages)]
       /\ hand' \in [Players -> [keys : 0 .. MaxKeys, struck : Nat, last : Nat]]
       /\ committed' \in [Players -> Seq(Commits)]
  BY <1>3, <1>4 DEF TypeOK, Commits
<1>11. Grown(committed[p], committed'[p]) /\ inputs'[p] = inputs[p]
  BY <1>3, SameCommits
<1> QED BY <1>2, <1>3, <1>5, <1>6, <1>7, <1>8, <1>9, <1>10, <1>11, ScreenStep
\* The word on the screen is completed and sent.
LEMMA SpaceInv ==
    ASSUME Inv, started, NEW p \in Players, Space(p)
    PROVE  Inv'
<1> DEFINE w == screen[p].word
           s == [screen[p] EXCEPT !.word = w + 1, !.input = <<>>, !.events = <<>>]
           c == [struck |-> hand[p].struck, time |-> hand[p].last - screen[p].opened]
           msg == [word |-> w, events |-> screen[p].events]
           pending == inputs[p]
           done == committed[p]
           m == metrics[p]
<1>1. /\ TypeOK /\ screen[p] \in Screens /\ screen[p].at = "open" /\ clock \in Nat
      /\ hand[p] \in [keys : 0 .. MaxKeys, struck : Nat, last : Nat]
      /\ pending \in Seq(InputMessages) /\ done \in Seq(Commits) /\ m \in Metrics
      /\ Len(pending) \in Nat /\ Len(done) \in Nat
  BY InvOf, PlayerTypes DEF OnScreen, Space
<1>2. /\ screen[p].opened \in Nat /\ w \in 0 .. TotalWords /\ w < TotalWords
      /\ screen[p].input = Words[w + 1] /\ screen[p].events \in Seq(CharEvent)
  BY <1>1 DEF Screens, Space
<1>3. w + 1 \in 1 .. TotalWords /\ w \in 0 .. TotalWords - 1 /\ w \in Nat
  BY <1>2, WordsType
<1>4. /\ Replay[screen[p].events] = Words[w + 1]
      /\ LettersIn(screen[p].events) = hand[p].struck
      /\ screen[p].opened <= hand[p].last
      /\ Last(screen[p].events).time = StartTime + (hand[p].last - screen[p].opened)
      /\ screen[p].opened <= clock
  <2>1. Keyboard(screen[p], hand[p], clock)
    BY InvOf
  <2>2. Words[w + 1] # <<>>
    BY <1>3, WordsType
  <2>3. Replay[screen[p].events] = Words[w + 1]
    BY <1>2, <2>1 DEF Keyboard
  <2>4. screen[p].events # <<>>
    BY <2>2, <2>3, NoLetters
  <2> QED BY <1>1, <2>1, <2>3, <2>4 DEF Keyboard
<1>5. c \in Commits /\ c.struck = hand[p].struck /\ c.time = hand[p].last - screen[p].opened
  BY <1>1, <1>2, <1>4 DEF Commits
<1>6. s \in Screens /\ s.at = "open" /\ s.opened = screen[p].opened /\ s.word = w + 1
      /\ s.input = <<>> /\ s.events = <<>>
  <2>1. w + 1 \in 0 .. TotalWords /\ <<>> \in Seq(Letters) /\ <<>> \in Seq(CharEvent)
    BY <1>3, WordsType, EmptySeq
  <2>2. screen[p] \in Screens /\ screen[p].at = "open"
    BY <1>1
  <2> DEFINE v == w + 1
  <2> HIDE DEF v
  <2>3. s = [screen[p] EXCEPT !.word = v, !.input = <<>>, !.events = <<>>]
    BY DEF v
  <2>4. v \in 0 .. TotalWords
    BY <2>1 DEF v
  <2> HIDE DEF s, w, c, msg, m, pending, done
  <2>5. /\ s.at = "open" /\ s.opened = screen[p].opened /\ s.word = v
        /\ s.input = <<>> /\ s.events = <<>>
    BY <2>2, <2>3 DEF Screens
  <2>6. s \in Screens
    BY <2>1, <2>2, <2>3, <2>4 DEF Screens
  <2> QED BY <2>5, <2>6, Zenon DEF v
<1>7. msg \in InputMessages /\ msg.word = w /\ msg.events = screen[p].events
  BY <1>2, <1>3 DEF InputMessages
<1>8. Touches(p, s)
  <2>1. screen' = [screen EXCEPT ![p] = s]
    BY <1>1 DEF Space, TypeOK, Screens
  <2> QED BY <2>1, Zenon DEF Touches, Space, roomVars
<1>9. inputs' = [inputs EXCEPT ![p] = Append(pending, msg)]
      /\ committed' = [committed EXCEPT ![p] = Append(done, c)]
      /\ hand' = [hand EXCEPT ![p].struck = 0]
  BY Zenon DEF Space, InputMessage
<1> HIDE DEF s, c, msg
<1>10. /\ Append(pending, msg) \in Seq(InputMessages) /\ Len(Append(pending, msg)) = Len(pending) + 1
       /\ \A i \in 1 .. Len(pending) : Append(pending, msg)[i] = pending[i]
       /\ Append(pending, msg)[Len(pending) + 1] = msg
  BY <1>1, <1>7, AppendProperties
<1>11. /\ Append(done, c) \in Seq(Commits) /\ Len(Append(done, c)) = Len(done) + 1
       /\ \A i \in 1 .. Len(done) : Append(done, c)[i] = done[i]
       /\ Append(done, c)[Len(done) + 1] = c
  BY <1>1, <1>5, AppendProperties
<1>12. /\ inputs' \in [Players -> Seq(InputMessages)] /\ inputs'[p] = Append(pending, msg)
       /\ committed' \in [Players -> Seq(Commits)] /\ committed'[p] = Append(done, c)
       /\ hand' \in [Players -> [keys : 0 .. MaxKeys, struck : Nat, last : Nat]]
       /\ hand'[p].struck = 0
       /\ \A q \in Players \ {p} : /\ inputs'[q] = inputs[q]
                                   /\ hand'[q] = hand[q]
                                   /\ committed'[q] = committed[q]
  <2>1. /\ inputs \in [Players -> Seq(InputMessages)]
        /\ committed \in [Players -> Seq(Commits)]
        /\ hand \in [Players -> [keys : 0 .. MaxKeys, struck : Nat, last : Nat]]
    BY <1>1 DEF TypeOK, Commits
  <2> HIDE DEF pending, done
  <2> QED BY <1>1, <1>9, <1>10, <1>11, <2>1
<1>13. Keyboard(s, hand'[p], clock)
  BY <1>4, <1>6, <1>12, NoLetters DEF Keyboard
<1>14. Before(s, m, inputs'[p], committed'[p])
  BY <1>6 DEF Before
<1>15. Scored(m, committed'[p])
  <2>1. Scored(m, done) /\ m.word \in Nat
    BY <1>1, InvOf DEF Metrics
  <2>2. StruckUpTo(Append(done, c), m.word) = StruckUpTo(done, m.word)
    BY <1>1, <1>5, <2>1, StruckOfAppend DEF Scored
  <2> QED BY <1>1, <1>11, <1>12, <2>1, <2>2 DEF Scored
<1>16. ASSUME started PROVE UnderWay(s, m, inputs'[p], committed'[p])
  <2>1. /\ w = Len(done) /\ m.word + Len(pending) = Len(done) /\ m.word \in Nat
        /\ \A k \in 1 .. Len(pending) : Carries(pending[k], done, m.word + k)
    <3>1. UnderWay(screen[p], m, pending, done)
      BY <1>16, InvOf
    <3> QED BY <1>1, <3>1 DEF UnderWay, Metrics
  <2>2. Carries(msg, Append(done, c), Len(done) + 1)
    BY <1>4, <1>5, <1>7, <1>11, <2>1 DEF Carries
  <2>6. m.word \in Nat /\ Len(pending) \in Nat /\ m.word + Len(pending) = Len(done)
    BY <1>1, <2>1
  <2>3. ASSUME NEW k \in 1 .. Len(pending) + 1
        PROVE  Carries(Append(pending, msg)[k], Append(done, c), m.word + k)
    <3>1. CASE k = Len(pending) + 1
      <4>1. m.word + k = Len(done) + 1
        <5> HIDE DEF m, pending, done
        <5> QED BY <3>1, <2>6
      <4>2. Append(pending, msg)[k] = msg
        BY <3>1, <1>10
      <4> QED BY <4>1, <4>2, <2>2, Zenon
    <3>2. CASE k # Len(pending) + 1
      <4>1. k \in 1 .. Len(pending) /\ m.word + k \in 1 .. Len(done)
        BY <3>2, <1>1, <2>1, SMTT(30)
      <4>2. Append(done, c)[m.word + k] = done[m.word + k]
        BY <4>1, <1>11
      <4>3. Append(pending, msg)[k] = pending[k] /\ Carries(pending[k], done, m.word + k)
        BY <4>1, <1>10, <2>1
      <4> QED BY <4>2, <4>3, Zenon DEF Carries
    <3> QED BY <3>1, <3>2
  <2>4. /\ s.at = "open" => s.word = Len(Append(done, c))
        /\ m.word + Len(Append(pending, msg)) = Len(Append(done, c))
    <3>1. s.word = Len(done) + 1
      BY <1>6, <2>1
    <3>2. m.word + (Len(pending) + 1) = Len(done) + 1
      <4> HIDE DEF m, pending, done
      <4> QED BY <2>6
    <3> QED BY <1>10, <1>11, <3>1, <3>2, Zenon
  <2>5. Len(Append(pending, msg)) = Len(pending) + 1
    BY <1>10
  <2> QED BY <1>12, <2>3, <2>4, <2>5, Zenon DEF UnderWay
<1>17. started /\ p \notin seated => Absent(s, m, inputs'[p])
  BY <1>1, InvOf DEF Absent
<1>18. Grown(done, committed'[p]) /\ inputs'[p] # <<>>
  <2>1. Len(Append(pending, msg)) # 0
    BY <1>1, <1>10
  <2>2. Append(pending, msg) # <<>>
    BY <1>10, <2>1, EmptySeq
  <2>3. Len(done) \in Nat
    BY <1>1
  <2>4. Grown(done, Append(done, c))
    <3> HIDE DEF done
    <3>1. \A w1 \in 1 .. Len(done) : w1 <= Len(Append(done, c))
      BY <1>11, <2>3
    <3> QED BY <1>11, <3>1, Zenon DEF Grown
  <2> QED BY <1>12, <2>2, <2>4, Zenon
<1> QED BY <1>6, <1>8, <1>12, <1>13, <1>14, <1>15, <1>16, <1>17, <1>18, ScreenStep

\* The first message under way carries the word after those scored, and
\* scoring it keeps the metrics those of the words completed first.
LEMMA ProcessInputScores ==
    ASSUME NEW m \in Metrics, NEW pending \in Seq(InputMessages), NEW done \in Seq(Commits),
           NEW s, pending # <<>>, Scored(m, done), UnderWay(s, m, pending, done)
    PROVE  /\ ProcessInput(m, Head(pending)) \in Metrics
           /\ ProcessInput(m, Head(pending)).word = m.word + 1
           /\ m.word + Len(pending) = Len(done)
           /\ Scored(ProcessInput(m, Head(pending)), done)
<1> DEFINE msg == pending[1]
           new == ProcessInput(m, msg)
           w == m.word + 1
<1>1. /\ Len(pending) \in Nat \ {0} /\ Len(done) \in Nat /\ Head(pending) = msg /\ msg \in InputMessages
  <2>1. Len(pending) \in Nat \ {0} /\ Len(done) \in Nat /\ Head(pending) = msg
    BY EmptySeq, LenProperties
  <2> QED BY <2>1, ElementOfSeq
<1>2. msg.word \in 0 .. TotalWords - 1 /\ msg.events \in Seq(CharEvent)
  BY <1>1 DEF InputMessages
<1>3. m.word \in Nat /\ m.latest \in Nat /\ m.correct \in Nat /\ m.total \in Nat
  BY DEF Metrics
<1>4. Carries(msg, done, w) /\ m.word + Len(pending) = Len(done)
  BY <1>1 DEF UnderWay, Blank
<1>5. w \in 1 .. TotalWords /\ msg.word + 1 = w /\ w \in 1 .. Len(done)
  <2>1. msg.word + 1 = w
    BY <1>4 DEF Carries
  <2> HIDE DEF msg
  <2> QED BY <1>1, <1>2, <1>3, <1>4, <2>1, WordsType, SMTT(30)
<1>6. Words[w] \in Seq(Letters) /\ Words[w] # <<>> /\ Len(Words[w]) \in Nat
  BY <1>5, WordsType
<1>7. Matching(Replay[msg.events], Words[msg.word + 1]) = Len(Words[w])
  BY <1>4, <1>5, <1>6, MatchingIs DEF Carries
<1>8. LettersIn(msg.events) = done[w].struck /\ done[w] \in Commits
  BY <1>4, <1>5, ElementOfSeq DEF Carries
<1>9. msg.events # <<>>
  BY <1>4, <1>6, NoLetters DEF Carries
<1>10. Last(msg.events).time = StartTime + done[w].time
  BY <1>4 DEF Carries
<1>11. Max({m.word, msg.word + 1}) = w
  <2>1. {m.word, msg.word + 1} = {m.word, w}
    BY <1>5
  <2>2. \A x \in {m.word, w} : (\A y \in {m.word, w} : x >= y) <=> x = w
    BY <1>3
  <2>3. Max({m.word, w}) = w
    BY <2>2 DEF Max
  <2> QED BY <2>1, <2>3
<1>12. /\ new.word = w /\ new.latest = StartTime + done[w].time
       /\ new.correct = m.correct + Len(Words[w]) /\ new.total = m.total + done[w].struck
       /\ new = [word |-> new.word, latest |-> new.latest, correct |-> new.correct, total |-> new.total]
  BY <1>7, <1>8, <1>9, <1>10, <1>11 DEF ProcessInput
<1> HIDE DEF new
<1>13. new \in Metrics
  <2>1. /\ w \in 0 .. TotalWords /\ StartTime + done[w].time \in Nat
        /\ m.correct + Len(Words[w]) \in Nat /\ m.total + done[w].struck \in Nat
    <3>1. done[w].time \in Nat /\ done[w].struck \in Nat
      BY <1>8 DEF Commits
    <3>2. w \in 0 .. TotalWords
      <4> HIDE DEF w
      <4> QED BY <1>5, WordsType
    <3> HIDE DEF w
    <3>3. StartTime + done[w].time \in Nat /\ m.total + done[w].struck \in Nat
      BY <1>3, <3>1, SMTT(30) DEF StartTime
    <3>4. m.correct + Len(Words[w]) \in Nat
      BY <1>3, <1>6
    <3> QED BY <3>2, <3>3, <3>4
  <2>2. new.word \in 0 .. TotalWords /\ new.latest \in Nat /\ new.correct \in Nat /\ new.total \in Nat
    BY <1>12, <2>1, Zenon
  <2> QED BY <1>12, <2>2, Zenon DEF Metrics
<1>14. Scored(new, done)
  <2> DEFINE k == m.word
  <2>0. k \in Nat /\ k < TotalWords /\ k < Len(done)
    BY <1>1, <1>3, <1>5, WordsType
  <2>1. LettersUpTo(w) = LettersUpTo(m.word) + Len(Words[w])
    <3> HIDE DEF k
    <3>1. LettersUpTo(k + 1) = LettersUpTo(k) + Len(Words[k + 1])
      BY <2>0, SumsStep
    <3> QED BY <3>1, Zenon DEF k
  <2>2. StruckUpTo(done, w) = StruckUpTo(done, m.word) + done[w].struck
    <3> HIDE DEF k
    <3>1. StruckUpTo(done, k + 1) = StruckUpTo(done, k) + done[k + 1].struck
      BY <2>0, SumsStep
    <3> QED BY <3>1, Zenon DEF k
  <2> QED BY <1>5, <1>12, <2>1, <2>2 DEF Scored
<1> QED BY <1>1, <1>4, <1>12, <1>13, <1>14 DEF new
\* A ranking lists entries, and none before one that is ahead.
LEMMA RankingIs ==
    ASSUME NEW S \in SUBSET RankingEntries, IsFiniteSet(S), NEW r \in GetRankings(S)
    PROVE  /\ r \in Seq(RankingEntries)
           /\ \A i \in DOMAIN r : r[i] \in S
           /\ \A i, j \in DOMAIN r : i < j => ~Ahead(r[j], r[i])
<1>1. Cardinality(S) \in Nat
  BY FS_CardinalityType
<1>2. /\ r \in [1 .. Cardinality(S) -> S]
      /\ \A i, j \in DOMAIN r : i < j => ~Ahead(r[j], r[i])
  BY Zenon DEF GetRankings
<1>3. r \in Seq(RankingEntries)
  BY <1>1, <1>2
<1> QED BY <1>2, <1>3

\* What is left to show of a step of the room that changes what it and the
\* network hold of p, and where the thread of p is.
LEMMA RoomStep ==
    ASSUME Inv, NEW p \in Players, NEW m \in Metrics, NEW pending \in Seq(InputMessages),
           metrics' = [metrics EXCEPT ![p] = m],
           inputs' = [inputs EXCEPT ![p] = pending],
           UNCHANGED <<clock, screen, hand, committed>>,
           started' \in BOOLEAN, started' => started,
           seated' \subseteq Players, \A q \in Players \ {p} : q \in seated <=> q \in seated',
           handler' \in [Players -> Handlers], late' \in [Players -> Nat],
           \A q \in Players \ {p} : handler'[q] = handler[q] /\ late'[q] = late[q],
           rankings' \in Seq(RankingEntries), joins' \in 0 .. MaxJoins,
           LateInv(p)', Announced',
           Before(screen[p], m, pending, committed[p]),
           Scored(m, committed[p]),
           started' \/ Scoring(p)' => UnderWay(screen[p], m, pending, committed[p]),
           Scoring(p)' => pending # <<>>,
           started' /\ p \notin seated' => Absent(screen[p], m, pending)
    PROVE  Inv'
<1>1. TypeOK
  BY DEF Inv
<1>2. /\ metrics' \in [Players -> Metrics] /\ metrics'[p] = m
      /\ inputs' \in [Players -> Seq(InputMessages)] /\ inputs'[p] = pending
      /\ \A q \in Players \ {p} : metrics'[q] = metrics[q] /\ inputs'[q] = inputs[q]
  BY <1>1 DEF TypeOK
<1>3. TypeOK'
  BY <1>1, <1>2 DEF TypeOK
<1>4. ASSUME NEW q \in Players PROVE PlayerInv(q)' /\ LateInv(q)'
  <2>1. CASE q = p
    <3>1. Keyboard(screen'[p], hand'[p], clock')
      BY InvOf
    <3> QED BY <2>1, <3>1, <1>2 DEF PlayerInv
  <2>2. CASE q # p
    <3>1. PlayerInv(q) /\ LateInv(q)
      BY DEF Inv
    <3>2. clock' \in Nat /\ clock <= clock'
      BY <1>1, PlayerTypes
    <3>3. /\ screen'[q] = screen[q] /\ hand'[q] = hand[q] /\ metrics'[q] = metrics[q]
          /\ inputs'[q] = inputs[q] /\ committed'[q] = committed[q]
          /\ handler'[q] = handler[q] /\ late'[q] = late[q]
      BY <1>2, <2>2
    <3>4. q \in seated <=> q \in seated'
      BY <2>2
    <3>5. Scoring(q)' => Scoring(q) /\ inputs[q] # <<>>
      BY <3>1, <3>3 DEF Scoring, PlayerInv
    <3>6. PlayerInv(q)'
      BY <1>1, <3>1, <3>2, <3>3, <3>4, <3>5, Elsewhere
    <3>7. LateInv(q)'
      BY <1>1, <3>1, <3>2, <3>3, LateElsewhere
    <3> QED BY <3>6, <3>7
  <2> QED BY <2>1, <2>2
<1> QED BY <1>3, <1>4 DEF Inv

\* The same of a step that only moves the thread of p.
LEMMA HandlerStep ==
    ASSUME Inv, NEW p \in Players, NEW h \in Handlers,
           handler' = [handler EXCEPT ![p] = h],
           UNCHANGED <<clock, seated, metrics, late, joins, playerVars>>,
           started' \in BOOLEAN, started' => started,
           rankings' \in Seq(RankingEntries),
           h.at = "score" => started /\ inputs[p] # <<>>,
           LateInv(p)', Announced'
    PROVE  Inv'
<1>1. /\ TypeOK /\ Before(screen[p], metrics[p], inputs[p], committed[p])
      /\ Scored(metrics[p], committed[p])
      /\ started \/ Scoring(p) => UnderWay(screen[p], metrics[p], inputs[p], committed[p])
      /\ started /\ p \notin seated => Absent(screen[p], metrics[p], inputs[p])
      /\ metrics[p] \in Metrics /\ inputs[p] \in Seq(InputMessages)
  BY InvOf, PlayerTypes
<1>2. /\ UNCHANGED <<clock, screen, hand, committed, inputs, metrics, seated, late, joins>>
      /\ metrics' = [metrics EXCEPT ![p] = metrics[p]] /\ inputs' = [inputs EXCEPT ![p] = inputs[p]]
  BY <1>1 DEF TypeOK, playerVars
<1>3. /\ handler' \in [Players -> Handlers] /\ handler'[p] = h /\ late' \in [Players -> Nat]
      /\ \A q \in Players \ {p} : handler'[q] = handler[q] /\ late'[q] = late[q]
      /\ seated' \subseteq Players /\ joins' \in 0 .. MaxJoins
      /\ \A q \in Players \ {p} : q \in seated <=> q \in seated'
  BY <1>1, <1>2 DEF TypeOK
<1>4. Scoring(p)' => started /\ inputs[p] # <<>>
  BY <1>3 DEF Scoring
<1>5. started' /\ p \notin seated' => Absent(screen[p], metrics[p], inputs[p])
  BY <1>1, <1>2
<1>6. started' \/ Scoring(p)' => UnderWay(screen[p], metrics[p], inputs[p], committed[p])
  BY <1>1, <1>4
<1> QED BY <1>1, <1>2, <1>3, <1>4, <1>5, <1>6, RoomStep

\* Entries and announcements are as they were.
LEMMA EntriesStill ==
    ASSUME Inv, NEW p \in Players, UNCHANGED <<rankings, committed>>,
           handler' \in [Players -> Handlers], handler'[p].entries \subseteq handler[p].entries,
           \A q \in Players \ {p} : handler'[q] = handler[q]
    PROVE  Announced'
<1>1. ASSUME NEW q \in Players
      PROVE  /\ handler'[q].entries \subseteq handler[q].entries
             /\ IsFiniteSet(handler[q].entries)
             /\ \A e \in handler[q].entries : Fits(e, committed[e.player])
  BY DEF Inv, Announced
<1>2. \A q \in Players : IsFiniteSet(handler'[q].entries)
  BY <1>1, FS_Subset
<1> QED BY <1>1, <1>2 DEF Inv, Announced

\* The tail of what is under way when its head has been scored.
LEMMA UnderWayTail ==
    ASSUME NEW m \in Metrics, NEW new \in Metrics, NEW pending \in Seq(InputMessages),
           NEW done \in Seq(Commits), NEW s, pending # <<>>,
           UnderWay(s, m, pending, done), new.word = m.word + 1,
           m.word + Len(pending) = Len(done)
    PROVE  UnderWay(s, new, Tail(pending), done)
<1>1. /\ Tail(pending) \in Seq(InputMessages) /\ Len(Tail(pending)) = Len(pending) - 1
      /\ Len(pending) \in Nat \ {0}
      /\ \A k \in 1 .. Len(pending) - 1 : Tail(pending)[k] = pending[k + 1]
  BY HeadTailProperties, EmptySeq
<1>2. m.word \in Nat /\ Len(done) \in Nat
  BY LenProperties DEF Metrics
<1>3. new.word + Len(Tail(pending)) = Len(done)
  BY <1>1, <1>2
<1>4. ASSUME NEW k \in 1 .. Len(Tail(pending))
      PROVE  Carries(Tail(pending)[k], done, new.word + k)
  <2>1. k + 1 \in 1 .. Len(pending) /\ m.word + (k + 1) = new.word + k /\ k \in 1 .. Len(pending) - 1
    <3>1. k \in 1 .. Len(pending) - 1
      BY <1>1
    <3>2. k \in Nat /\ k + 1 \in 1 .. Len(pending)
      BY <1>1, <3>1
    <3>3. m.word + (k + 1) = (m.word + 1) + k
      BY <1>2, <3>2, SMTT(30)
    <3> QED BY <3>1, <3>2, <3>3
  <2>2. Carries(pending[k + 1], done, m.word + (k + 1))
    BY <2>1, Zenon DEF UnderWay
  <2> QED BY <1>1, <2>1, <2>2, Zenon
<1>5. s.at = "open" => s.word = Len(done)
  BY DEF UnderWay
<1> QED BY <1>3, <1>4, <1>5, Zenon DEF UnderWay

LEMMA TakeInputInv ==
    ASSUME Inv, NEW p \in Players, TakeInput(p)
    PROVE  Inv'
<1> DEFINE m == metrics[p]
           pending == inputs[p]
           done == committed[p]
           s == screen[p]
<1>1. /\ TypeOK /\ m \in Metrics /\ pending \in Seq(InputMessages) /\ pending # <<>>
      /\ done \in Seq(Commits) /\ Scored(m, done)
      /\ Before(s, m, pending, done)
      /\ started /\ p \notin seated => Absent(s, m, pending)
      /\ LateInv(p) /\ handler[p] \in Handlers /\ handler[p].at = "idle" /\ late[p] \in Nat
  BY InvOf, PlayerTypes DEF TakeInput
<1>2. CASE started /\ p \in seated
  <2>1. PICK h : h = [handler[p] EXCEPT !.at = "score"]
    OBVIOUS
  <2>2. h \in Handlers /\ h.at = "score" /\ h.entries = handler[p].entries
    BY <1>1, <2>1 DEF Handlers
  <2>3. /\ handler' = [handler EXCEPT ![p] = h]
        /\ UNCHANGED <<clock, seated, metrics, late, joins, playerVars, started, rankings>>
    BY <1>1, <1>2, <2>1 DEF TakeInput, Goes, TypeOK, playerVars
  <2>4. /\ started' \in BOOLEAN /\ rankings' \in Seq(RankingEntries) /\ handler' \in [Players -> Handlers]
        /\ handler'[p] = h /\ \A q \in Players \ {p} : handler'[q] = handler[q]
    BY <1>1, <2>2, <2>3 DEF TypeOK
  <2>5. LateInv(p)'
    BY <1>1, <1>2, <2>2, <2>3, <2>4 DEF LateInv
  <2>6. Announced'
    BY <2>2, <2>3, <2>4, EntriesStill DEF playerVars
  <2> QED BY <1>1, <1>2, <2>2, <2>3, <2>4, <2>5, <2>6, HandlerStep
<1>3. CASE ~(started /\ p \in seated)
  <2>1. /\ inputs' = [inputs EXCEPT ![p] = Tail(pending)] /\ Tail(pending) \in Seq(InputMessages)
        /\ UNCHANGED <<clock, started, seated, handler, metrics, rankings, late, joins, screen, hand, committed>>
    BY <1>1, <1>3, HeadTailProperties DEF TakeInput
  <2>2. ~started
    BY <1>1, <1>3 DEF Absent, Blank
  <2>3. metrics' = [metrics EXCEPT ![p] = m]
    BY <1>1, <2>1 DEF TypeOK
  <2>4. Before(s, m, Tail(pending), done)
    BY <1>1 DEF Before, Blank
  <2>5. /\ ~Scoring(p)' /\ ~started'
        /\ handler' \in [Players -> Handlers] /\ late' \in [Players -> Nat]
        /\ \A q \in Players \ {p} : handler'[q] = handler[q] /\ late'[q] = late[q]
        /\ started' \in BOOLEAN /\ rankings' \in Seq(RankingEntries)
        /\ seated' \subseteq Players /\ joins' \in 0 .. MaxJoins
        /\ \A q \in Players \ {p} : q \in seated <=> q \in seated'
    BY <1>1, <2>1, <2>2 DEF Scoring, TypeOK
  <2>6. LateInv(p)'
    BY <1>1, <2>1, <2>2 DEF LateInv
  <2>7. Announced'
    BY <1>1, <2>1, EntriesStill DEF TypeOK
  <2> HIDE DEF m, pending, done, s
  <2> QED BY <1>1, <2>1, <2>3, <2>4, <2>5, <2>6, <2>7, RoomStep DEF done, s
<1> QED BY <1>2, <1>3

LEMMA ScoreInputInv ==
    ASSUME Inv, NEW p \in Players, ScoreInput(p)
    PROVE  Inv'
<1> DEFINE m == metrics[p]
           pending == inputs[p]
           done == committed[p]
           s == screen[p]
           new == ProcessInput(m, Head(pending))
<1>1. /\ TypeOK /\ m \in Metrics /\ pending \in Seq(InputMessages) /\ pending # <<>>
      /\ done \in Seq(Commits) /\ Scored(m, done)
      /\ Before(s, m, pending, done) /\ UnderWay(s, m, pending, done)
      /\ started /\ p \notin seated => Absent(s, m, pending)
      /\ LateInv(p) /\ handler[p] \in Handlers /\ handler[p].at = "score" /\ late[p] \in Nat
  BY InvOf, PlayerTypes DEF ScoreInput, Scoring
<1>2. /\ inputs' = [inputs EXCEPT ![p] = Tail(pending)] /\ Tail(pending) \in Seq(InputMessages)
      /\ metrics' = [metrics EXCEPT ![p] = new]
      /\ late' = [late EXCEPT ![p] = IF TimeOver THEN @ + 1 ELSE @]
      /\ handler' = [handler EXCEPT ![p].at = "check"]
      /\ UNCHANGED <<clock, started, seated, rankings, joins, screen, hand, committed>>
  BY <1>1, HeadTailProperties DEF ScoreInput, Goes
<1>3. /\ new \in Metrics /\ new.word = m.word + 1 /\ m.word + Len(pending) = Len(done)
      /\ Scored(new, done)
  BY <1>1, ProcessInputScores
<1>4. Before(s, new, Tail(pending), done)
  BY <1>1 DEF Before, Blank
<1> HIDE DEF new
<1>5. UnderWay(s, new, Tail(pending), done)
  BY <1>1, <1>3, UnderWayTail
<1>6. /\ handler' \in [Players -> Handlers] /\ handler'[p].at = "check"
      /\ handler'[p].entries = handler[p].entries
      /\ \A q \in Players \ {p} : handler'[q] = handler[q]
  <2>1. [handler[p] EXCEPT !.at = "check"] \in Handlers
    BY <1>1 DEF Handlers
  <2>2. handler' = [handler EXCEPT ![p] = [handler[p] EXCEPT !.at = "check"]]
    BY <1>1, <1>2 DEF TypeOK
  <2> QED BY <1>1, <2>1, <2>2 DEF TypeOK, Handlers
<1>7. /\ late' \in [Players -> Nat] /\ late'[p] = (IF TimeOver THEN 1 ELSE 0)
      /\ \A q \in Players \ {p} : late'[q] = late[q]
  <2>1. late[p] = 0 /\ late \in [Players -> Nat]
    BY <1>1 DEF LateInv, TypeOK
  <2> QED BY <1>2, <2>1
<1>8. LateInv(p)'
  <2>1. TimeOver' <=> TimeOver
    BY <1>2 DEF TimeOver
  <2> QED BY <1>6, <1>7, <2>1 DEF LateInv
<1>9. Announced'
  BY <1>2, <1>6, EntriesStill
<1>10. /\ ~Scoring(p)' /\ (started' => started) /\ started' \in BOOLEAN
       /\ rankings' \in Seq(RankingEntries)
       /\ seated' \subseteq Players /\ joins' \in 0 .. MaxJoins
       /\ \A q \in Players \ {p} : q \in seated <=> q \in seated'
  BY <1>1, <1>2, <1>6 DEF Scoring, TypeOK
<1>11. ~(started' /\ p \notin seated')
  BY <1>1, <1>2 DEF Absent, Blank
<1> HIDE DEF m, pending, done, s
<1> QED BY <1>2, <1>3, <1>4, <1>5, <1>6, <1>7, <1>8, <1>9, <1>10, <1>11, RoomStep DEF done, s

LEMMA CheckEndInv ==
    ASSUME Inv, NEW p \in Players, CheckEnd(p)
    PROVE  Inv'
<1>1. /\ TypeOK /\ LateInv(p) /\ handler[p] \in Handlers /\ handler[p].at = "check" /\ late[p] \in Nat
  BY InvOf, PlayerTypes DEF CheckEnd
<1>2. PICK h : h = [handler[p] EXCEPT !.at = IF IsGameEnded THEN "rank" ELSE "idle"]
  OBVIOUS
<1>3. /\ h \in Handlers /\ h.at = (IF IsGameEnded THEN "rank" ELSE "idle")
      /\ h.entries = handler[p].entries
  BY <1>1, <1>2 DEF Handlers
<1>4. /\ handler' = [handler EXCEPT ![p] = h]
      /\ UNCHANGED <<clock, seated, metrics, late, joins, playerVars, started, rankings>>
  BY <1>1, <1>2 DEF CheckEnd, Goes, TypeOK
<1>5. /\ started' \in BOOLEAN /\ rankings' \in Seq(RankingEntries) /\ handler' \in [Players -> Handlers]
      /\ handler'[p] = h /\ \A q \in Players \ {p} : handler'[q] = handler[q]
  BY <1>1, <1>3, <1>4 DEF TypeOK
<1>6. LateInv(p)'
  <2>1. ~IsGameEnded => ~started \/ ~TimeOver
    BY DEF IsGameEnded
  <2> QED BY <1>1, <1>3, <1>4, <1>5, <2>1 DEF LateInv
<1>7. Announced'
  BY <1>3, <1>4, <1>5, EntriesStill DEF playerVars
<1> QED BY <1>3, <1>4, <1>5, <1>6, <1>7, HandlerStep

\* What a thread reads of q is an entry, and fits unless it is torn.
LEMMA EntriesOf ==
    ASSUME Inv, NEW q \in Players, NEW e \in Entries(q)
    PROVE  e \in RankingEntries /\ e.player = q /\ Fits(e, committed[q])
<1> DEFINE m == metrics[q]
           new == ProcessInput(m, Head(inputs[q]))
<1>1. /\ TypeOK /\ m \in Metrics /\ inputs[q] \in Seq(InputMessages) /\ committed[q] \in Seq(Commits)
      /\ Scored(m, committed[q])
      /\ Scoring(q) => /\ inputs[q] # <<>>
                       /\ UnderWay(screen[q], m, inputs[q], committed[q])
  BY InvOf, PlayerTypes
<1>2. CASE handler[q].at = "score"
  <2>1. new \in Metrics
    BY <1>1, <1>2, ProcessInputScores DEF Scoring
  <2>2. Entries(q) = {[player |-> q, word |-> w, latest |-> t, whole |-> FALSE] :
                          w \in {m.word, new.word}, t \in {m.latest, new.latest}}
    BY <1>2 DEF Entries
  <2> HIDE DEF new, m
  <2>4. PICK w \in {m.word, new.word}, t \in {m.latest, new.latest} :
            e = [player |-> q, word |-> w, latest |-> t, whole |-> FALSE]
    <3>1. e \in {[player |-> q, word |-> w, latest |-> t, whole |-> FALSE] :
                     w \in {m.word, new.word}, t \in {m.latest, new.latest}}
      BY <2>2
    <3> QED BY <3>1
  <2>3. w \in 0 .. TotalWords /\ t \in Nat
    BY <1>1, <2>1, <2>4 DEF Metrics
  <2> QED BY <2>4, <2>3 DEF RankingEntries, Fits
<1>3. CASE handler[q].at # "score"
  <2>1. e = [player |-> q, word |-> m.word, latest |-> m.latest, whole |-> TRUE]
    BY <1>3 DEF Entries
  <2> HIDE DEF m
  <2>2. m.word \in 0 .. TotalWords /\ m.latest \in Nat
    BY <1>1 DEF Metrics
  <2> QED BY <1>1, <2>1, <2>2 DEF RankingEntries, Fits, Scored
<1> QED BY <1>2, <1>3

LEMMA ReadSlotInv ==
    ASSUME Inv, NEW p \in Players, NEW q \in Players, ReadSlot(p, q)
    PROVE  Inv'
<1>1. /\ TypeOK /\ LateInv(p) /\ handler[p] \in Handlers /\ handler[p].at = "rank" /\ late[p] \in Nat
  BY InvOf, PlayerTypes DEF ReadSlot
<1>2. PICK entry \in Entries(q) :
          handler' = [handler EXCEPT
              ![p].passed = @ \cup {q},
              ![p].entries = IF q \in seated THEN @ \cup {entry} ELSE @]
  BY DEF ReadSlot
<1>3. PICK S : S = IF q \in seated THEN handler[p].entries \cup {entry} ELSE handler[p].entries
  OBVIOUS
<1>4. PICK P, h : P = handler[p].passed \cup {q} /\ h = [handler[p] EXCEPT !.passed = P, !.entries = S]
  OBVIOUS
<1>5. handler[p].entries \subseteq RankingEntries /\ handler[p].passed \subseteq Players
  BY <1>1 DEF Handlers
<1>6. entry \in RankingEntries /\ entry.player = q /\ Fits(entry, committed[q])
  BY EntriesOf
<1>7. h \in Handlers /\ h.at = "rank" /\ h.entries = S
  <2>1. S \subseteq RankingEntries /\ P \subseteq Players
    BY <1>3, <1>4, <1>5, <1>6
  <2> QED BY <1>1, <1>4, <2>1 DEF Handlers
<1>8. /\ handler' = [handler EXCEPT ![p] = h]
      /\ UNCHANGED <<clock, seated, metrics, late, joins, playerVars, started, rankings>>
  <2>1. handler' = [handler EXCEPT ![p] = [handler[p] EXCEPT !.passed = P, !.entries = S]]
    BY <1>1, <1>2, <1>3, <1>4 DEF TypeOK, Handlers
  <2> QED BY <1>4, <2>1 DEF ReadSlot
<1>9. /\ started' \in BOOLEAN /\ rankings' \in Seq(RankingEntries) /\ handler' \in [Players -> Handlers]
      /\ handler'[p] = h /\ \A r \in Players \ {p} : handler'[r] = handler[r]
  BY <1>1, <1>7, <1>8 DEF TypeOK
<1>10. LateInv(p)'
  BY <1>1, <1>7, <1>8, <1>9 DEF LateInv
<1>11. Announced'
  <2>1. Announced /\ IsFiniteSet(handler[p].entries) /\ committed' = committed /\ rankings' = rankings
    BY <1>8 DEF Inv, Announced, playerVars
  <2>2. IsFiniteSet(handler[p].entries \cup {entry})
    BY <2>1, FS_AddElement
  <2>3. IsFiniteSet(S) /\ \A e \in S : Fits(e, committed[e.player])
    BY <1>3, <1>6, <2>1, <2>2 DEF Announced
  <2>4. ASSUME NEW r \in Players
        PROVE  IsFiniteSet(handler'[r].entries) /\ \A e \in handler'[r].entries : Fits(e, committed[e.player])
    BY <1>7, <1>9, <2>1, <2>3 DEF Announced
  <2> QED BY <2>1, <2>4 DEF Announced
<1> QED BY <1>7, <1>8, <1>9, <1>10, <1>11, HandlerStep

LEMMA AnnounceInv ==
    ASSUME Inv, NEW p \in Players, Announce(p)
    PROVE  Inv'
<1>1. /\ TypeOK /\ LateInv(p) /\ handler[p] \in Handlers /\ handler[p].at = "rank" /\ late[p] \in Nat
  BY InvOf, PlayerTypes DEF Announce
<1>2. PICK h : h = [handler[p] EXCEPT !.at = "end"]
  OBVIOUS
<1>3. h \in Handlers /\ h.at = "end" /\ h.entries = handler[p].entries
  BY <1>1, <1>2 DEF Handlers
<1>4. /\ handler' = [handler EXCEPT ![p] = h]
      /\ rankings' \in GetRankings(handler[p].entries)
      /\ UNCHANGED <<clock, seated, metrics, late, joins, playerVars, started, committed>>
  BY <1>1, <1>2 DEF Announce, Goes, TypeOK, playerVars
<1>5. /\ handler[p].entries \in SUBSET RankingEntries /\ IsFiniteSet(handler[p].entries)
      /\ \A e \in handler[p].entries : Fits(e, committed[e.player])
  BY <1>1 DEF Handlers, Inv, Announced
<1>6. /\ rankings' \in Seq(RankingEntries)
      /\ \A i \in DOMAIN rankings' : rankings'[i] \in handler[p].entries
      /\ \A i, j \in DOMAIN rankings' : i < j => ~Ahead(rankings'[j], rankings'[i])
  BY <1>4, <1>5, RankingIs
<1>7. /\ started' \in BOOLEAN /\ handler' \in [Players -> Handlers]
      /\ handler'[p] = h /\ \A q \in Players \ {p} : handler'[q] = handler[q]
  BY <1>1, <1>3, <1>4 DEF TypeOK
<1>8. LateInv(p)'
  BY <1>1, <1>3, <1>4, <1>7 DEF LateInv
<1>9. Announced'
  <2>1. ASSUME NEW q \in Players
        PROVE  IsFiniteSet(handler'[q].entries) /\ \A e \in handler'[q].entries : Fits(e, committed[e.player])
    BY <1>3, <1>7 DEF Inv, Announced
  <2>2. \A i \in DOMAIN rankings' : Fits(rankings'[i], committed[rankings'[i].player])
    BY <1>5, <1>6
  <2> QED BY <1>4, <1>6, <2>1, <2>2 DEF Announced
<1> QED BY <1>3, <1>4, <1>6, <1>7, <1>8, <1>9, HandlerStep

LEMMA EndGameInv ==
    ASSUME Inv, NEW p \in Players, EndGame(p)
    PROVE  Inv'
<1>1. TypeOK /\ LateInv(p)
  BY InvOf
<1>2. Idle \in Handlers /\ Idle.at = "idle" /\ Idle.entries = {}
  BY DEF Idle, Handlers
<1>3. /\ handler' = [handler EXCEPT ![p] = Idle] /\ started' = FALSE
      /\ UNCHANGED <<clock, seated, metrics, late, joins, playerVars, rankings>>
  BY DEF EndGame
<1>4. /\ rankings' \in Seq(RankingEntries) /\ handler' \in [Players -> Handlers]
      /\ handler'[p] = Idle /\ \A q \in Players \ {p} : handler'[q] = handler[q]
  BY <1>1, <1>2, <1>3 DEF TypeOK
<1>5. LateInv(p)'
  BY <1>1, <1>2, <1>3, <1>4 DEF LateInv
<1>6. Announced'
  BY <1>2, <1>3, <1>4, EntriesStill DEF playerVars
<1> QED BY <1>2, <1>3, <1>4, <1>5, <1>6, HandlerStep

LEMMA OnExitRoomInv ==
    ASSUME Inv, NEW p \in Players, OnExitRoom(p)
    PROVE  Inv'
<1>1. TypeOK /\ screen[p].at = "closed" /\ inputs[p] = <<>> /\ handler[p].at = "idle"
      /\ Scored(metrics[p], committed[p]) /\ LateInv(p)
      /\ (started => UnderWay(screen[p], metrics[p], inputs[p], committed[p]))
      /\ committed[p] \in Seq(Commits) /\ Len(committed[p]) \in Nat
  BY InvOf, PlayerTypes DEF OnExitRoom
<1>2. /\ metrics' = [metrics EXCEPT ![p] = NoMetrics]
      /\ UNCHANGED <<clock, started, handler, rankings, late, joins, screen, inputs, hand, committed>>
      /\ seated' = seated \ {p}
  BY DEF OnExitRoom, playerVars
<1>3. inputs' = [inputs EXCEPT ![p] = <<>>] /\ <<>> \in Seq(InputMessages)
  BY <1>1, <1>2, EmptySeq DEF TypeOK
<1>4. NoMetrics \in Metrics
  BY WordsType DEF NoMetrics, Metrics
<1>5. Before(screen[p], NoMetrics, <<>>, committed[p])
  BY <1>1 DEF Before
<1>6. Scored(NoMetrics, committed[p])
  BY <1>1, SumsStep DEF Scored, NoMetrics
<1>7. started' \/ Scoring(p)' => UnderWay(screen[p], NoMetrics, <<>>, committed[p])
  BY <1>1, <1>2, EmptySeq DEF UnderWay, Blank, Scoring
<1>8. Absent(screen[p], NoMetrics, <<>>)
  BY <1>1 DEF Absent, Blank
<1>9. LateInv(p)' /\ ~Scoring(p)'
  BY <1>1, <1>2 DEF LateInv, Scoring
<1>11. Announced'
  BY <1>1, <1>2, EntriesStill DEF TypeOK
<1>10. /\ started' \in BOOLEAN /\ (started' => started) /\ seated' \subseteq Players
       /\ \A q \in Players \ {p} : q \in seated <=> q \in seated'
       /\ rankings' \in Seq(RankingEntries) /\ joins' \in 0 .. MaxJoins
       /\ handler' \in [Players -> Handlers] /\ late' \in [Players -> Nat]
       /\ \A q \in Players \ {p} : handler'[q] = handler[q] /\ late'[q] = late[q]
  BY <1>1, <1>2 DEF TypeOK
<1> QED BY <1>2, <1>3, <1>4, <1>5, <1>6, <1>7, <1>8, <1>9, <1>10, <1>11, RoomStep

LEMMA OnJoinRoomInv ==
    ASSUME Inv, NEW p \in Players, OnJoinRoom(p)
    PROVE  Inv'
<1>1. /\ TypeOK /\ Before(screen[p], metrics[p], inputs[p], committed[p])
      /\ Scored(metrics[p], committed[p])
      /\ started => UnderWay(screen[p], metrics[p], inputs[p], committed[p])
      /\ handler[p].at = "idle" /\ LateInv(p)
      /\ metrics[p] \in Metrics /\ inputs[p] \in Seq(InputMessages)
  BY InvOf, PlayerTypes DEF OnJoinRoom
<1>2. /\ UNCHANGED <<clock, started, metrics, handler, rankings, late, screen, inputs, hand, committed>>
      /\ seated' = seated \cup {p} /\ joins < MaxJoins /\ joins' = joins + 1
  BY DEF OnJoinRoom, playerVars
<1>3. metrics' = [metrics EXCEPT ![p] = metrics[p]] /\ inputs' = [inputs EXCEPT ![p] = inputs[p]]
  BY <1>1, <1>2 DEF TypeOK
<1>4. LateInv(p)' /\ ~Scoring(p)' /\ Announced'
  <2>1. LateInv(p)' /\ ~Scoring(p)'
    BY <1>1, <1>2 DEF LateInv, Scoring
  <2>2. Announced'
    BY <1>1, <1>2, EntriesStill DEF TypeOK
  <2> QED BY <2>1, <2>2
<1>5. /\ started' \in BOOLEAN /\ (started' => started) /\ seated' \subseteq Players
      /\ \A q \in Players \ {p} : q \in seated <=> q \in seated'
      /\ rankings' \in Seq(RankingEntries) /\ joins' \in 0 .. MaxJoins
      /\ handler' \in [Players -> Handlers] /\ late' \in [Players -> Nat]
      /\ \A q \in Players \ {p} : handler'[q] = handler[q] /\ late'[q] = late[q]
      /\ p \in seated'
  <2>1. /\ started \in BOOLEAN /\ seated \subseteq Players /\ rankings \in Seq(RankingEntries)
        /\ handler \in [Players -> Handlers] /\ late \in [Players -> Nat] /\ joins \in 0 .. MaxJoins /\ MaxJoins \in Nat
    BY <1>1, TypingAssumption DEF TypeOK
  <2>2. joins + 1 \in 0 .. MaxJoins
    BY <1>2, <2>1
  <2> QED BY <1>2, <2>1, <2>2
<1> QED BY <1>1, <1>2, <1>3, <1>4, <1>5, RoomStep

LEMMA TickInv ==
    ASSUME Inv, Tick
    PROVE  Inv'
<1>1. /\ clock < MaxTime /\ clock' = clock + 1
      /\ UNCHANGED <<started, seated, metrics, handler, rankings, late, joins, screen, inputs, hand, committed>>
  BY DEF Tick, roomVars, playerVars
<1>2. TypeOK /\ clock \in Nat /\ clock >= 1 /\ MaxTime \in Nat
  BY TypingAssumption DEF Inv, TypeOK, StartTime
<1>3. clock' \in StartTime .. MaxTime /\ clock' \in Nat /\ clock <= clock'
  BY <1>1, <1>2 DEF StartTime
<1>4. TypeOK'
  BY <1>1, <1>2, <1>3, Zenon DEF TypeOK
<1>5. Announced'
  BY <1>1 DEF Inv, Announced
<1>6. ASSUME NEW q \in Players PROVE PlayerInv(q)' /\ LateInv(q)'
  <2>1. PlayerInv(q) /\ LateInv(q)
    BY DEF Inv
  <2>2. /\ screen'[q] = screen[q] /\ hand'[q] = hand[q] /\ metrics'[q] = metrics[q]
        /\ inputs'[q] = inputs[q] /\ committed'[q] = committed[q]
        /\ (started' => started) /\ (q \in seated <=> q \in seated')
        /\ handler'[q] = handler[q] /\ late'[q] = late[q]
    BY <1>1
  <2>3. Scoring(q)' => Scoring(q) /\ inputs[q] # <<>>
    BY <2>1, <2>2 DEF Scoring, PlayerInv
  <2> QED BY <1>2, <1>3, <2>1, <2>2, <2>3, Elsewhere, LateElsewhere
<1> QED BY <1>4, <1>5, <1>6 DEF Inv

LEMMA NextInv == Inv /\ [Next]_vars => Inv'
<1> SUFFICES ASSUME Inv, [Next]_vars PROVE Inv'
  OBVIOUS
<1>1. ASSUME NEW p \in Players, OnInput(p) PROVE Inv'
  BY <1>1, TakeInputInv, ScoreInputInv, CheckEndInv, ReadSlotInv, AnnounceInv, EndGameInv DEF OnInput
<1>2. CASE Tick
  BY <1>2, TickInv
<1>3. ASSUME started, NEW p \in Players, Screen(p) PROVE Inv'
  BY <1>3, OnEnterInv, TypeInv, EraseInv, SpaceInv, CloseInv DEF Screen
<1>4. ASSUME NEW p \in Players, OnExitRoom(p) \/ OnJoinRoom(p) PROVE Inv'
  BY <1>4, OnExitRoomInv, OnJoinRoomInv
<1>5. CASE UNCHANGED vars
  <2>1. UNCHANGED <<clock, started, seated, metrics, handler, rankings, late, joins, screen, inputs, hand, committed>>
    BY <1>5 DEF vars, roomVars, playerVars
  <2>2. TypeOK'
    BY <2>1, Zenon DEF Inv, TypeOK
  <2>3. Announced'
    BY <2>1 DEF Inv, Announced
  <2>4. ASSUME NEW q \in Players PROVE PlayerInv(q)' /\ LateInv(q)'
    <3>1. PlayerInv(q) /\ LateInv(q) /\ TypeOK
      BY DEF Inv
    <3>2. clock' \in Nat /\ clock <= clock'
      BY <2>1, <3>1, PlayerTypes
    <3>3. Scoring(q)' => Scoring(q) /\ inputs[q] # <<>>
      BY <2>1, <3>1 DEF Scoring, PlayerInv
    <3> QED BY <2>1, <3>1, <3>2, <3>3, Elsewhere, LateElsewhere
  <2> QED BY <2>2, <2>3, <2>4 DEF Inv
<1> QED BY <1>1, <1>2, <1>3, <1>4, <1>5, Zenon DEF Next

-----------------------------------------------------------------------------
(* What the behaviours of a game satisfy.                                    *)

\* The invariant holds throughout (GameScreen.cpp:62-98, room.cpp:144-216, server.cpp:655-715).
THEOREM Inductive == Spec => []Inv
BY InitInv, NextInv, PTL DEF Spec

\* Every variable keeps its type.
THEOREM TypeCorrect == Spec => []TypeOK
<1>1. Inv => TypeOK
  BY DEF Inv
<1> QED BY <1>1, Inductive, PTL

\* The server counts what the player did: for every paragraph, every way of
\* typing and erasing and every delay of the network (GameScreen.cpp:62-92, room.cpp:163-195).
THEOREM ScoredAsTypedHolds == Spec => []ScoredAsTyped
<1>1. Inv => ScoredAsTyped
  <2> SUFFICES ASSUME Inv, NEW p \in seated
               PROVE  LET w == metrics[p].word
                      IN  /\ w <= Len(committed[p])
                          /\ metrics[p].correct = LettersUpTo(w)
                          /\ metrics[p].total = StruckUpTo(committed[p], w)
    BY DEF ScoredAsTyped
  <2>1. p \in Players
    BY DEF Inv, TypeOK
  <2>2. Scored(metrics[p], committed[p])
    BY <2>1, InvOf
  <2> QED BY <2>2 DEF Scored
<1> QED BY <1>1, Inductive, PTL

\* Each player has at most one word scored after the time is over, whatever
\* the order of the threads (server.cpp:660, :673, :706, :729).
THEOREM OneLateWordHolds == Spec => []OneLateWordEach
<1>1. Inv => OneLateWordEach
  BY DEF Inv, LateInv, OneLateWordEach
<1> QED BY <1>1, Inductive, PTL

\* The order announced is fair to slow deliveries (room.cpp:225-264, GameScreen.cpp:70).
THEOREM RankedFairlyHolds == Spec => []RankedFairly
<1>1. Inv => RankedFairly
  <2> SUFFICES ASSUME Inv, NEW i \in DOMAIN rankings, NEW j \in DOMAIN rankings,
                      NEW a, a = rankings[i], NEW b, b = rankings[j],
                      i < j, a.whole, b.whole
               PROVE  \/ a.word > b.word
                      \/ /\ a.word = b.word
                         /\ \/ a.word = 0
                            \/ committed[a.player][a.word].time <= committed[b.player][b.word].time
    BY DEF RankedFairly
  <2>1. Announced /\ TypeOK
    BY DEF Inv
  <2>2. a \in RankingEntries /\ b \in RankingEntries
    <3>1. rankings \in Seq(RankingEntries)
      BY <2>1 DEF TypeOK
    <3> QED BY <3>1, ElementOfSeq, LenProperties
  <2>3. ASSUME NEW e \in RankingEntries, e.whole, Fits(e, committed[e.player]), e.word > 0
        PROVE  /\ committed[e.player][e.word].time \in Nat
               /\ e.latest = StartTime + committed[e.player][e.word].time
    <3>1. committed[e.player] \in Seq(Commits) /\ Len(committed[e.player]) \in Nat
      BY <2>1, PlayerTypes DEF RankingEntries
    <3>2. e.word \in 1 .. Len(committed[e.player])
      BY <2>3, <3>1 DEF RankingEntries, Fits
    <3>3. committed[e.player][e.word] \in Commits
      BY <3>1, <3>2, ElementOfSeq
    <3> QED BY <2>3, <3>3 DEF Commits, Fits
  <2>4. /\ Fits(a, committed[a.player]) /\ Fits(b, committed[b.player])
        /\ ~Ahead(b, a)
    BY <2>1 DEF Announced
  <2>5. a.word \in Nat /\ b.word \in Nat /\ a.latest \in Nat /\ b.latest \in Nat
    BY <2>2 DEF RankingEntries
  <2>6. CASE a.word = b.word /\ a.word > 0
    <3>1. ~(b.latest < a.latest)
      BY <2>4, <2>6 DEF Ahead
    <3> QED BY <2>2, <2>3, <2>4, <2>5, <2>6, <3>1 DEF StartTime
  <2>7. CASE ~(a.word = b.word /\ a.word > 0)
    BY <2>4, <2>5, <2>7 DEF Ahead
  <2> QED BY <2>6, <2>7
<1> QED BY <1>1, Inductive, PTL
=============================================================================
