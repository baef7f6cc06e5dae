---------------------------- MODULE IcmpPathProofs ----------------------------
(***************************************************************************)
(* The checksum of every datagram is good, wherever it was computed, for    *)
(* any alphabet of bytes and messages of any length; and ping leaves no     *)
(* child behind.                                                            *)
(*                                                                          *)
(* The checksum is two recursive functions, so the first section proves     *)
(* that a recursion that gets smaller has a solution, and the principle of  *)
(* induction it needs, as a property of sets of numbers.                    *)
(***************************************************************************)
EXTENDS IcmpPath, FiniteSetTheorems, SequenceTheorems, WellFoundedInduction, TLAPS

-----------------------------------------------------------------------------
(* Induction and recursion *)

LEMMA LeastNumber ==
  ASSUME NEW S \in SUBSET Nat, S # {}
  PROVE  \E n \in S : \A m \in S : n <= m
<1> DEFINE R == StrictSubsetOrdering(Nat)
           T == {0 .. n : n \in S}
<1>1. IsWellFoundedOn(R, FiniteSubsetsOf(Nat))
  BY FS_StrictSubsetOrderingWellFounded
<1>2. T # {}
  OBVIOUS
<1>3. T \subseteq FiniteSubsetsOf(Nat)
  <2> SUFFICES ASSUME NEW n \in S PROVE 0 .. n \in FiniteSubsetsOf(Nat)
    OBVIOUS
  <2> QED
    BY FS_Interval DEF FiniteSubsetsOf
<1>4. PICK x \in T : \A y \in T : ~(<<y, x>> \in R)
  <2> HIDE DEF R, T
  <2> QED
    BY <1>1, <1>2, <1>3, WFMin
<1>5. PICK n \in S : x = 0 .. n
  BY <1>4
<1>6. ASSUME NEW m \in S, m < n PROVE FALSE
  <2> DEFINE a == 0 .. m
             b == 0 .. n
  <2>1. a \in T /\ a \in SUBSET Nat /\ b \in SUBSET Nat /\ a \subseteq b /\ a # b /\ x = b
    BY <1>5, <1>6, n \in 0 .. n, n \notin 0 .. m
  <2> HIDE DEF a, b
  <2>2. <<a, x>> \in R
    BY <2>1 DEF StrictSubsetOrdering
  <2> HIDE DEF T, R
  <2> QED
    BY <1>4, <2>1, <2>2
<1> QED
  BY <1>6

LEMMA Induction ==
  ASSUME NEW S, \A n \in Nat : (\A m \in Nat : m < n => m \in S) => n \in S
  PROVE  Nat \subseteq S
<1> SUFFICES ASSUME NEW k \in Nat, k \notin S PROVE FALSE
  OBVIOUS
<1>1. PICK n \in Nat \ S : \A m \in Nat \ S : n <= m
  BY LeastNumber
<1> QED
  BY <1>1

(* f at s is g, or what op makes of f at the next s, which is smaller. *)
Solves(f, s, B, g, next, op) == f[s] = IF s \in B THEN g[s] ELSE op[s][f[next[s]]]

LEMMA Recursion ==
  ASSUME NEW S, NEW V, V # {}, NEW B \in SUBSET S, NEW g \in [S -> V], NEW next \in [S -> S],
         NEW op \in [S -> [V -> V]], NEW size \in [S -> Nat],
         \A s \in S \ B : size[next[s]] < size[s]
  PROVE  \E f \in [S -> V] : \A s \in S : Solves(f, s, B, g, next, op)
<1> DEFINE UpTo(n) == {f \in [S -> V] : \A s \in S : size[s] < n => Solves(f, s, B, g, next, op)}
<1>1. ASSUME NEW m \in Nat, NEW n \in Nat, NEW e \in UpTo(m), NEW f \in UpTo(n),
             NEW s \in S, size[s] < m, size[s] < n
      PROVE  e[s] = f[s]
  <2> DEFINE Same == {k \in Nat : \A t \in S : size[t] = k /\ k < m /\ k < n => e[t] = f[t]}
  <2>1. ASSUME NEW k \in Nat, \A l \in Nat : l < k => l \in Same PROVE k \in Same
    <3> SUFFICES ASSUME NEW t \in S, size[t] = k, k < m, k < n PROVE e[t] = f[t]
      OBVIOUS
    <3>1. Solves(e, t, B, g, next, op) /\ Solves(f, t, B, g, next, op)
      OBVIOUS
    <3>2. CASE t \in B
      BY <3>1, <3>2 DEF Solves
    <3>3. CASE t \notin B
      <4>1. size[next[t]] < k /\ next[t] \in S /\ size[next[t]] \in Nat
        BY <3>3
      <4>2. size[next[t]] \in Same
        BY <2>1, <4>1
      <4>3. e[next[t]] = f[next[t]]
        BY <4>1, <4>2
      <4> QED
        BY <3>1, <3>3, <4>3 DEF Solves
    <3> QED
      BY <3>2, <3>3
  <2>2. Nat \subseteq Same
    <3> HIDE DEF Same
    <3> QED
      BY <2>1, Induction
  <2> QED
    BY <2>2, <1>1
<1>2. \A n \in Nat : UpTo(n) # {}
  <2> DEFINE N == {n \in Nat : UpTo(n) # {}}
  <2>1. ASSUME NEW n \in Nat, \A m \in Nat : m < n => m \in N PROVE n \in N
    <3>1. CASE n = 0
      <4>1. g \in UpTo(n)
        BY <3>1
      <4> QED
        BY <4>1
    <3>2. CASE n # 0
      <4>1. PICK f \in UpTo(n - 1) : TRUE
        BY <2>1, <3>2, n - 1 \in Nat, n - 1 < n
      <4> DEFINE h == [s \in S |-> IF s \in B THEN g[s] ELSE op[s][f[next[s]]]]
      <4>2. h \in [S -> V]
        <5> SUFFICES ASSUME NEW s \in S PROVE (IF s \in B THEN g[s] ELSE op[s][f[next[s]]]) \in V
          OBVIOUS
        <5>1. f \in [S -> V] /\ op[s] \in [V -> V] /\ next[s] \in S
          OBVIOUS
        <5> QED
          BY <5>1
      <4>3. ASSUME NEW s \in S, size[s] < n PROVE Solves(h, s, B, g, next, op)
        <5>1. CASE s \in B
          BY <5>1 DEF Solves
        <5>2. CASE s \notin B
          <6>1. next[s] \in S /\ size[next[s]] < n - 1
            <7>1. next[s] \in S /\ size[s] \in Nat /\ size[next[s]] \in Nat
              OBVIOUS
            <7>2. size[next[s]] < size[s]
              BY <5>2
            <7> QED
              BY <4>3, <7>1, <7>2
          <6>2. Solves(f, next[s], B, g, next, op)
            BY <6>1
          <6>3. f[next[s]] = h[next[s]]
            BY <6>1, <6>2 DEF Solves
          <6> QED
            BY <5>2, <6>3 DEF Solves
        <5> QED
          BY <5>1, <5>2
      <4>4. h \in UpTo(n)
        <5> HIDE DEF h
        <5> QED
          BY <4>2, <4>3
      <4> QED
        BY <4>4
    <3> QED
      BY <3>1, <3>2
  <2>2. Nat \subseteq N
    <3> HIDE DEF N
    <3> QED
      BY <2>1, Induction
  <2> QED
    BY <2>2
<1> DEFINE part(s) == CHOOSE f : f \in UpTo(size[s] + 1)
           F == [s \in S |-> part(s)[s]]
<1>3. ASSUME NEW s \in S PROVE part(s) \in UpTo(size[s] + 1) /\ size[s] + 1 \in Nat
  <2>1. size[s] + 1 \in Nat
    OBVIOUS
  <2>2. \E f : f \in UpTo(size[s] + 1)
    BY <1>2, <2>1
  <2> HIDE DEF UpTo
  <2> QED
    BY <2>1, <2>2
<1>4. F \in [S -> V]
  BY <1>3
<1>5. ASSUME NEW s \in S PROVE Solves(F, s, B, g, next, op)
  <2>1. Solves(part(s), s, B, g, next, op)
    <3>1. size[s] < size[s] + 1
      OBVIOUS
    <3> HIDE DEF part
    <3> QED
      BY <1>3, <3>1
  <2>2. CASE s \in B
    BY <2>1, <2>2 DEF Solves
  <2>3. CASE s \notin B
    <3>1. next[s] \in S /\ size[next[s]] < size[s]
      BY <2>3
    <3>2. part(s)[next[s]] = part(next[s])[next[s]]
      <4>1. /\ part(s) \in UpTo(size[s] + 1) /\ size[s] + 1 \in Nat
            /\ part(next[s]) \in UpTo(size[next[s]] + 1) /\ size[next[s]] + 1 \in Nat
        BY <1>3, <3>1
      <4>2. size[next[s]] < size[s] + 1 /\ size[next[s]] < size[next[s]] + 1
        BY <3>1, <4>1
      <4> HIDE DEF part, UpTo
      <4> QED
        BY <1>1, <3>1, <4>1, <4>2
    <3>3. F[next[s]] = part(next[s])[next[s]] /\ F[s] = part(s)[s]
      BY <3>1
    <3> HIDE DEF part, F
    <3> QED
      BY <2>1, <2>3, <3>2, <3>3 DEF Solves
  <2> QED
    BY <2>2, <2>3
<1> HIDE DEF F
<1> QED
  BY <1>4, <1>5

-----------------------------------------------------------------------------
(* Folding the carries *)

LEMMA WordIs == Word \in Nat /\ Word >= 4 /\ Base \in Nat /\ Base >= 2
<1>1. Base \in Nat /\ Base >= 2
  BY IcmpAssumption
<1>2. \A b \in Nat : b >= 2 => b * b \in Nat /\ b * b >= 4
  BY SMT
<1> QED
  BY <1>1, <1>2 DEF Word

LEMMA Division ==
  ASSUME NEW n \in Nat, NEW w \in Nat, w > 0
  PROVE  /\ n % w \in Nat /\ n % w < w
         /\ n \div w \in Nat
         /\ n = w * (n \div w) + (n % w)
  BY SMT

(* One fold takes away a multiple of Word - 1. *)
LEMMA OneFold ==
  ASSUME NEW n \in Nat
  PROVE  LET m == (n % Word) + (n \div Word)
         IN  /\ m \in Nat
             /\ n = m + (n \div Word) * (Word - 1) /\ n \div Word \in Nat
             /\ n >= Word => m < n /\ m > 0
<1> DEFINE q == n \div Word
           r == n % Word
           w == Word
<1>1. w \in Nat /\ w >= 4 /\ q \in Nat /\ r \in Nat /\ r < w /\ n = w * q + r
  BY WordIs, Division
<1> HIDE DEF q, r, w
<1>2. w * q = q + q * (w - 1)
  BY <1>1
<1>3. n = r + q + q * (w - 1)
  BY <1>1, <1>2
<1>4. n >= w => q > 0
  BY <1>1
<1>5. q > 0 => q * (w - 1) > 0
  BY <1>1
<1> QED
  BY <1>1, <1>3, <1>4, <1>5 DEF q, r, w

LEMMA FoldStep ==
  /\ fold \in [Nat -> Nat]
  /\ \A n \in Nat : fold[n] = IF n < Word THEN n ELSE fold[(n % Word) + (n \div Word)]
<1> DEFINE Eq(f) == f = [n \in Nat |-> IF n < Word THEN n ELSE f[(n % Word) + (n \div Word)]]
           B == {n \in Nat : n < Word}
           id == [n \in Nat |-> n]
           next == [n \in Nat |-> (n % Word) + (n \div Word)]
           op == [n \in Nat |-> [v \in Nat |-> v]]
<1>1. next \in [Nat -> Nat]
  BY OneFold
<1>2. ASSUME NEW n \in Nat \ B PROVE id[next[n]] < id[n]
  <2>1. next[n] \in Nat /\ id[next[n]] = next[n] /\ id[n] = n
    BY <1>1
  <2>2. n >= Word
    BY WordIs
  <2>3. next[n] < n
    BY <2>2, OneFold
  <2> HIDE DEF id, next
  <2> QED
    BY <2>1, <2>3
<1>3. PICK f \in [Nat -> Nat] : \A n \in Nat : Solves(f, n, B, id, next, op)
  <2>1. B \in SUBSET Nat /\ id \in [Nat -> Nat] /\ op \in [Nat -> [Nat -> Nat]] /\ Nat # {}
    OBVIOUS
  <2> HIDE DEF B, id, next, op
  <2> QED
    BY <1>1, <1>2, <2>1, Recursion
<1>4. ASSUME NEW n \in Nat PROVE f[n] = IF n < Word THEN n ELSE f[(n % Word) + (n \div Word)]
  BY <1>1, <1>3 DEF Solves
<1>5. Eq(f)
  BY <1>4
<1>6. Eq(fold)
  <2>1. fold = CHOOSE e : Eq(e)
    BY DEF fold
  <2> HIDE DEF Eq
  <2> QED
    BY <1>5, <2>1
<1>7. ASSUME NEW n \in Nat, \A m \in Nat : m < n => fold[m] \in Nat PROVE fold[n] \in Nat
  <2> DEFINE m == (n % Word) + (n \div Word)
  <2>1. fold[n] = IF n < Word THEN n ELSE fold[m]
    BY <1>6
  <2>2. m \in Nat /\ (n >= Word => m < n)
    BY OneFold
  <2> HIDE DEF m
  <2> QED
    BY <1>7, <2>1, <2>2, WordIs
<1>8. \A n \in Nat : fold[n] \in Nat
  <2> DEFINE T == {n \in Nat : fold[n] \in Nat}
  <2>1. ASSUME NEW n \in Nat, \A m \in Nat : m < n => m \in T PROVE n \in T
    BY <1>7, <2>1
  <2>2. Nat \subseteq T
    <3> HIDE DEF T
    <3> QED
      BY <2>1, Induction
  <2> QED
    BY <2>2
<1> QED
  BY <1>6, <1>8

(* All folds together: the number modulo Word - 1, and 0 only for 0. *)
LEMMA FoldIsRemainder ==
  ASSUME NEW n \in Nat
  PROVE  /\ fold[n] \in 0 .. Word - 1
         /\ n > 0 => fold[n] > 0
         /\ \E k \in Nat : n = fold[n] + k * (Word - 1)
<1> DEFINE P(m) == /\ fold[m] \in 0 .. Word - 1
                   /\ m > 0 => fold[m] > 0
                   /\ \E k \in Nat : m = fold[m] + k * (Word - 1)
           T == {m \in Nat : P(m)}
<1>1. ASSUME NEW m \in Nat, \A l \in Nat : l < m => l \in T PROVE m \in T
  <2>1. CASE m < Word
    <3>1. fold[m] = m /\ m = fold[m] + 0 * (Word - 1)
      BY <2>1, FoldStep, WordIs
    <3>2. 0 \in Nat /\ fold[m] \in 0 .. Word - 1
      BY <2>1, <3>1, WordIs
    <3>3. \E k \in Nat : m = fold[m] + k * (Word - 1)
      BY <3>1, <3>2
    <3> QED
      BY <2>1, <3>1, <3>2, <3>3
  <2>2. CASE m >= Word
    <3> DEFINE l == (m % Word) + (m \div Word)
               q == m \div Word
    <3>1. l \in Nat /\ l < m /\ l > 0 /\ q \in Nat /\ m = l + q * (Word - 1)
      BY <2>2, OneFold
    <3>2. fold[m] = fold[l]
      <4>1. fold[m] = IF m < Word THEN m ELSE fold[l]
        BY FoldStep
      <4> HIDE DEF l
      <4> QED
        BY <2>2, <4>1, WordIs
    <3>3. P(l)
      BY <1>1, <3>1
    <3> HIDE DEF l, q
    <3>4. PICK k \in Nat : l = fold[l] + k * (Word - 1)
      BY <3>3
    <3>5. m = fold[m] + (k + q) * (Word - 1) /\ k + q \in Nat
      BY <3>1, <3>2, <3>3, <3>4, WordIs
    <3> QED
      BY <3>1, <3>2, <3>3, <3>5
  <2> QED
    BY <2>1, <2>2, WordIs
<1>2. Nat \subseteq T
  <2> HIDE DEF T
  <2> QED
    BY <1>1, Induction
<1> QED
  BY <1>2

-----------------------------------------------------------------------------
(* The sum of the words *)

LEMMA SumStep ==
  /\ sum \in [Seq(Nat) -> Nat]
  /\ \A s \in Seq(Nat) : sum[s] = IF s = <<>> THEN 0 ELSE Head(s) + sum[Tail(s)]
<1> DEFINE Eq(f) == f = [s \in Seq(Nat) |-> IF s = <<>> THEN 0 ELSE Head(s) + f[Tail(s)]]
           zero == [s \in Seq(Nat) |-> 0]
           next == [s \in Seq(Nat) |-> IF s = <<>> THEN <<>> ELSE Tail(s)]
           head == [s \in Seq(Nat) |-> IF s = <<>> THEN 0 ELSE Head(s)]
           op == [s \in Seq(Nat) |-> [v \in Nat |-> head[s] + v]]
           size == [s \in Seq(Nat) |-> Len(s)]
<1>1. next \in [Seq(Nat) -> Seq(Nat)] /\ zero \in [Seq(Nat) -> Nat] /\ size \in [Seq(Nat) -> Nat]
  OBVIOUS
<1>2. ASSUME NEW s \in Seq(Nat) \ {<<>>} PROVE size[next[s]] < size[s]
  OBVIOUS
<1>3. head \in [Seq(Nat) -> Nat]
  OBVIOUS
<1>4. op \in [Seq(Nat) -> [Nat -> Nat]]
  <2> HIDE DEF head
  <2> QED
    BY <1>3
<1>5. PICK f \in [Seq(Nat) -> Nat] : \A s \in Seq(Nat) : Solves(f, s, {<<>>}, zero, next, op)
  <2>1. {<<>>} \in SUBSET Seq(Nat) /\ Nat # {}
    OBVIOUS
  <2> HIDE DEF zero, next, op, size
  <2> QED
    BY <1>1, <1>2, <1>4, <2>1, Recursion
<1>6. ASSUME NEW s \in Seq(Nat) PROVE f[s] = IF s = <<>> THEN 0 ELSE Head(s) + f[Tail(s)]
  <2>1. CASE s = <<>>
    BY <1>5, <2>1 DEF Solves
  <2>2. CASE s # <<>>
    <3>1. Tail(s) \in Seq(Nat) /\ next[s] = Tail(s) /\ head[s] = Head(s)
      BY <2>2
    <3>2. f[Tail(s)] \in Nat
      BY <3>1
    <3>3. op[s][f[Tail(s)]] = Head(s) + f[Tail(s)]
      <4> HIDE DEF head
      <4> QED
        BY <3>1, <3>2
    <3> HIDE DEF next, op, head
    <3> QED
      BY <1>5, <2>2, <3>1, <3>3 DEF Solves
  <2> QED
    BY <2>1, <2>2
<1>7. Eq(f)
  BY <1>6
<1>8. Eq(sum)
  <2>1. sum = CHOOSE e : Eq(e)
    BY DEF sum
  <2> HIDE DEF Eq
  <2> QED
    BY <1>7, <2>1
<1>9. ASSUME NEW n \in Nat, \A m \in Nat : m < n => \A t \in Seq(Nat) : Len(t) = m => sum[t] \in Nat,
             NEW s \in Seq(Nat), Len(s) = n
      PROVE  sum[s] \in Nat
  <2>1. CASE s = <<>>
    BY <1>8, <2>1
  <2>2. CASE s # <<>>
    <3>1. /\ Tail(s) \in Seq(Nat) /\ Len(Tail(s)) = n - 1 /\ Head(s) \in Nat
          /\ n - 1 \in Nat /\ n - 1 < n
      BY <1>9, <2>2
    <3>2. \A t \in Seq(Nat) : Len(t) = n - 1 => sum[t] \in Nat
      BY <1>9, <3>1
    <3>3. sum[Tail(s)] \in Nat
      BY <3>1, <3>2
    <3>4. sum[s] = Head(s) + sum[Tail(s)]
      BY <1>8, <2>2
    <3> QED
      BY <3>1, <3>3, <3>4
  <2> QED
    BY <2>1, <2>2
<1>10. \A s \in Seq(Nat) : sum[s] \in Nat
  <2> DEFINE T == {n \in Nat : \A t \in Seq(Nat) : Len(t) = n => sum[t] \in Nat}
  <2>1. ASSUME NEW n \in Nat, \A m \in Nat : m < n => m \in T PROVE n \in T
    BY <1>9, <2>1
  <2>2. Nat \subseteq T
    <3> HIDE DEF T
    <3> QED
      BY <2>1, Induction
  <2> QED
    BY <2>2
<1> QED
  BY <1>8, <1>10

(* What a datagram is made of; the bytes of the checksum are those of one word. *)
Datagrams == [type : Nat, seq : Nat, checksum : 0 .. Word - 1, message : Seq(0 .. Base - 1)]

LEMMA Behind ==
  ASSUME NEW h \in Seq(Nat), NEW m \in Seq(Nat), Len(h) = 6
  PROVE  /\ h \o m \in Seq(Nat) /\ Len(h \o m) = 6 + Len(m)
         /\ \A k \in 1 .. 6 + Len(m) : (h \o m)[k] = IF k <= 6 THEN h[k] ELSE m[k - 6]
<1>1. h \o m \in Seq(Nat)
  BY ConcatProperties
<1>2. Len(h \o m) = Len(h) + Len(m)
  BY ConcatProperties
<1>3. \A k \in 1 .. Len(h) + Len(m) : (h \o m)[k] = IF k <= Len(h) THEN h[k] ELSE m[k - Len(h)]
  BY ConcatProperties
<1> QED
  BY <1>1, <1>2, <1>3

LEMMA SameSeq ==
  ASSUME NEW s \in Seq(Nat), NEW t \in Seq(Nat), Len(s) = Len(t),
         \A k \in 1 .. Len(s) : s[k] = t[k]
  PROVE  s = t
  OBVIOUS

LEMMA OddByte ==
  ASSUME NEW n \in Nat, NEW k \in 3 .. (7 + n) \div 2
  PROVE  2 * k - 1 \in 5 .. 6 + n
  OBVIOUS

LEMMA ThirdTail ==
  ASSUME NEW s \in Seq(Nat), Len(s) > 2
  PROVE  /\ s # <<>> /\ Head(s) = s[1] /\ Tail(s) \in Seq(Nat)
         /\ Tail(s) # <<>> /\ Head(Tail(s)) = s[2] /\ Tail(Tail(s)) \in Seq(Nat)
         /\ Len(Tail(Tail(s))) = Len(s) - 2
         /\ \A k \in 1 .. Len(s) - 2 : Tail(Tail(s))[k] = s[k + 2]
<1>0. Len(s) \in Nat
  OBVIOUS
<1>1. ASSUME NEW t \in Seq(Nat), t # <<>>
      PROVE  /\ Tail(t) \in Seq(Nat) /\ Len(Tail(t)) = Len(t) - 1 /\ Head(t) = t[1]
             /\ \A k \in 1 .. Len(t) - 1 : Tail(t)[k] = t[k + 1]
  BY <1>1
<1>2. s # <<>>
  BY <1>0
<1> DEFINE t == Tail(s)
<1>3. /\ t \in Seq(Nat) /\ Len(t) = Len(s) - 1 /\ Head(s) = s[1]
      /\ \A k \in 1 .. Len(s) - 1 : t[k] = s[k + 1]
  BY <1>1, <1>2
<1> HIDE DEF t
<1>4. t # <<>> /\ t[1] = s[2]
  BY <1>0, <1>3
<1>5. /\ Tail(t) \in Seq(Nat) /\ Len(Tail(t)) = Len(t) - 1 /\ Head(t) = t[1]
      /\ \A k \in 1 .. Len(t) - 1 : Tail(t)[k] = t[k + 1]
  BY <1>1, <1>3, <1>4
<1>6. ASSUME NEW k \in 1 .. Len(s) - 2 PROVE Tail(t)[k] = s[k + 2]
  <2>1. k \in 1 .. Len(t) - 1 /\ k + 1 \in 1 .. Len(s) - 1 /\ (k + 1) + 1 = k + 2
    BY <1>0, <1>3
  <2> QED
    BY <1>3, <1>5, <2>1
<1>7. Len(Tail(t)) = Len(s) - 2
  BY <1>0, <1>3, <1>5
<1> QED
  BY <1>2, <1>3, <1>4, <1>5, <1>6, <1>7 DEF t

LEMMA WordsOf ==
  ASSUME NEW d \in Datagrams
  PROVE  LET w == Words(Bytes(d))
         IN  /\ w \in Seq(Nat) /\ Len(w) > 2
             /\ w[1] = d.type /\ w[2] = d.checksum
             /\ Len(w) = (7 + Len(d.message)) \div 2
             /\ \A k \in 3 .. Len(w) :
                  w[k] = Bytes(d)[2 * k - 1]
                         + IF 2 * k <= 6 + Len(d.message) THEN Base * Bytes(d)[2 * k] ELSE 0
<1> DEFINE b == Bytes(d)
           w == Words(b)
           l == Len(d.message)
<1>0. Base \in Nat /\ Base >= 2 /\ Word \in Nat
  BY WordIs
<1>1. d.type \in Nat /\ d.seq \in Nat /\ d.checksum \in Nat /\ d.message \in Seq(Nat) /\ l \in Nat
  BY <1>0 DEF Datagrams
<1> HIDE DEF l
<1>2. /\ d.checksum % Base \in Nat /\ d.checksum \div Base \in Nat
      /\ (d.checksum % Base) + Base * (d.checksum \div Base) = d.checksum
  <2>1. \A c \in Nat : /\ c % Base \in Nat /\ c \div Base \in Nat
                       /\ c = Base * (c \div Base) + (c % Base)
    BY <1>0, Division
  <2>2. \A x, y \in Nat : x + Base * y = Base * y + x
    BY <1>0
  <2> QED
    BY <1>1, <2>1, <2>2
<1>3. /\ b \in Seq(Nat) /\ Len(b) = 6 + l
      /\ b[1] = d.type /\ b[2] = 0 /\ b[3] = d.checksum % Base /\ b[4] = d.checksum \div Base
  <2> DEFINE h == <<d.type, 0, d.checksum % Base, d.checksum \div Base, d.seq, 0>>
  <2>1. h \in Seq(Nat) /\ Len(h) = 6
    BY <1>1, <1>2
  <2>2. b = h \o d.message
    BY DEF Bytes
  <2>3. /\ h[1] = d.type /\ h[2] = 0 /\ h[3] = d.checksum % Base /\ h[4] = d.checksum \div Base
    OBVIOUS
  <2> HIDE DEF h, b
  <2>4. /\ b \in Seq(Nat) /\ Len(b) = 6 + l
        /\ \A k \in 1 .. 6 : b[k] = h[k]
    <3>1. b \in Seq(Nat) /\ Len(b) = 6 + Len(d.message)
          /\ \A k \in 1 .. 6 + Len(d.message) : b[k] = IF k <= 6 THEN h[k] ELSE d.message[k - 6]
      BY <1>1, <2>1, <2>2, Behind
    <3>2. Len(b) = 6 + l
      BY <3>1 DEF l
    <3>3. ASSUME NEW k \in 1 .. 6 PROVE b[k] = h[k]
      <4>1. k \in 1 .. 6 + l /\ k <= 6
        BY <1>1
      <4>2. k \in 1 .. 6 + Len(d.message)
        BY <4>1 DEF l
      <4> QED
        BY <3>1, <4>1, <4>2
    <3> QED
      BY <3>1, <3>2, <3>3
  <2>5. b[1] = h[1] /\ b[2] = h[2] /\ b[3] = h[3] /\ b[4] = h[4]
    BY <2>4
  <2> QED
    BY <2>3, <2>4, <2>5
<1> HIDE DEF b
<1> DEFINE L == (7 + l) \div 2
           v(k) == b[2 * k - 1] + IF 2 * k <= 6 + l THEN Base * b[2 * k] ELSE 0
<1>4. L \in Nat /\ L > 2
  BY <1>1
<1>5. ASSUME NEW k \in 1 .. L PROVE v(k) \in Nat
  <2>1. 2 * k - 1 \in 1 .. 6 + l /\ (2 * k <= 6 + l => 2 * k \in 1 .. 6 + l)
    BY <1>1
  <2>2. b[2 * k - 1] \in Nat /\ (2 * k <= 6 + l => b[2 * k] \in Nat)
    BY <1>3, <2>1
  <2>3. 2 * k <= 6 + l => Base * b[2 * k] \in Nat
    BY <1>0, <2>2
  <2> QED
    BY <2>2, <2>3
<1>6. w = [k \in 1 .. L |-> v(k)]
  <2>1. (Len(b) + 1) \div 2 = L
    BY <1>1, <1>3
  <2> HIDE DEF L
  <2> QED
    BY <1>3, <2>1 DEF Words
<1>7. v(1) = d.type
  <2>1. 2 * 1 - 1 = 1 /\ 2 * 1 = 2 /\ 2 <= 6 + l /\ Base * 0 = 0
    BY <1>0, <1>1
  <2> QED
    BY <1>1, <1>3, <2>1
<1>8. v(2) = d.checksum
  <2>1. 2 * 2 - 1 = 3 /\ 2 * 2 = 4 /\ 4 <= 6 + l
    BY <1>1
  <2> QED
    BY <1>2, <1>3, <2>1
<1>9. \A k \in 3 .. L : v(k) = Bytes(d)[2 * k - 1]
                               + IF 2 * k <= 6 + Len(d.message) THEN Base * Bytes(d)[2 * k] ELSE 0
  BY DEF b, l
<1> HIDE DEF w, v
<1>10. w \in Seq(Nat) /\ Len(w) = L /\ \A k \in 1 .. L : w[k] = v(k)
  <2> HIDE DEF L
  <2> QED
    BY <1>4, <1>5, <1>6
<1>11. L = (7 + Len(d.message)) \div 2
  BY DEF l
<1>12. /\ w \in Seq(Nat) /\ Len(w) > 2 /\ w[1] = d.type /\ w[2] = d.checksum
       /\ Len(w) = (7 + Len(d.message)) \div 2
       /\ \A k \in 3 .. Len(w) :
            w[k] = Bytes(d)[2 * k - 1]
                   + IF 2 * k <= 6 + Len(d.message) THEN Base * Bytes(d)[2 * k] ELSE 0
  <2> HIDE DEF L
  <2>1. 1 \in 1 .. L /\ 2 \in 1 .. L /\ \A k \in 3 .. L : k \in 1 .. L
    BY <1>4
  <2>2. w[1] = d.type /\ w[2] = d.checksum
    BY <1>7, <1>8, <1>10, <2>1
  <2>3. \A k \in 3 .. L : w[k] = v(k)
    BY <1>10, <2>1
  <2>4. \A k \in 3 .. L : w[k] = Bytes(d)[2 * k - 1]
                                 + IF 2 * k <= 6 + Len(d.message) THEN Base * Bytes(d)[2 * k] ELSE 0
    BY <1>9, <2>3
  <2> QED
    BY <1>4, <1>10, <1>11, <2>2, <2>4
<1> QED
  BY <1>12 DEF w, b

(* The checksum field is a word of its own: it adds what is written there. *)
LEMMA ChecksumAdds ==
  ASSUME NEW d \in Datagrams, NEW c \in 0 .. Word - 1
  PROVE  /\ sum[Words(Bytes([d EXCEPT !.checksum = 0]))] \in Nat
         /\ sum[Words(Bytes([d EXCEPT !.checksum = c]))]
              = sum[Words(Bytes([d EXCEPT !.checksum = 0]))] + c
<1> DEFINE set(x) == [d EXCEPT !.checksum = x]
           w(x) == Words(Bytes(set(x)))
           Rest(x) == Tail(Tail(w(x)))
<1>1. ASSUME NEW x \in 0 .. Word - 1
      PROVE  /\ set(x) \in Datagrams /\ set(x).type = d.type /\ set(x).checksum = x
             /\ set(x).message = d.message /\ set(x).seq = d.seq
  BY DEF Datagrams
<1>2. ASSUME NEW x \in 0 .. Word - 1
      PROVE  /\ w(x) \in Seq(Nat) /\ Len(w(x)) > 2
             /\ Len(w(x)) = (7 + Len(d.message)) \div 2
             /\ w(x)[1] = d.type /\ w(x)[2] = x
             /\ \A k \in 3 .. Len(w(x)) :
                  w(x)[k] = Bytes(set(x))[2 * k - 1]
                            + IF 2 * k <= 6 + Len(d.message) THEN Base * Bytes(set(x))[2 * k] ELSE 0
  <2> HIDE DEF set
  <2> QED
    BY <1>1, WordsOf
<1>3. ASSUME NEW x \in 0 .. Word - 1, NEW k \in 5 .. 6 + Len(d.message)
      PROVE  Bytes(set(x))[k] = Bytes(set(0))[k]
  <2>1. 0 \in 0 .. Word - 1 /\ Len(d.message) \in Nat /\ d.message \in Seq(Nat) /\ d.seq \in Nat
    BY WordIs DEF Datagrams
  <2> DEFINE h(y) == <<d.type, 0, y % Base, y \div Base, d.seq, 0>>
  <2>2. \A y \in 0 .. Word - 1 : Bytes(set(y)) = h(y) \o d.message
    BY <1>1 DEF Bytes
  <2>3. \A y \in 0 .. Word - 1 : h(y) \in Seq(Nat) /\ Len(h(y)) = 6 /\ h(y)[5] = d.seq /\ h(y)[6] = 0
    <3> SUFFICES ASSUME NEW y \in 0 .. Word - 1 PROVE y % Base \in Nat /\ y \div Base \in Nat
      BY <2>1 DEF Datagrams
    <3> QED
      BY WordIs, Division
  <2> HIDE DEF h, set
  <2>4. ASSUME NEW y \in 0 .. Word - 1
        PROVE  (h(y) \o d.message)[k] = IF k <= 6 THEN h(y)[k] ELSE d.message[k - 6]
    <3>1. h(y) \in Seq(Nat) /\ Len(h(y)) = 6 /\ k \in 1 .. 6 + Len(d.message)
      BY <2>1, <2>3
    <3> QED
      BY <2>1, <3>1, Behind
  <2>5. k <= 6 => k = 5 \/ k = 6
    BY <2>1
  <2> QED
    BY <2>1, <2>2, <2>3, <2>4, <2>5
<1>4. ASSUME NEW x \in 0 .. Word - 1
      PROVE  Len(w(x)) = Len(w(0)) /\ \A k \in 3 .. Len(w(x)) : w(x)[k] = w(0)[k]
  <2>1. 0 \in 0 .. Word - 1 /\ Len(d.message) \in Nat
    BY WordIs DEF Datagrams
  <2> HIDE DEF w, set
  <2>2. Len(w(x)) = Len(w(0))
    BY <1>2, <2>1
  <2>3. ASSUME NEW k \in 3 .. Len(w(x)) PROVE w(x)[k] = w(0)[k]
    <3>0. k \in 3 .. (7 + Len(d.message)) \div 2
      BY <1>2
    <3>1. 2 * k - 1 \in 5 .. 6 + Len(d.message)
      BY <2>1, <3>0, OddByte
    <3>2. 2 * k <= 6 + Len(d.message) => 2 * k \in 5 .. 6 + Len(d.message)
      BY <2>1
    <3>3. Bytes(set(x))[2 * k - 1] = Bytes(set(0))[2 * k - 1]
      BY <1>3, <3>1
    <3>4. 2 * k <= 6 + Len(d.message) => Bytes(set(x))[2 * k] = Bytes(set(0))[2 * k]
      BY <1>3, <3>2
    <3>5. w(x)[k] = Bytes(set(x))[2 * k - 1]
                    + IF 2 * k <= 6 + Len(d.message) THEN Base * Bytes(set(x))[2 * k] ELSE 0
      BY <1>2
    <3>6. w(0)[k] = Bytes(set(0))[2 * k - 1]
                    + IF 2 * k <= 6 + Len(d.message) THEN Base * Bytes(set(0))[2 * k] ELSE 0
      BY <1>2, <2>1, <2>2
    <3> QED
      BY <3>3, <3>4, <3>5, <3>6
  <2> QED
    BY <2>2, <2>3
<1>5. ASSUME NEW x \in 0 .. Word - 1
      PROVE  /\ Rest(x) \in Seq(Nat)
             /\ sum[w(x)] = d.type + (x + sum[Rest(x)])
  <2> HIDE DEF w
  <2>1. /\ w(x) \in Seq(Nat) /\ w(x) # <<>> /\ Head(w(x)) = d.type
        /\ Tail(w(x)) \in Seq(Nat) /\ Tail(w(x)) # <<>> /\ Head(Tail(w(x))) = x
        /\ Tail(Tail(w(x))) \in Seq(Nat)
    BY <1>2, ThirdTail
  <2>2. sum[w(x)] = d.type + sum[Tail(w(x))]
    BY <2>1, SumStep
  <2>3. sum[Tail(w(x))] = x + sum[Rest(x)]
    BY <2>1, SumStep
  <2> QED
    BY <2>1, <2>2, <2>3
<1>6. Rest(c) = Rest(0)
  <2>1. 0 \in 0 .. Word - 1
    BY WordIs
  <2> HIDE DEF w
  <2>2. Len(w(c)) = Len(w(0)) /\ Len(w(c)) > 2 /\ w(c) \in Seq(Nat) /\ w(0) \in Seq(Nat)
    BY <1>2, <1>4, <2>1
  <2>3. /\ Rest(c) \in Seq(Nat) /\ Len(Rest(c)) = Len(w(c)) - 2
        /\ \A k \in 1 .. Len(w(c)) - 2 : Rest(c)[k] = w(c)[k + 2]
    BY <2>2, ThirdTail
  <2>4. /\ Rest(0) \in Seq(Nat) /\ Len(Rest(0)) = Len(w(0)) - 2
        /\ \A k \in 1 .. Len(w(0)) - 2 : Rest(0)[k] = w(0)[k + 2]
    BY <2>2, ThirdTail
  <2>5. \A k \in 1 .. Len(w(c)) - 2 : w(c)[k + 2] = w(0)[k + 2]
    <3>1. \A k \in 1 .. Len(w(c)) - 2 : k + 2 \in 3 .. Len(w(c))
      BY <2>2
    <3> QED
      BY <1>4, <3>1
  <2> HIDE DEF Rest
  <2>6. Len(Rest(c)) = Len(Rest(0)) /\ \A k \in 1 .. Len(Rest(c)) : Rest(c)[k] = Rest(0)[k]
    BY <2>2, <2>3, <2>4, <2>5
  <2> QED
    BY <2>3, <2>4, <2>6, SameSeq
<1>7. d.type \in Nat /\ 0 \in 0 .. Word - 1
  BY WordIs DEF Datagrams
<1>8. sum[Rest(0)] \in Nat /\ sum[w(0)] = d.type + (0 + sum[Rest(0)])
      /\ sum[w(c)] = d.type + (c + sum[Rest(0)])
  BY <1>5, <1>6, <1>7, SumStep
<1> HIDE DEF w, Rest
<1>9. sum[w(0)] \in Nat /\ sum[w(c)] = sum[w(0)] + c
  BY <1>7, <1>8
<1> QED
  BY <1>9 DEF w

(* What is sent with the checksum of its bytes is good where it arrives. *)
LEMMA ChecksumIsGood ==
  ASSUME NEW d \in Datagrams
  PROVE  WithChecksum(d) \in Datagrams /\ Good(WithChecksum(d))
<1> DEFINE s == sum[Words(Bytes([d EXCEPT !.checksum = 0]))]
           w == Word - 1
           c == w - fold[s]
<1>1. w \in Nat /\ w > 0
  BY WordIs
<1>2. s \in Nat
  <2>1. 0 \in 0 .. Word - 1
    BY WordIs
  <2> QED
    BY <2>1, ChecksumAdds
<1> HIDE DEF s
<1>3. fold[s] \in 0 .. w /\ c \in 0 .. Word - 1 /\ c \in Nat
  BY <1>2, FoldIsRemainder, WordIs
<1>4. WithChecksum(d) = [d EXCEPT !.checksum = c]
  BY DEF WithChecksum, internet_checksum, s
<1>5. WithChecksum(d) \in Datagrams
  <2> HIDE DEF c
  <2> QED
    BY <1>3, <1>4 DEF Datagrams
<1>6. sum[Words(Bytes(WithChecksum(d)))] = s + c
  <2> HIDE DEF c
  <2> QED
    BY <1>3, <1>4, ChecksumAdds DEF s
<1>7. s + c \in Nat /\ s + c > 0
  <2>1. s = 0 => fold[s] = 0
    BY FoldStep, WordIs
  <2> QED
    BY <1>1, <1>2, <1>3, <2>1
<1>8. PICK k \in Nat : s = fold[s] + k * w
  BY <1>2, FoldIsRemainder
<1>9. PICK l \in Nat : s + c = fold[s + c] + l * w
  BY <1>7, FoldIsRemainder
<1>10. fold[s + c] \in 0 .. w /\ fold[s + c] > 0
  BY <1>7, FoldIsRemainder
<1>11. s + c = (k + 1) * w
  BY <1>1, <1>2, <1>3, <1>8
<1>12. fold[s + c] = w
  <2> DEFINE f == fold[s + c]
             m == k + 1 - l
  <2>1. f \in 1 .. w /\ m \in Int
    BY <1>10
  <2>2. f = m * w
    <3>1. (k + 1) * w = f + l * w /\ f \in Int
      BY <1>9, <1>11, <2>1
    <3> HIDE DEF f, w
    <3>2. m * w = (k + 1) * w - l * w
      BY <1>1
    <3>3. l * w \in Int /\ (k + 1) * w \in Int
      BY <1>1
    <3> QED
      BY <3>1, <3>2, <3>3
  <2> HIDE DEF f
  <2> HIDE DEF m
  <2>3. m > 0
    BY <1>1, <2>1, <2>2
  <2>4. m < 2
    BY <1>1, <2>1, <2>2
  <2>5. m = 1
    BY <2>1, <2>3, <2>4
  <2> QED
    BY <1>1, <2>2, <2>5 DEF f
<1>13. Good(WithChecksum(d))
  BY <1>1, <1>6, <1>12 DEF Good, internet_checksum
<1> QED
  BY <1>5, <1>13

-----------------------------------------------------------------------------
(* The datagrams on their way *)

Sound == {d \in Datagrams : Good(d)}

Travelling == /\ message \in Seq(0 .. Base - 1)
              /\ i \in Nat
              /\ queue \in Seq(Sound)
              /\ inbox \in Seq(Sound)
              /\ net \subseteq Sound

LEMMA Sealed ==
  ASSUME NEW d \in [type : Nat, seq : Nat, checksum : Nat, message : Seq(0 .. Base - 1)],
         d.checksum \in 0 .. Word - 1
  PROVE  WithChecksum(d) \in Sound
<1>1. d \in Datagrams
  BY DEF Datagrams
<1> QED
  BY <1>1, ChecksumIsGood DEF Sound

LEMMA RequestIsSound == Travelling => \A n \in Nat : Datagram(n) \in Sound
<1> SUFFICES ASSUME Travelling, NEW n \in Nat PROVE Datagram(n) \in Sound
  OBVIOUS
<1>1. 0 \in 0 .. Word - 1 /\ ICMP_ECHO \in Nat
  BY WordIs DEF ICMP_ECHO
<1> QED
  BY <1>1, Sealed DEF Datagram, Travelling

(* Turning the text around keeps its characters. *)
LEMMA SwapIsText ==
  ASSUME NEW m \in Seq(0 .. Base - 1)
  PROVE  swap_bytes(m) \in Seq(0 .. Base - 1)
<1>1. \A k \in 1 .. Len(m) : Len(m) + 1 - k \in 1 .. Len(m)
  OBVIOUS
<1>2. \A k \in 1 .. Len(m) : m[Len(m) + 1 - k] \in 0 .. Base - 1
  BY <1>1, ElementOfSeq
<1> QED
  BY <1>2 DEF swap_bytes

LEMMA ChangeIsSound ==
  ASSUME NEW d \in Sound, ~Short(d)
  PROVE  change_packet(d) \in Sound
<1> DEFINE S == 0 .. Base - 1
           a == SubSeq(d.message, 1, TimeStamp)
           b == SubSeq(d.message, TimeStamp + 1, Len(d.message))
<1>1. d.message \in Seq(S) /\ d \in Datagrams
  BY DEF Sound, Datagrams
<1>2. TimeStamp \in Nat /\ Len(d.message) \in Nat /\ TimeStamp < Len(d.message)
  BY <1>1, IcmpAssumption DEF Short
<1>3. a \in Seq(S)
  <2>1. \A k \in 1 .. TimeStamp : d.message[k] \in S
    <3>1. \A n \in 1 .. Len(d.message) : d.message[n] \in S
      BY <1>1, ElementOfSeq
    <3> QED
      BY <1>2, <3>1
  <2> QED
    BY <1>1, <1>2, <2>1, SubSeqProperties
<1>4. b \in Seq(S)
  <2>1. \A k \in TimeStamp + 1 .. Len(d.message) : d.message[k] \in S
    <3>1. \A n \in 1 .. Len(d.message) : d.message[n] \in S
      BY <1>1, ElementOfSeq
    <3> QED
      BY <1>2, <3>1
  <2> QED
    BY <1>1, <1>2, <2>1, SubSeqProperties
<1> HIDE DEF a, b
<1>5. a \o swap_bytes(b) \in Seq(S)
  BY <1>3, <1>4, SwapIsText, ConcatProperties
<1> DEFINE e == [d EXCEPT !.message = a \o swap_bytes(b)]
<1>6. e \in Datagrams
  BY <1>1, <1>5 DEF Datagrams
<1>7. change_packet(d) = WithChecksum(e)
  BY DEF change_packet, a, b
<1> HIDE DEF e
<1> QED
  BY <1>6, <1>7, ChecksumIsGood DEF Sound

LEMMA AnswerIsSound ==
  ASSUME NEW d \in Sound
  PROVE  WithChecksum([d EXCEPT !.type = ICMP_ECHOREPLY]) \in Sound
<1>1. [d EXCEPT !.type = ICMP_ECHOREPLY] \in Datagrams
  BY DEF Sound, Datagrams, ICMP_ECHOREPLY
<1> QED
  BY <1>1, ChecksumIsGood DEF Sound

LEMMA UnrelatedIsSound == Unrelated \in Sound
<1>1. 0 \in 0 .. Word - 1 /\ ICMP_DEST_UNREACH \in Nat
  BY WordIs DEF ICMP_DEST_UNREACH
<1>2. <<>> \in Seq(0 .. Base - 1)
  OBVIOUS
<1> QED
  BY <1>1, <1>2, Sealed DEF Unrelated

LEMMA TravellingInit == Init => Travelling
<1> SUFFICES ASSUME Init PROVE Travelling
  OBVIOUS
<1>1. message \in Seq(0 .. Base - 1)
  BY IcmpAssumption DEF Init
<1> QED
  BY <1>1 DEF Init, Travelling

LEMMA TravellingNext == Travelling /\ [Next]_vars => Travelling'
<1> SUFFICES ASSUME Travelling, [Next]_vars PROVE Travelling'
  OBVIOUS
<1> USE DEF Travelling
<1>1. CASE Fork \/ Resolve \/ ResolveFails \/ Wait
  BY <1>1 DEF Fork, Resolve, ResolveFails, Wait, path, child
<1>2. CASE SendRequest
  <2>1. message' = message /\ i' = i + 1 /\ i' \in Nat /\ inbox' = inbox
    BY <1>2 DEF SendRequest, child
  <2>2. Datagram(i') \in Sound
    BY <2>1, RequestIsSound
  <2>3. \/ net' = net \cup {Datagram(i')} /\ queue' = queue
        \/ queue' = Append(queue, Datagram(i')) /\ net' = net
        \/ queue' = queue /\ net' = net
    BY <1>2 DEF SendRequest, Enqueue
  <2> DEFINE d == Datagram(i')
  <2>4. d \in Sound /\ queue \in Seq(Sound) /\ net \subseteq Sound
    BY <2>2
  <2>5. net' \subseteq Sound /\ queue' \in Seq(Sound)
    <3> HIDE DEF d, Travelling
    <3>1. Append(queue, d) \in Seq(Sound)
      BY <2>4, AppendProperties
    <3> QED
      BY <2>3, <2>4, <3>1 DEF d
  <2> QED
    BY <2>1, <2>5
<1>3. CASE Child
  <2>1. <<>> \in Seq(Sound) /\ (inbox # <<>> => Tail(inbox) \in Seq(Sound))
    OBVIOUS
  <2>2. inbox' = <<>> \/ (inbox # <<>> /\ inbox' = Tail(inbox))
    BY <1>3 DEF Child, Socket, Recvfrom, RecvfromFails
  <2>3. inbox' \in Seq(Sound)
    <3> HIDE DEF Travelling
    <3> QED
      BY <2>1, <2>2
  <2> QED
    BY <1>3, <2>3 DEF Child, Socket, Recvfrom, RecvfromFails, path, parent
<1>4. CASE Handle
  <2> DEFINE d == Head(queue)
  <2>1. d \in Sound /\ Tail(queue) \in Seq(Sound)
    BY <1>4 DEF Handle
  <2>2. message' = message /\ i' = i /\ inbox' = inbox
    BY <1>4 DEF Handle, parent, child
  <2>3. CASE program = "queuemod" /\ Short(d)
    BY <1>4, <2>2, <2>3 DEF Handle
  <2>4. CASE ~(program = "queuemod" /\ Short(d))
    <3>1. (IF program = "queuemod" THEN change_packet(d) ELSE d) \in Sound
      <4> HIDE DEF d
      <4> QED
        BY <2>1, <2>4, ChangeIsSound
    <3>2. queue' = Tail(queue) /\ net' = net \cup {IF program = "queuemod" THEN change_packet(d) ELSE d}
      BY <1>4, <2>4 DEF Handle
    <3> HIDE DEF d
    <3> QED
      BY <2>1, <2>2, <3>1, <3>2
  <2> QED
    BY <2>3, <2>4
<1>5. CASE ProgramEnds
  BY <1>5 DEF ProgramEnds, parent, child
<1>6. CASE Network
  <2> SUFFICES ASSUME NEW d \in net, Lose(d) \/ Answer(d) \/ Arrive(d) PROVE Travelling'
    BY <1>6 DEF Network
  <2>1. WithChecksum([d EXCEPT !.type = ICMP_ECHOREPLY]) \in Sound
    BY AnswerIsSound
  <2>2. message' = message /\ i' = i /\ queue' = queue
    BY DEF Lose, Answer, Arrive, parent
  <2>3. \/ net' = net \ {d}
        \/ net' = (net \ {d}) \cup {WithChecksum([d EXCEPT !.type = ICMP_ECHOREPLY])}
    BY DEF Lose, Answer, Arrive
  <2>4. net' \subseteq Sound
    <3> DEFINE e == WithChecksum([d EXCEPT !.type = ICMP_ECHOREPLY])
    <3>1. e \in Sound /\ (net' = net \ {d} \/ net' = (net \ {d}) \cup {e})
      BY <2>1, <2>3
    <3> HIDE DEF e
    <3> QED
      BY <3>1
  <2>5. inbox' \in Seq(Sound)
    <3>1. d \in Sound /\ Append(inbox, d) \in Seq(Sound)
      BY AppendProperties
    <3>2. inbox' = inbox \/ inbox' = Append(inbox, d)
      BY DEF Lose, Answer, Arrive, child
    <3> QED
      BY <3>1, <3>2
  <2> QED
    BY <2>2, <2>4, <2>5
<1>7. CASE Stray
  <2>1. Append(inbox, Unrelated) \in Seq(Sound)
    BY UnrelatedIsSound, AppendProperties
  <2>2. UNCHANGED <<message, i, queue, net>> /\ inbox' = Append(inbox, Unrelated)
    BY <1>7 DEF Stray, parent, path
  <2> QED
    BY <2>1, <2>2
<1>8. CASE UNCHANGED vars
  BY <1>8 DEF vars, parent, path, child
<1> QED
  BY <1>1, <1>2, <1>3, <1>4, <1>5, <1>6, <1>7, <1>8 DEF Next, Parent, Program

(* Whatever the bytes of a message and however many carries their sum has,   *)
(* queuemod and the host that answers put a checksum on it that the next     *)
(* receiver finds good (checksum.h 12-30, libqueue.c 3-21, queuemod.c        *)
(* 135-183).                                                                  *)
THEOREM ChecksumsCorrect == Spec => []ChecksumsHold
<1>1. Travelling => ChecksumsHold
  BY DEF Travelling, Sound, ChecksumsHold
<1> QED
  BY <1>1, TravellingInit, TravellingNext, PTL DEF Spec

(* The parent waits for its child or kills it: nobody answers to the terminal *)
(* after ping has returned (ping.c 83-117, 149-157).                          *)
THEOREM NoChildLeft == Spec => []ChildEndsFirst
<1>1. Init => ChildEndsFirst
  BY DEF Init, ChildEndsFirst
<1>2. ChildEndsFirst /\ [Next]_vars => ChildEndsFirst'
  <2> SUFFICES ASSUME ChildEndsFirst, [Next]_vars PROVE ChildEndsFirst'
    OBVIOUS
  <2> USE DEF ChildEndsFirst
  <2>1. CASE Parent
    BY <2>1 DEF Parent, Fork, Resolve, ResolveFails, SendRequest, Wait, child
  <2>2. CASE Child
    BY <2>2 DEF Child, Socket, Recvfrom, RecvfromFails, Received, parent
  <2>3. CASE Program
    BY <2>3 DEF Program, Handle, ProgramEnds, parent, child
  <2>4. CASE Network
    BY <2>4 DEF Network, Lose, Answer, Arrive, parent, child
  <2>5. CASE Stray
    BY <2>5 DEF Stray, parent
  <2>6. CASE UNCHANGED vars
    BY <2>6 DEF vars, parent, child
  <2> QED
    BY <2>1, <2>2, <2>3, <2>4, <2>5, <2>6 DEF Next
<1> QED
  BY <1>1, <1>2, PTL DEF Spec

-----------------------------------------------------------------------------
(* What became of each request *)

UnderWay == ({d.seq : d \in net} \ {0}) \cup Numbers(queue) \cup Numbers(inbox)
Placed == lost \cup missed \cup UnderWay

(* Sent, and nowhere any more: read by the child. *)
Consumed == (1 .. i) \ Placed

Counting ==
  /\ i \in 0 .. Count
  /\ ppc = "fork" => cpc = "none" /\ got = 0
  /\ ppc \in {"fork", "resolve", "send"} => i < Count
  /\ ppc = "wait" => i = Count
  /\ got \in 0 .. Count
  /\ cpc \in {"sleep", "open", "recvfrom"} => got < Count

LEMMA NumbersOfTail ==
  ASSUME NEW s \in Seq(Sound), s # <<>>
  PROVE  Numbers(s) = ({Head(s).seq} \ {0}) \cup Numbers(Tail(s))
<1>1. /\ Head(s) = s[1] /\ Len(s) \in Nat /\ Len(s) > 0
      /\ Tail(s) \in Seq(Sound) /\ Len(Tail(s)) = Len(s) - 1
      /\ \A k \in 1 .. Len(s) - 1 : Tail(s)[k] = s[k + 1]
  OBVIOUS
<1>2. DOMAIN s = 1 .. Len(s) /\ DOMAIN Tail(s) = 1 .. Len(s) - 1
  BY <1>1
<1>3. ASSUME NEW k \in 1 .. Len(s) PROVE k = 1 \/ (k - 1 \in 1 .. Len(s) - 1 /\ Tail(s)[k - 1] = s[k])
  BY <1>1
<1>4. ASSUME NEW k \in 1 .. Len(s) - 1 PROVE k + 1 \in 1 .. Len(s) /\ Tail(s)[k] = s[k + 1]
  BY <1>1
<1>5. ASSUME NEW k \in DOMAIN s PROVE s[k].seq \in {0, Head(s).seq} \cup Numbers(Tail(s))
  <2>1. CASE k = 1
    BY <1>1, <2>1
  <2>2. CASE k # 1
    <3>1. k - 1 \in DOMAIN Tail(s) /\ Tail(s)[k - 1] = s[k]
      BY <1>2, <1>3, <2>2
    <3> QED
      BY <3>1 DEF Numbers
  <2> QED
    BY <2>1, <2>2
<1>6. Numbers(Tail(s)) \subseteq Numbers(s) /\ Head(s).seq \in {0} \cup Numbers(s)
  BY <1>1, <1>2, <1>4 DEF Numbers
<1> QED
  BY <1>5, <1>6 DEF Numbers

LEMMA NumbersOfAppend ==
  ASSUME NEW s \in Seq(Sound), NEW d \in Sound
  PROVE  Numbers(Append(s, d)) = Numbers(s) \cup ({d.seq} \ {0})
<1>1. /\ Len(s) \in Nat /\ DOMAIN s = 1 .. Len(s) /\ DOMAIN Append(s, d) = 1 .. Len(s) + 1
      /\ \A k \in 1 .. Len(s) : Append(s, d)[k] = s[k]
      /\ Append(s, d)[Len(s) + 1] = d
  BY AppendProperties
<1>2. 1 .. Len(s) + 1 = (1 .. Len(s)) \cup {Len(s) + 1}
  BY <1>1
<1> QED
  BY <1>1, <1>2 DEF Numbers

LEMMA CountingInit == Init => Counting
  BY IcmpAssumption DEF Init, Counting

LEMMA CountingNext == Counting /\ [Next]_vars => Counting'
<1> SUFFICES ASSUME Counting, [Next]_vars PROVE Counting'
  OBVIOUS
<1>0. Count \in Nat /\ Count > 0
  BY IcmpAssumption
<1> USE DEF Counting
<1>1. CASE Fork \/ Resolve \/ ResolveFails \/ Wait
  BY <1>0, <1>1 DEF Fork, Resolve, ResolveFails, Wait, child
<1>2. CASE SendRequest
  BY <1>0, <1>2 DEF SendRequest, child
<1>3. CASE Child
  BY <1>0, <1>3 DEF Child, Socket, Recvfrom, RecvfromFails, Received, parent
<1>4. CASE Program
  BY <1>4 DEF Program, Handle, ProgramEnds, parent, child
<1>5. CASE Network
  BY <1>5 DEF Network, Lose, Answer, Arrive, parent, child
<1>6. CASE Stray
  BY <1>6 DEF Stray, parent
<1>7. CASE UNCHANGED vars
  BY <1>7 DEF vars, parent, child
<1> QED
  BY <1>1, <1>2, <1>3, <1>4, <1>5, <1>6, <1>7 DEF Next, Parent

(* A request that has a place keeps one, unless the child reads its reply. *)
LEMMA PlacesKept ==
  Travelling /\ [Next]_vars =>
    \/ Consumed' \subseteq Consumed /\ got' \in {got, got + 1}
    \/ got' = got + 1 /\ \E n \in Nat : Consumed' \subseteq Consumed \cup {n}
<1> SUFFICES ASSUME Travelling, [Next]_vars
             PROVE  \/ Consumed' \subseteq Consumed /\ got' \in {got, got + 1}
                    \/ got' = got + 1 /\ \E n \in Nat : Consumed' \subseteq Consumed \cup {n}
  OBVIOUS
<1> USE DEF Consumed, Placed, UnderWay
<1>1. CASE Fork \/ Resolve \/ ResolveFails \/ Wait
  BY <1>1 DEF Fork, Resolve, ResolveFails, Wait, path, child, Numbers
<1>2. CASE SendRequest
  <2> DEFINE d == Datagram(i')
  <2>1. i \in Nat /\ i' = i + 1 /\ i' \in Nat /\ UNCHANGED <<inbox, missed, got>>
    BY <1>2 DEF SendRequest, Travelling, child
  <2>2. d \in Sound /\ d.seq = i'
    BY <2>1, RequestIsSound DEF Datagram, WithChecksum
  <2>3. \/ net' = net \cup {d} /\ UNCHANGED <<queue, lost>>
        \/ queue' = Append(queue, d) /\ UNCHANGED <<net, lost>>
        \/ lost' = lost \cup {i'} /\ UNCHANGED <<queue, net>>
    BY <1>2, <2>2 DEF SendRequest, Enqueue
  <2>4. Numbers(Append(queue, d)) = Numbers(queue) \cup ({i'} \ {0})
    BY <2>2, NumbersOfAppend DEF Travelling
  <2>5. Numbers(inbox') = Numbers(inbox)
    BY <2>1
  <2>6. Placed \subseteq Placed' /\ i' \in {0} \cup Placed'
    <3> HIDE DEF d
    <3> QED
      BY <2>1, <2>2, <2>3, <2>4, <2>5 DEF d
  <2>7. 1 .. i' = (1 .. i) \cup {i'}
    BY <2>1
  <2>8. Consumed' \subseteq Consumed
    <3> HIDE DEF Placed
    <3> QED
      BY <2>6, <2>7
  <2> QED
    BY <2>1, <2>8
<1>3. CASE Socket \/ RecvfromFails
  <2>1. /\ missed' = missed \cup Numbers(inbox) /\ Numbers(inbox') = {}
        /\ UNCHANGED <<i, queue, net, lost>> /\ got' \in {got, got + 1}
    BY <1>3 DEF Socket, RecvfromFails, Numbers, parent, path
  <2> QED
    BY <2>1
<1>4. CASE Recvfrom
  <2> DEFINE n == Head(inbox).seq
  <2>1. inbox \in Seq(Sound) /\ inbox # <<>> /\ inbox' = Tail(inbox)
    BY <1>4 DEF Recvfrom, Travelling
  <2>2. Numbers(inbox) \subseteq {n} \cup Numbers(inbox')
    BY <2>1, NumbersOfTail
  <2>3. n \in Nat
    BY <2>1 DEF Sound, Datagrams
  <2>4. UNCHANGED <<i, queue, net, lost, missed>> /\ got' = got + 1
    BY <1>4 DEF Recvfrom, parent, path
  <2> HIDE DEF n
  <2>5. Consumed' \subseteq Consumed \cup {n}
    BY <2>2, <2>4
  <2> QED
    BY <2>3, <2>4, <2>5
<1>5. CASE Handle
  <2> DEFINE d == Head(queue)
             e == IF program = "queuemod" THEN change_packet(d) ELSE d
  <2>1. queue \in Seq(Sound) /\ queue # <<>> /\ UNCHANGED <<i, inbox, missed, got>>
    BY <1>5 DEF Handle, Travelling, parent, child
  <2>2. Numbers(queue) = ({d.seq} \ {0}) \cup Numbers(Tail(queue))
    BY <2>1, NumbersOfTail
  <2>3. e.seq = d.seq
    <3>1. d \in Datagrams
      BY <2>1 DEF Sound
    <3> HIDE DEF d
    <3> QED
      BY <3>1 DEF change_packet, WithChecksum, Datagrams
  <2>4. \/ lost' = lost \cup Numbers(queue) /\ net' = net /\ queue' = <<>>
        \/ net' = net \cup {e} /\ queue' = Tail(queue) /\ lost' = lost
    BY <1>5 DEF Handle, Numbers
  <2> HIDE DEF d, e
  <2>5. Placed \subseteq Placed'
    BY <2>1, <2>2, <2>3, <2>4
  <2> QED
    BY <2>1, <2>5
<1>6. CASE ProgramEnds
  <2>1. lost' = lost \cup Numbers(queue) /\ UNCHANGED <<i, net, inbox, missed, got>>
    BY <1>6 DEF ProgramEnds, Numbers, parent, child
  <2> QED
    BY <2>1
<1>7. CASE Network
  <2> SUFFICES ASSUME NEW d \in net, Lose(d) \/ Answer(d) \/ Arrive(d)
               PROVE  Consumed' \subseteq Consumed /\ got' = got
    BY <1>7 DEF Network
  <2> DEFINE e == WithChecksum([d EXCEPT !.type = ICMP_ECHOREPLY])
  <2>1. d \in Sound /\ e.seq = d.seq
    <3>1. d \in Sound
      BY DEF Travelling
    <3> QED
      BY <3>1 DEF WithChecksum, Sound, Datagrams
  <2>2. Numbers(Append(inbox, d)) = Numbers(inbox) \cup ({d.seq} \ {0})
    BY <2>1, NumbersOfAppend DEF Travelling
  <2>3. UNCHANGED <<i, queue, got>>
    BY DEF Lose, Answer, Arrive, parent, child
  <2>4. \/ net' = net \ {d} /\ lost' = lost \cup {d.seq} /\ UNCHANGED <<inbox, missed>>
        \/ net' = (net \ {d}) \cup {e} /\ UNCHANGED <<inbox, missed, lost>>
        \/ net' = net \ {d} /\ inbox' = Append(inbox, d) /\ UNCHANGED <<missed, lost>>
        \/ net' = net \ {d} /\ missed' = missed \cup {d.seq} /\ UNCHANGED <<inbox, lost>>
    BY DEF Lose, Answer, Arrive, child
  <2> HIDE DEF e
  <2>5. Placed \subseteq Placed'
    BY <2>1, <2>2, <2>3, <2>4
  <2> QED
    BY <2>3, <2>5
<1>8. CASE Stray
  <2>1. UNCHANGED <<i, queue, net, lost, missed, got>> /\ inbox' = Append(inbox, Unrelated)
    BY <1>8 DEF Stray, parent, path
  <2>2. Numbers(inbox) \subseteq Numbers(Append(inbox, Unrelated))
    BY UnrelatedIsSound, NumbersOfAppend DEF Travelling
  <2> QED
    BY <2>1, <2>2
<1>9. CASE UNCHANGED vars
  BY <1>9 DEF vars, parent, child, path, Numbers
<1> QED
  BY <1>1, <1>2, <1>3, <1>4, <1>5, <1>6, <1>7, <1>8, <1>9 DEF Next, Parent, Child, Program

Accounted == Cardinality(Consumed) <= got

LEMMA AccountedInit == Init => Accounted
<1> SUFFICES ASSUME Init PROVE Accounted
  OBVIOUS
<1>1. Consumed = {} /\ got = 0
  BY DEF Init, Consumed
<1> QED
  BY <1>1, FS_EmptySet DEF Accounted

LEMMA AccountedNext == Accounted /\ Travelling /\ Counting /\ [Next]_vars => Accounted'
<1> SUFFICES ASSUME Accounted, Travelling, Counting, [Next]_vars PROVE Accounted'
  OBVIOUS
<1>1. IsFiniteSet(Consumed) /\ Cardinality(Consumed) \in Nat /\ got \in Nat
  <2>1. IsFiniteSet(1 .. i) /\ Consumed \in SUBSET (1 .. i) /\ got \in Nat
    BY FS_Interval, IcmpAssumption DEF Counting, Consumed
  <2> QED
    BY <2>1, FS_Subset, FS_CardinalityType
<1>2. CASE Consumed' \subseteq Consumed /\ got' \in {got, got + 1}
  <2>1. Cardinality(Consumed') <= Cardinality(Consumed) /\ Cardinality(Consumed') \in Nat
    BY <1>1, <1>2, FS_Subset, FS_CardinalityType
  <2> QED
    BY <1>1, <1>2, <2>1 DEF Accounted
<1>3. CASE got' = got + 1 /\ \E n \in Nat : Consumed' \subseteq Consumed \cup {n}
  <2> PICK n \in Nat : Consumed' \subseteq Consumed \cup {n}
    BY <1>3
  <2> DEFINE S == Consumed \cup {n}
  <2>1. IsFiniteSet(S) /\ Cardinality(S) <= Cardinality(Consumed) + 1 /\ Cardinality(S) \in Nat
    <3>1. /\ IsFiniteSet(S)
          /\ Cardinality(S) = IF n \in Consumed THEN Cardinality(Consumed) ELSE Cardinality(Consumed) + 1
      BY <1>1, FS_AddElement
    <3> HIDE DEF S
    <3> QED
      BY <1>1, <3>1
  <2> HIDE DEF S
  <2>2. Cardinality(Consumed') <= Cardinality(S) /\ Cardinality(Consumed') \in Nat
    BY <2>1, FS_Subset, FS_CardinalityType DEF S
  <2> QED
    BY <1>1, <1>3, <2>1, <2>2 DEF Accounted
<1> QED
  BY <1>2, <1>3, PlacesKept

(* ping has no timeout, so a child that waits when nothing is under way waits  *)
(* for ever.  That happens only when a datagram was dropped, or came while no  *)
(* socket, or an earlier one, was there to receive it (ping.c 32-54, 121-157). *)
WaitsOnlyForLost ==
  ppc = "wait" /\ cpc \in {"sleep", "open", "recvfrom"} /\ UnderWay = {} => lost \cup missed # {}

THEOREM NothingVanishes == Spec => []WaitsOnlyForLost
<1>1. Accounted /\ Counting => WaitsOnlyForLost
  <2> SUFFICES ASSUME Accounted, Counting, ppc = "wait", cpc \in {"sleep", "open", "recvfrom"},
                      UnderWay = {}, lost \cup missed = {}
               PROVE  FALSE
    BY DEF WaitsOnlyForLost
  <2>1. Consumed = 1 .. i /\ i = Count /\ Count \in Nat /\ got < Count /\ got \in Nat
    BY IcmpAssumption DEF Counting, Consumed, Placed
  <2>2. Cardinality(1 .. i) = i
    BY <2>1, FS_Interval
  <2> QED
    BY <2>1, <2>2 DEF Accounted
<1> QED
  BY <1>1, TravellingInit, TravellingNext, CountingInit, CountingNext, AccountedInit,
     AccountedNext, PTL DEF Spec
===============================================================================
