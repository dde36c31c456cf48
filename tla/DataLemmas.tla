----------------------------- MODULE DataLemmas -----------------------------
(***************************************************************************)
(* What the proofs need to know of numbers, places and sequences, whatever *)
(* they are used for.  Where induction is needed it is an argument from    *)
(* the least number that fails.                                            *)
(***************************************************************************)
EXTENDS Integers, Sequences, FiniteSets, SequencesExt, WellFoundedInduction, SequenceTheorems,
        FiniteSetTheorems, TLAPS

\* A set of numbers that has one has a least one.
LEMMA LeastNat ==
    ASSUME NEW T \in SUBSET Nat, T # {}
    PROVE  \E n \in T : \A m \in T : n <= m
  <1> DEFINE R == OpToRel(<, Nat)
  <1>1. IsWellFoundedOn(R, Nat)
    BY NatLessThanWellFounded
  <1>2. \A x, y \in Nat : y < x => <<y, x>> \in R
    BY DEF OpToRel
  <1> HIDE DEF R
  <1>3. \E x \in T : \A y \in T : ~ (<<y, x>> \in R)
    BY <1>1, WFMin
  <1>4. PICK n \in T : \A m \in T : ~ (<<m, n>> \in R)
    BY <1>3
  <1>5. ASSUME NEW m \in T PROVE n <= m
    <2>1. m \in Nat /\ n \in Nat /\ ~ (m < n)
      BY <1>2, <1>4
    <2> QED
      BY <2>1
  <1> QED
    BY <1>5

\* The greatest of some numbers up to n.
LEMMA MaxOfPlaces ==
    ASSUME NEW n \in Nat, NEW S \in SUBSET (0..n), S # {}
    PROVE  Max(S) \in S /\ Max(S) \in 0..n /\ \A i \in S : i <= Max(S)
  <1> DEFINE Above == {m \in Nat : \A i \in S : i <= m}
  <1>1. n \in Above
    OBVIOUS
  <1>2. PICK m \in Above : \A k \in Above : m <= k
    BY <1>1, LeastNat
  <1>3. m \in S
    <2>1. SUFFICES ASSUME m \notin S PROVE FALSE
      OBVIOUS
    <2>2. \A i \in S : i \in Nat /\ i <= m /\ i # m
      BY <2>1
    <2>3. m # 0
      <3>1. PICK i \in S : TRUE
        OBVIOUS
      <3> QED
        BY <2>2, <3>1
    <2>4. m - 1 \in Above
      BY <2>2, <2>3
    <2> QED
      BY <1>2, <2>4
  <1>4. \E x \in S : \A y \in S : x >= y
    BY <1>3
  <1> QED
    BY <1>4 DEF Max
\* A place where something fails has a first one before it.
LEMMA FirstFailure ==
    ASSUME NEW n \in Nat, NEW Bad \in SUBSET (0..n), Bad # {}
    PROVE  \E k \in Bad : k \in 0..n /\ \A m \in 0..k - 1 : m \notin Bad
  <1>1. Bad \in SUBSET Nat
    OBVIOUS
  <1>2. PICK k \in Bad : \A m \in Bad : k <= m
    BY <1>1, LeastNat
  <1>3. k \in Nat /\ \A m \in 0..k - 1 : m \in Nat /\ ~ (k <= m)
    BY <1>1, <1>2
  <1> QED
    BY <1>2, <1>3

\* A number divided by another.
LEMMA DivFacts ==
    ASSUME NEW a \in Nat, NEW b \in Nat \ {0}
    PROVE  /\ a \div b \in Nat /\ a % b \in Nat /\ a % b < b
           /\ a = b * (a \div b) + (a % b)
  OBVIOUS

\* Rounded up, the quotient is enough.
LEMMA CeilFacts ==
    ASSUME NEW n \in Nat, NEW w \in Nat \ {0}, NEW per, per = (n + w - 1) \div w
    PROVE  per \in Nat /\ n <= w * per
  <1>1. n + w - 1 \in Nat
    OBVIOUS
  <1>2. /\ per \in Nat /\ (n + w - 1) % w \in Nat /\ (n + w - 1) % w < w
        /\ n + w - 1 = w * per + ((n + w - 1) % w)
    BY <1>1, DivFacts
  <1>3. n <= w * per
    BY <1>2
  <1> QED
    BY <1>2, <1>3

\* Numbers with a property that goes down with them: there are as many as the
\* first without it says.
LEMMA CountBelow ==
    ASSUME NEW w \in Nat, NEW S \in SUBSET (0..w - 1),
           \A i \in S : \A j \in 0..i : j \in S
    PROVE  Cardinality(S) \in 0..w /\ S = 0..Cardinality(S) - 1
  <1> DEFINE Bad == {i \in 0..w : i \notin S}
  <1>1. w \in Bad /\ Bad \in SUBSET (0..w)
    OBVIOUS
  <1>2. PICK k \in Bad : k \in 0..w /\ \A m \in 0..k - 1 : m \notin Bad
    <2> HIDE DEF Bad
    <2> QED
      BY <1>1, FirstFailure
  <1>3. 0..k - 1 \subseteq S
    BY <1>2
  <1>4. ASSUME NEW i \in S PROVE i \in 0..k - 1
    <2>1. i \in 0..w - 1 /\ ~ (k \in 0..i)
      BY <1>2
    <2> QED
      BY <1>2, <2>1
  <1>5. S = 0..k - 1
    BY <1>3, <1>4
  <1>6. Cardinality(0..k - 1) = k
    <2>1. 0 \in Int /\ k - 1 \in Int
      BY <1>2
    <2>2. Cardinality(0..k - 1) = IF 0 > k - 1 THEN 0 ELSE k - 1 - 0 + 1
      BY <2>1, FS_Interval
    <2> QED
      BY <1>2, <2>2
  <1> QED
    BY <1>2, <1>5, <1>6

-----------------------------------------------------------------------------
(***************************************************************************)
(* Sequences one after the other.                                          *)
(***************************************************************************)
LEMMA ConcatFacts ==
    ASSUME NEW S, NEW s \in Seq(S), NEW t \in Seq(S)
    PROVE  /\ s \o t \in Seq(S) /\ Len(s) \in Nat /\ Len(t) \in Nat
           /\ Len(s \o t) = Len(s) + Len(t) /\ DOMAIN (s \o t) = 1..Len(s) + Len(t)
           /\ \A p \in 1..Len(s) : (s \o t)[p] = s[p]
           /\ \A p \in 1..Len(t) : (s \o t)[Len(s) + p] = t[p]
           /\ <<>> \o s = s /\ s \o <<>> = s
           /\ Range(s \o t) = Range(s) \cup Range(t)
  <1>1. /\ s \o t \in Seq(S) /\ Len(s) \in Nat /\ Len(t) \in Nat
        /\ DOMAIN s = 1..Len(s) /\ DOMAIN t = 1..Len(t)
        /\ Len(s \o t) = Len(s) + Len(t) /\ DOMAIN (s \o t) = 1..Len(s) + Len(t)
    OBVIOUS
  <1>2. /\ \A p \in 1..Len(s) : (s \o t)[p] = s[p]
        /\ <<>> \o s = s /\ s \o <<>> = s
    OBVIOUS
  <1>3. ASSUME NEW p \in 1..Len(t) PROVE (s \o t)[Len(s) + p] = t[p]
    <2>1. Len(s) + p \in 1..Len(s) + Len(t) /\ ~ (Len(s) + p <= Len(s)) /\ Len(s) + p - Len(s) = p
      BY <1>1
    <2> QED
      BY <2>1
  <1>4. \A p \in 1..Len(s) + Len(t) : p \in 1..Len(s) \/ \E q \in 1..Len(t) : p = Len(s) + q
    <2> SUFFICES ASSUME NEW p \in 1..Len(s) + Len(t), p \notin 1..Len(s)
                 PROVE  \E q \in 1..Len(t) : p = Len(s) + q
      OBVIOUS
    <2>1. p - Len(s) \in 1..Len(t) /\ p = Len(s) + (p - Len(s))
      BY <1>1
    <2> QED
      BY <2>1
  <1>5. /\ 1..Len(s) \subseteq 1..Len(s) + Len(t)
        /\ \A q \in 1..Len(t) : Len(s) + q \in 1..Len(s) + Len(t)
    BY <1>1
  <1>6. Range(s \o t) = Range(s) \cup Range(t)
    <2>1. ASSUME NEW x \in Range(s \o t) PROVE x \in Range(s) \cup Range(t)
      <3>1. PICK p \in 1..Len(s) + Len(t) : x = (s \o t)[p]
        BY <1>1 DEF Range
      <3>2. CASE p \in 1..Len(s)
        BY <1>1, <1>2, <3>1, <3>2 DEF Range
      <3>3. CASE p \notin 1..Len(s)
        <4>1. PICK q \in 1..Len(t) : p = Len(s) + q
          BY <1>4, <3>3
        <4>2. x = t[q]
          BY <1>3, <3>1, <4>1
        <4> QED
          BY <1>1, <4>2 DEF Range
      <3> QED
        BY <3>2, <3>3
    <2>2. ASSUME NEW p \in 1..Len(s) PROVE s[p] \in Range(s \o t)
      <3>1. p \in DOMAIN (s \o t) /\ (s \o t)[p] = s[p]
        BY <1>1, <1>2, <1>5
      <3> QED
        BY <3>1 DEF Range
    <2>3. ASSUME NEW q \in 1..Len(t) PROVE t[q] \in Range(s \o t)
      <3>1. Len(s) + q \in DOMAIN (s \o t) /\ (s \o t)[Len(s) + q] = t[q]
        BY <1>1, <1>3, <1>5
      <3> QED
        BY <3>1 DEF Range
    <2>4. Range(s) = {s[p] : p \in 1..Len(s)} /\ Range(t) = {t[q] : q \in 1..Len(t)}
      BY <1>1 DEF Range
    <2> QED
      BY <2>1, <2>2, <2>3, <2>4
  <1> QED
    BY <1>1, <1>2, <1>3, <1>6

LEMMA ConcatAssociates ==
    ASSUME NEW S, NEW s \in Seq(S), NEW t \in Seq(S), NEW u \in Seq(S)
    PROVE  s \o (t \o u) = (s \o t) \o u
  BY ConcatAssociative, SMTT(30)

-----------------------------------------------------------------------------
(***************************************************************************)
(* Sequences of sequences.  g adds them up one by one.                     *)
(***************************************************************************)
AddsUp(g, ss) ==
    /\ DOMAIN g = 0..Len(ss)
    /\ g[0] = <<>>
    /\ \A i \in 1..Len(ss) : g[i] = g[i - 1] \o ss[i]

\* What adds up to the end is the flat sequence.
LEMMA FlattenIs ==
    ASSUME NEW ss, Len(ss) \in Nat, Len(ss) = 0 => ss = <<>>, NEW g, AddsUp(g, ss),
           \A i \in 1..Len(ss) : <<>> \o ss[i] = ss[i]
    PROVE  FlattenSeq(ss) = g[Len(ss)]
  <1> DEFINE n == Len(ss)
             Is(f) == f = [i \in 1..n |-> IF i = 1 THEN ss[i] ELSE f[i - 1] \o ss[i]]
             h == [i \in 1..n |-> g[i]]
             flatten[i \in 1..n] == IF i = 1 THEN ss[i] ELSE flatten[i - 1] \o ss[i]
  <1>1. CASE n = 0
    BY <1>1 DEF FlattenSeq, AddsUp
  <1>2. CASE n # 0
    <2>1. \A i \in 1..n : h[i] = IF i = 1 THEN ss[i] ELSE h[i - 1] \o ss[i]
      BY DEF AddsUp
    <2>2. Is(h)
      BY <2>1
    <2>3. ASSUME NEW f, Is(f) PROVE f = h
      <3> DEFINE Bad == {i \in 1..n : f[i] # h[i]}
      <3>1. \A i \in 1..n : f[i] = IF i = 1 THEN ss[i] ELSE f[i - 1] \o ss[i]
        BY <2>3
      <3>2. Bad = {}
        <4>1. SUFFICES ASSUME Bad # {} PROVE FALSE
          OBVIOUS
        <4>2. PICK k \in Bad : k \in 0..n /\ \A m \in 0..k - 1 : m \notin Bad
          <5>1. Bad \in SUBSET (0..n)
            OBVIOUS
          <5> HIDE DEF Bad, h
          <5> QED
            BY <4>1, <5>1, FirstFailure
        <4>3. k # 1 => k - 1 \in 1..n /\ f[k - 1] = h[k - 1]
          BY <4>2
        <4> HIDE DEF h
        <4> QED
          BY <2>1, <3>1, <4>2, <4>3
      <3>3. f = [i \in 1..n |-> f[i]]
        BY <2>3
      <3> QED
        BY <3>2, <3>3
    <2>4. flatten = h
      <3> HIDE DEF h
      <3> QED
        BY <2>2, <2>3
    <2>5. FlattenSeq(ss) = flatten[n]
      BY <1>2 DEF FlattenSeq
    <2>6. h[n] = g[n]
      BY <1>2
    <2> HIDE DEF flatten, h
    <2> QED
      BY <2>4, <2>5, <2>6
  <1> QED
    BY <1>1, <1>2

\* There is always one.
LEMMA FlattenSteps ==
    ASSUME NEW S, NEW ss \in Seq(Seq(S))
    PROVE  \E g \in [0..Len(ss) -> Seq(S)] : AddsUp(g, ss) /\ FlattenSeq(ss) = g[Len(ss)]
  <1> DEFINE n == Len(ss)
             Steps(k, g) == /\ g[0] = <<>>
                            /\ \A i \in 1..k : g[i] = g[i - 1] \o ss[i]
             Bad == {k \in 0..n : ~ \E g \in [0..k -> Seq(S)] : Steps(k, g)}
  <1>1. n \in Nat /\ \A i \in 1..n : ss[i] \in Seq(S)
    OBVIOUS
  <1>2. Bad = {}
    <2>1. SUFFICES ASSUME Bad # {} PROVE FALSE
      OBVIOUS
    <2>2. PICK k \in Bad : k \in 0..n /\ \A m \in 0..k - 1 : m \notin Bad
      <3>1. Bad \in SUBSET (0..n)
        OBVIOUS
      <3> HIDE DEF Bad
      <3> QED
        BY <1>1, <2>1, <3>1, FirstFailure
    <2>3. CASE k = 0
      <3> DEFINE h == [i \in {0} |-> <<>>]
      <3>1. <<>> \in Seq(S) /\ 0..k = {0} /\ 1..k = {}
        BY <2>3
      <3>2. h \in [0..k -> Seq(S)] /\ Steps(k, h)
        BY <3>1
      <3> QED
        BY <2>2, <3>2
    <2>4. CASE k # 0
      <3>1. k - 1 \in 0..n /\ k - 1 \in 0..k - 1 /\ k \in 1..n
        BY <1>1, <2>2, <2>4
      <3>2. PICK g \in [0..k - 1 -> Seq(S)] : Steps(k - 1, g)
        BY <2>2, <3>1
      <3> DEFINE h == [i \in 0..k |-> IF i = k THEN g[k - 1] \o ss[k] ELSE g[i]]
      <3>3. ss[k] \in Seq(S) /\ g[k - 1] \in Seq(S)
        BY <1>1, <3>1, <3>2
      <3>4. h \in [0..k -> Seq(S)]
        BY <1>1, <3>1, <3>2, <3>3
      <3>5. h[0] = <<>>
        BY <3>1, <3>2
      <3>6. ASSUME NEW i \in 1..k PROVE h[i] = h[i - 1] \o ss[i]
        <4>1. i - 1 \in 0..k /\ i - 1 # k /\ i \in 0..k
          BY <1>1, <3>1
        <4>2. h[i - 1] = g[i - 1]
          BY <4>1
        <4>3. CASE i = k
          BY <4>1, <4>2, <4>3
        <4>4. CASE i # k
          <5>1. i \in 1..k - 1 /\ h[i] = g[i]
            BY <1>1, <3>1, <4>1, <4>4
          <5> QED
            BY <3>2, <4>2, <5>1
        <4> QED
          BY <4>3, <4>4
      <3> HIDE DEF h
      <3> QED
        BY <2>2, <3>4, <3>5, <3>6
    <2> QED
      BY <2>3, <2>4
  <1>3. n \in 0..n
    BY <1>1
  <1>4. PICK g \in [0..n -> Seq(S)] : Steps(n, g)
    BY <1>2, <1>3
  <1>5. AddsUp(g, ss)
    BY <1>4 DEF AddsUp
  <1>6. \A i \in 1..n : <<>> \o ss[i] = ss[i]
    BY <1>1
  <1>7. FlattenSeq(ss) = g[n]
    BY <1>1, <1>5, <1>6, FlattenIs
  <1> QED
    BY <1>4, <1>5, <1>7
\* What the flat sequence is made of.
LEMMA FlattenElements ==
    ASSUME NEW S, NEW ss \in Seq(Seq(S))
    PROVE  /\ FlattenSeq(ss) \in Seq(S)
           /\ Range(FlattenSeq(ss)) = UNION {Range(ss[i]) : i \in DOMAIN ss}
  <1> DEFINE n == Len(ss)
  <1>1. n \in Nat /\ DOMAIN ss = 1..n /\ \A i \in 1..n : ss[i] \in Seq(S)
    OBVIOUS
  <1>2. PICK g \in [0..n -> Seq(S)] : AddsUp(g, ss) /\ FlattenSeq(ss) = g[n]
    BY FlattenSteps
  <1>3. g[0] = <<>> /\ \A i \in 1..n : i - 1 \in 0..n /\ g[i] = g[i - 1] \o ss[i]
    BY <1>1, <1>2 DEF AddsUp
  <1> DEFINE Parts(k) == UNION {Range(ss[i]) : i \in 1..k}
             Bad == {k \in 0..n : Range(g[k]) # Parts(k)}
  <1>4. Bad = {}
    <2>1. SUFFICES ASSUME Bad # {} PROVE FALSE
      OBVIOUS
    <2>2. PICK k \in Bad : k \in 0..n /\ \A m \in 0..k - 1 : m \notin Bad
      <3>1. Bad \in SUBSET (0..n)
        OBVIOUS
      <3> HIDE DEF Bad
      <3> QED
        BY <1>1, <2>1, <3>1, FirstFailure
    <2>3. CASE k = 0
      <3>1. Range(g[k]) = {} /\ 1..k = {}
        BY <1>3, <2>3 DEF Range
      <3> QED
        BY <2>2, <3>1
    <2>4. CASE k # 0
      <3>1. k \in 1..n /\ k - 1 \in 0..n /\ k - 1 \in 0..k - 1
        BY <1>1, <2>2, <2>4
      <3>2. Range(g[k - 1]) = Parts(k - 1)
        BY <2>2, <3>1
      <3>3. g[k] = g[k - 1] \o ss[k] /\ g[k - 1] \in Seq(S) /\ ss[k] \in Seq(S)
        BY <1>1, <1>2, <1>3, <3>1
      <3>4. Range(g[k]) = Range(g[k - 1]) \cup Range(ss[k])
        BY <3>3, ConcatFacts
      <3>5. 1..k = (1..k - 1) \cup {k}
        BY <3>1
      <3>6. Parts(k) = Parts(k - 1) \cup Range(ss[k])
        BY <3>5
      <3> QED
        BY <2>2, <3>2, <3>4, <3>6
    <2> QED
      BY <2>3, <2>4
  <1>5. n \in 0..n /\ g[n] \in Seq(S)
    BY <1>1, <1>2
  <1>6. Range(g[n]) = Parts(n)
    BY <1>4, <1>5
  <1> QED
    BY <1>1, <1>2, <1>5, <1>6

\* Flattening goes on along a longer sequence.
LEMMA FlattenConcat ==
    ASSUME NEW S, NEW ss \in Seq(Seq(S)), NEW tt \in Seq(Seq(S))
    PROVE  FlattenSeq(ss \o tt) = FlattenSeq(ss) \o FlattenSeq(tt)
  <1>0. \A a, b, c \in Seq(S) : a \o (b \o c) = (a \o b) \o c
    BY ConcatAssociates
  <1> DEFINE n == Len(ss)
             m == Len(tt)
             uu == ss \o tt
  <1>1. n \in Nat /\ m \in Nat /\ Len(uu) = n + m /\ uu \in Seq(Seq(S))
    OBVIOUS
  <1>2. PICK f \in [0..n -> Seq(S)] : AddsUp(f, ss) /\ FlattenSeq(ss) = f[n]
    BY FlattenSteps
  <1>3. PICK g \in [0..m -> Seq(S)] : AddsUp(g, tt) /\ FlattenSeq(tt) = g[m]
    BY FlattenSteps
  <1> DEFINE h == [i \in 0..n + m |-> IF i <= n THEN f[i] ELSE f[n] \o g[i - n]]
  <1>4. n \in 0..n /\ f[n] \in Seq(S) /\ f[0] = <<>> /\ g[0] = <<>>
    <2>1. n \in 0..n
      BY <1>1
    <2> QED
      BY <1>2, <1>3, <2>1 DEF AddsUp
  <1>5. AddsUp(h, uu)
    <2>1. h[0] = <<>>
      BY <1>1, <1>4
    <2>2. ASSUME NEW i \in 1..n + m PROVE h[i] = h[i - 1] \o uu[i]
      <3>1. CASE i <= n
        <4>1. i \in 1..n /\ uu[i] = ss[i] /\ h[i] = f[i] /\ h[i - 1] = f[i - 1]
          BY <1>1, <3>1
        <4> QED
          BY <1>2, <4>1 DEF AddsUp
      <3>2. CASE ~ (i <= n)
        <4> DEFINE k == i - n
        <4>1. k \in 1..m /\ k - 1 \in 0..m /\ k \in 0..m
          BY <1>1, <3>2
        <4>2. uu[i] = tt[k] /\ tt[k] \in Seq(S)
          BY <1>1, <3>2, <4>1
        <4>3. h[i] = f[n] \o g[k]
          BY <1>1, <3>2, <4>1
        <4>4. g[k] = g[k - 1] \o tt[k] /\ g[k - 1] \in Seq(S)
          BY <1>3, <4>1 DEF AddsUp
        <4>5. h[i - 1] = f[n] \o g[k - 1]
          <5>1. CASE k = 1
            <6>1. i - 1 = n /\ h[i - 1] = f[n]
              BY <1>1, <5>1
            <6> QED
              BY <1>4, <5>1, <6>1
          <5>2. CASE k # 1
            <6>1. i - 1 \in 0..n + m /\ ~ (i - 1 <= n) /\ i - 1 - n = k - 1
              BY <1>1, <4>1, <5>2
            <6> QED
              BY <6>1
          <5> QED
            BY <5>1, <5>2
        <4>6. f[n] \o (g[k - 1] \o tt[k]) = (f[n] \o g[k - 1]) \o tt[k]
          BY <1>0, <1>4, <4>2, <4>4
        <4> HIDE DEF h, k, uu
        <4> QED
          BY <4>2, <4>3, <4>4, <4>5, <4>6
      <3> QED
        BY <3>1, <3>2
    <2> QED
      BY <1>1, <2>1, <2>2 DEF AddsUp
  <1>6. h[n + m] = f[n] \o g[m]
    <2>1. CASE m = 0
      BY <1>1, <1>4, <2>1
    <2>2. CASE m # 0
      BY <1>1, <2>2
    <2> QED
      BY <2>1, <2>2
  <1>7. \A i \in 1..Len(uu) : <<>> \o uu[i] = uu[i]
    BY <1>1
  <1>8. Len(uu) \in Nat /\ (Len(uu) = 0 => uu = <<>>)
    BY <1>1
  <1> HIDE DEF h, uu
  <1>9. FlattenSeq(uu) = h[Len(uu)]
    BY <1>5, <1>7, <1>8, FlattenIs
  <1> QED
    BY <1>1, <1>2, <1>3, <1>6, <1>9 DEF uu

\* By one.
LEMMA FlattenAppend ==
    ASSUME NEW S, NEW ss \in Seq(Seq(S)), NEW s \in Seq(S)
    PROVE  FlattenSeq(Append(ss, s)) = FlattenSeq(ss) \o s
  <1>1. <<s>> \in Seq(Seq(S)) /\ Append(ss, s) = ss \o <<s>>
    OBVIOUS
  <1>2. FlattenSeq(<<s>>) = s
    <2> DEFINE g == [i \in 0..1 |-> IF i = 0 THEN <<>> ELSE s]
               one == <<s>>
    <2>1. Len(one) = 1 /\ one[1] = s /\ <<>> \o s = s
      OBVIOUS
    <2>2. DOMAIN g = 0..1 /\ g[0] = <<>> /\ g[1] = s
      OBVIOUS
    <2> HIDE DEF g, one
    <2>3. \A i \in 1..Len(one) : i = 1
      BY <2>1
    <2>4. AddsUp(g, one)
      <3>1. g[1] = g[1 - 1] \o one[1]
        BY <2>1, <2>2
      <3> QED
        BY <2>1, <2>2, <2>3, <3>1 DEF AddsUp
    <2>5. \A i \in 1..Len(one) : <<>> \o one[i] = one[i]
      BY <2>1, <2>3
    <2>6. Len(one) \in Nat /\ (Len(one) = 0 => one = <<>>)
      BY <2>1
    <2>7. FlattenSeq(one) = g[Len(one)]
      BY <2>4, <2>5, <2>6, FlattenIs
    <2> QED
      BY <2>1, <2>2, <2>7 DEF one
  <1> QED
    BY <1>1, <1>2, FlattenConcat
-----------------------------------------------------------------------------
\* What holds of the empty sequence, and of a longer one when it holds of the
\* one before, holds of all.
LEMMA SeqInduction ==
    ASSUME NEW X, NEW G, <<>> \in G, \A s \in Seq(X), x \in X : s \in G => Append(s, x) \in G
    PROVE  Seq(X) \subseteq G
  <1>1. SUFFICES ASSUME NEW t \in Seq(X), t \notin G PROVE FALSE
    OBVIOUS
  <1> DEFINE n == Len(t)
             Bad == {k \in 0..n : SubSeq(t, 1, k) \notin G}
  <1>2. n \in Nat /\ \A i \in 1..n : t[i] \in X
    OBVIOUS
  <1>3. n \in Bad
    <2>1. SubSeq(t, 1, n) = t
      BY <1>1, SubSeqFull
    <2>2. n \in 0..n
      BY <1>2
    <2>3. SubSeq(t, 1, n) \notin G
      BY <1>1, <2>1
    <2> HIDE DEF n
    <2> QED
      BY <2>2, <2>3
  <1>4. PICK k \in Bad : k \in 0..n /\ \A m \in 0..k - 1 : m \notin Bad
    <2>1. Bad \in SUBSET (0..n)
      OBVIOUS
    <2> HIDE DEF Bad
    <2> QED
      BY <1>2, <1>3, <2>1, FirstFailure
  <1>5. CASE k = 0
    <2>1. SubSeq(t, 1, 0) = <<>>
      BY SubSeqEmpty
    <2> QED
      BY <1>4, <1>5, <2>1
  <1>6. CASE k # 0
    <2>1. k - 1 \in 0..n /\ k - 1 \in 0..k - 1 /\ k \in 1..n /\ 1 \in 1..n /\ t[k] \in X
      BY <1>2, <1>4, <1>6
    <2>2. SubSeq(t, 1, k - 1) \in G
      BY <1>4, <2>1
    <2>3. SubSeq(t, 1, k - 1) \in Seq(X)
      BY <1>2, <2>1, SubSeqProperties
    <2>4. SubSeq(t, 1, k) = SubSeq(t, 1, k - 1) \o <<t[k]>>
      BY <1>4, <2>1, SubSeqRecursiveSecond
    <2>5. SubSeq(t, 1, k - 1) \o <<t[k]>> = Append(SubSeq(t, 1, k - 1), t[k])
      BY <2>1, <2>3, AppendIsConcat
    <2> QED
      BY <1>4, <2>1, <2>2, <2>3, <2>4, <2>5
  <1> QED
    BY <1>5, <1>6

\* A sequence and its elements, one of them longer.
LEMMA AppendFacts ==
    ASSUME NEW X, NEW s \in Seq(X), NEW x \in X
    PROVE  /\ Append(s, x) \in Seq(X) /\ Len(Append(s, x)) = Len(s) + 1
           /\ Append(s, x) = s \o <<x>>
           /\ Len(s) \in Nat /\ DOMAIN s = 1..Len(s) /\ DOMAIN Append(s, x) = 1..Len(s) + 1
           /\ \A i \in 1..Len(s) : Append(s, x)[i] = s[i] /\ s[i] \in X
           /\ Append(s, x)[Len(s) + 1] = x
  <1>1. Append(s, x) = s \o <<x>>
    BY AppendIsConcat
  <1>2. /\ Append(s, x) \in Seq(X) /\ Len(Append(s, x)) = Len(s) + 1
        /\ Len(s) \in Nat /\ DOMAIN s = 1..Len(s) /\ DOMAIN Append(s, x) = 1..Len(s) + 1
        /\ \A i \in 1..Len(s) : Append(s, x)[i] = s[i] /\ s[i] \in X
        /\ Append(s, x)[Len(s) + 1] = x
    OBVIOUS
  <1> QED
    BY <1>1, <1>2

LEMMA AppendIn ==
    ASSUME NEW X, NEW s \in Seq(X), NEW x \in X
    PROVE  Append(s, x) \in Seq(X)
  OBVIOUS

LEMMA AppendRange ==
    ASSUME NEW X, NEW s \in Seq(X), NEW x \in X
    PROVE  Range(Append(s, x)) = Range(s) \cup {x}
  <1>1. Append(s, x) = s \o <<x>>
    BY AppendIsConcat
  <1>2. Range(<<x>>) = {x}
    BY DEF Range
  <1>3. Range(s \o <<x>>) = Range(s) \cup Range(<<x>>)
    <2>1. \A a, b \in Seq(X) : Range(a \o b) = Range(a) \cup Range(b)
      BY RangeConcatenation
    <2>2. <<x>> \in Seq(X)
      OBVIOUS
    <2> QED
      BY <2>1, <2>2
  <1> QED
    BY <1>1, <1>2, <1>3

\* A sequence mapped by a function.
Each(f, s) == [i \in DOMAIN s |-> f[s[i]]]

LEMMA EachEmpty ==
    ASSUME NEW f
    PROVE  Each(f, <<>>) = <<>>
  BY DEF Each

LEMMA EachSeq ==
    ASSUME NEW X, NEW Y, NEW f \in [X -> Y], NEW s \in Seq(X)
    PROVE  /\ Each(f, s) \in Seq(Y) /\ Len(Each(f, s)) = Len(s)
           /\ DOMAIN Each(f, s) = DOMAIN s
           /\ \A i \in DOMAIN s : Each(f, s)[i] = f[s[i]]
  BY DEF Each

LEMMA EachAppend ==
    ASSUME NEW X, NEW Y, NEW f \in [X -> Y], NEW s \in Seq(X), NEW x \in X
    PROVE  Each(f, Append(s, x)) = Append(Each(f, s), f[x])
  <1> DEFINE t == Append(s, x)
             e == Each(f, s)
  <1>1. t \in Seq(X) /\ Len(t) = Len(s) + 1 /\ Len(s) \in Nat /\ DOMAIN s = 1..Len(s)
        /\ (\A i \in 1..Len(s) : t[i] = s[i]) /\ t[Len(s) + 1] = x /\ DOMAIN t = 1..Len(s) + 1
    BY AppendFacts
  <1>2. e \in Seq(Y) /\ Len(e) = Len(s) /\ \A i \in 1..Len(s) : e[i] = f[s[i]]
    BY <1>1, EachSeq
  <1>3. Each(f, t) \in Seq(Y) /\ Len(Each(f, t)) = Len(s) + 1
        /\ \A i \in 1..Len(s) + 1 : Each(f, t)[i] = f[t[i]]
    <2> HIDE DEF t
    <2>1. Each(f, t) \in Seq(Y) /\ Len(Each(f, t)) = Len(t)
          /\ \A i \in DOMAIN t : Each(f, t)[i] = f[t[i]]
      BY <1>1, EachSeq
    <2> QED
      BY <1>1, <2>1
  <1>4. f[x] \in Y
    OBVIOUS
  <1> HIDE DEF t, e
  <1>5. Append(e, f[x]) \in Seq(Y) /\ Len(Append(e, f[x])) = Len(s) + 1
        /\ (\A i \in 1..Len(s) : Append(e, f[x])[i] = e[i]) /\ Append(e, f[x])[Len(s) + 1] = f[x]
    BY <1>2, <1>4, AppendFacts
  <1>6. \A i \in 1..Len(s) + 1 : Each(f, t)[i] = Append(e, f[x])[i]
    BY <1>1, <1>2, <1>3, <1>5
  <1>7. Each(f, t) = Append(e, f[x])
    BY <1>1, <1>3, <1>5, <1>6, SeqEqual
  <1> QED
    BY <1>7 DEF t, e

LEMMA FlattenEmpty == FlattenSeq(<<>>) = <<>>
  BY DEF FlattenSeq

-----------------------------------------------------------------------------
(***************************************************************************)
(* Sequences made one element, or one sequence, at a time.                 *)
(***************************************************************************)
LEMMA MakeSeq ==
    ASSUME NEW V, NEW n \in Nat, NEW f, f = [k \in 1..n |-> f[k]], \A k \in 1..n : f[k] \in V
    PROVE  f \in Seq(V)
  OBVIOUS

LEMMA PrependFacts ==
    ASSUME NEW V, NEW x \in V, NEW b \in Seq(V), NEW m \in Nat, Len(b) = m
    PROVE  /\ Len(<<x>> \o b) = m + 1 /\ DOMAIN (<<x>> \o b) = 1..m + 1
           /\ (<<x>> \o b)[1] = x
           /\ \A k \in 1..m : (<<x>> \o b)[k + 1] = b[k]
  OBVIOUS

LEMMA TimesGrows ==
    ASSUME NEW a \in Nat, NEW b \in Nat, NEW m \in Nat, a <= b
    PROVE  a * m \in Nat /\ b * m \in Nat /\ a * m <= b * m
  <1>1. b - a \in Nat /\ b = a + (b - a)
    OBVIOUS
  <1> PICK d \in Nat : b = a + d
    BY <1>1
  <1>2. a * m \in Nat /\ d * m \in Nat /\ b * m = a * m + d * m
    OBVIOUS
  <1> QED
    BY <1>2

LEMMA SomeTimes ==
    ASSUME NEW n \in Nat, NEW m \in Nat \ {0}
    PROVE  /\ n \div m \in Nat /\ (n \div m) * m \in 0..n
           /\ \A j \in 0..n \div m : j * m \in 0..n
           /\ \A j \in 1..n \div m : (j - 1) * m \in 0..n /\ j * m = (j - 1) * m + m
  <1> DEFINE q == n \div m
  <1>1. q \in Nat /\ n = m * q + (n % m) /\ n % m \in Nat
    BY DivFacts
  <1> HIDE DEF q
  <1>2. q * m \in 0..n
    BY <1>1
  <1>3. \A j \in 0..q : j * m \in 0..n
    <2> TAKE j \in 0..q
    <2>1. j \in Nat /\ j <= q
      BY <1>1
    <2>2. j * m \in Nat /\ j * m <= q * m
      BY <1>1, <2>1, TimesGrows
    <2> QED
      BY <1>2, <2>2
  <1>4. \A j \in 1..q : (j - 1) * m \in 0..n /\ j * m = (j - 1) * m + m
    <2> TAKE j \in 1..q
    <2>1. j - 1 \in 0..q
      BY <1>1
    <2> QED
      BY <1>3, <2>1
  <1> QED
    BY <1>1, <1>2, <1>3, <1>4 DEF q

LEMMA FlattenNothing ==
    ASSUME NEW V, NEW ss \in Seq(Seq(V)), \A i \in 1..Len(ss) : ss[i] = <<>>
    PROVE  FlattenSeq(ss) = <<>>
  <1>1. FlattenSeq(ss) \in Seq(V) /\ Range(FlattenSeq(ss)) = UNION {Range(ss[i]) : i \in DOMAIN ss}
    BY FlattenElements
  <1>2. \A i \in DOMAIN ss : Range(ss[i]) = {}
    BY DEF Range
  <1>3. Range(FlattenSeq(ss)) = {}
    BY <1>1, <1>2
  <1> DEFINE f == FlattenSeq(ss)
  <1>4. f \in Seq(V) /\ \A i \in DOMAIN f : f[i] \in {}
    BY <1>1, <1>3 DEF Range
  <1> HIDE DEF f
  <1>5. Len(f) = 0
    <2>1. DOMAIN f = 1..Len(f) /\ Len(f) \in Nat
      BY <1>4
    <2>2. 1 \notin 1..Len(f)
      BY <1>4, <2>1
    <2> QED
      BY <2>1, <2>2
  <1>6. f = <<>>
    BY <1>4, <1>5
  <1> QED
    BY <1>6 DEF f

\* A sequence mapped by a function to sequences, one after the other.
FlatEach(f, s) == FlattenSeq(Each(f, s))
ToSeqs(f, X, Y) == \A x \in X : f[x] \in Seq(Y)

LEMMA EachIn ==
    ASSUME NEW X, NEW Y, NEW f, \A x \in X : f[x] \in Y, NEW s \in Seq(X)
    PROVE  Each(f, s) \in Seq(Y)
  BY DEF Each

LEMMA EachIs ==
    ASSUME NEW X, NEW f, NEW s \in Seq(X)
    PROVE  /\ Len(Each(f, s)) = Len(s) /\ DOMAIN Each(f, s) = 1..Len(s) /\ Len(s) \in Nat
           /\ \A i \in 1..Len(s) : Each(f, s)[i] = f[s[i]]
  <1>1. DOMAIN s = 1..Len(s) /\ Len(s) \in Nat
    OBVIOUS
  <1> DEFINE n == Len(s)
  <1> HIDE DEF n
  <1>2. Each(f, s) = [i \in 1..n |-> f[s[i]]]
    BY <1>1 DEF Each, n
  <1> QED
    BY <1>1, <1>2 DEF n

LEMMA ConcatIs ==
    ASSUME NEW V, NEW a \in Seq(V), NEW b \in Seq(V), NEW n, NEW m, Len(a) = n, Len(b) = m
    PROVE  /\ a \o b \in Seq(V) /\ Len(a \o b) = n + m
           /\ \A p \in 1..n : (a \o b)[p] = a[p]
           /\ \A p \in 1..m : (a \o b)[n + p] = b[p]
  OBVIOUS

LEMMA EachConcat ==
    ASSUME NEW X, NEW f, NEW s \in Seq(X), NEW t \in Seq(X)
    PROVE  Each(f, s \o t) = Each(f, s) \o Each(f, t)
  <1> DEFINE a == Each(f, s)
             b == Each(f, t)
             u == Each(f, s \o t)
             v == a \o b
             n == Len(s)
             m == Len(t)
             V == {f[x] : x \in X}
  <1>1. /\ s \o t \in Seq(X) /\ n \in Nat /\ m \in Nat /\ Len(s \o t) = n + m
        /\ \A p \in 1..n : (s \o t)[p] = s[p]
        /\ \A p \in 1..m : (s \o t)[n + p] = t[p]
    BY ConcatFacts
  <1>2. \A x \in X : f[x] \in V
    OBVIOUS
  <1> HIDE DEF V
  <1>3. /\ Each(f, s) \in Seq(V) /\ Each(f, t) \in Seq(V) /\ Each(f, s \o t) \in Seq(V)
    BY <1>1, <1>2, EachIn
  <1>4. Len(Each(f, s)) = Len(s) /\ \A i \in 1..Len(s) : Each(f, s)[i] = f[s[i]]
    BY EachIs
  <1>5. Len(Each(f, t)) = Len(t) /\ \A i \in 1..Len(t) : Each(f, t)[i] = f[t[i]]
    BY EachIs
  <1>6. /\ Len(Each(f, s \o t)) = Len(s \o t)
        /\ \A i \in 1..Len(s \o t) : Each(f, s \o t)[i] = f[(s \o t)[i]]
    <2> DEFINE st == s \o t
    <2>1. st \in Seq(X)
      BY <1>1
    <2>2. Len(Each(f, st)) = Len(st) /\ \A i \in 1..Len(st) : Each(f, st)[i] = f[st[i]]
      <3> HIDE DEF st
      <3> QED
        BY <2>1, EachIs
    <2> QED
      BY <2>2
  <1>7. /\ a \in Seq(V) /\ b \in Seq(V) /\ u \in Seq(V) /\ Len(a) = n /\ Len(b) = m /\ Len(u) = n + m
        /\ \A i \in 1..n : a[i] = f[s[i]]
        /\ \A i \in 1..m : b[i] = f[t[i]]
        /\ \A i \in 1..n + m : u[i] = f[(s \o t)[i]]
    BY <1>1, <1>3, <1>4, <1>5, <1>6
  <1> HIDE DEF a, b, u, n, m
  <1>8. /\ v \in Seq(V) /\ Len(v) = n + m
        /\ \A p \in 1..n : v[p] = a[p]
        /\ \A p \in 1..m : v[n + p] = b[p]
    BY <1>7, ConcatIs
  <1> HIDE DEF v
  <1>9. ASSUME NEW i \in 1..n + m PROVE u[i] = v[i]
    <2>1. CASE i \in 1..n
      <3>1. v[i] = f[s[i]] /\ (s \o t)[i] = s[i]
        BY <1>1, <1>7, <1>8, <2>1
      <3> QED
        BY <1>7, <3>1
    <2>2. CASE i \notin 1..n
      <3>1. i - n \in 1..m /\ i = n + (i - n)
        BY <1>1, <2>2
      <3>2. v[i] = f[t[i - n]] /\ (s \o t)[i] = t[i - n]
        BY <1>1, <1>7, <1>8, <3>1
      <3> QED
        BY <1>7, <3>2
    <2> QED
      BY <2>1, <2>2
  <1>10. u = v
    <2>1. u \in Seq(V) /\ v \in Seq(V) /\ Len(u) = Len(v) /\ \A i \in 1..Len(u) : u[i] = v[i]
      BY <1>7, <1>8, <1>9
    <2> QED
      BY <2>1, SeqEqual
  <1> QED
    BY <1>10 DEF u, v, a, b

LEMMA FlatEachIn ==
    ASSUME NEW X, NEW Y, NEW f, ToSeqs(f, X, Y), NEW s \in Seq(X)
    PROVE  FlatEach(f, s) \in Seq(Y)
  <1>1. Each(f, s) \in Seq(Seq(Y))
    BY EachIn DEF ToSeqs
  <1> QED
    BY <1>1, FlattenElements DEF FlatEach

LEMMA FlatEachRange ==
    ASSUME NEW X, NEW Y, NEW f, ToSeqs(f, X, Y), NEW s \in Seq(X)
    PROVE  Range(FlatEach(f, s)) = UNION {Range(f[s[i]]) : i \in 1..Len(s)}
  <1> DEFINE e == Each(f, s)
  <1>1. e \in Seq(Seq(Y))
    BY EachIn DEF ToSeqs
  <1>2. Range(FlattenSeq(e)) = UNION {Range(e[i]) : i \in DOMAIN e}
    BY <1>1, FlattenElements
  <1>3. DOMAIN e = 1..Len(s) /\ \A i \in 1..Len(s) : e[i] = f[s[i]]
    <2>1. DOMAIN Each(f, s) = 1..Len(s) /\ \A i \in 1..Len(s) : Each(f, s)[i] = f[s[i]]
      BY EachIs
    <2> QED
      BY <2>1
  <1> HIDE DEF e
  <1>4. {Range(e[i]) : i \in DOMAIN e} = {Range(f[s[i]]) : i \in 1..Len(s)}
    BY <1>3
  <1> QED
    BY <1>2, <1>4 DEF FlatEach, e

LEMMA FlatEachConcat ==
    ASSUME NEW X, NEW Y, NEW f, ToSeqs(f, X, Y), NEW s \in Seq(X), NEW t \in Seq(X)
    PROVE  FlatEach(f, s \o t) = FlatEach(f, s) \o FlatEach(f, t)
  <1>1. Each(f, s) \in Seq(Seq(Y)) /\ Each(f, t) \in Seq(Seq(Y))
    BY EachIn DEF ToSeqs
  <1>2. Each(f, s \o t) = Each(f, s) \o Each(f, t)
    BY EachConcat
  <1> QED
    BY <1>1, <1>2, FlattenConcat DEF FlatEach

LEMMA FlatEachAppend ==
    ASSUME NEW X, NEW Y, NEW f, ToSeqs(f, X, Y), NEW s \in Seq(X), NEW x \in X
    PROVE  FlatEach(f, Append(s, x)) = FlatEach(f, s) \o f[x]
  <1>1. <<x>> \in Seq(X) /\ Append(s, x) = s \o <<x>>
    BY AppendFacts
  <1>2. Each(f, <<x>>) = <<f[x]>>
    BY DEF Each
  <1>3. Each(f, s \o <<x>>) = Each(f, s) \o <<f[x]>>
    <2> DEFINE o == <<x>>
    <2>1. o \in Seq(X) /\ Each(f, o) = <<f[x]>>
      BY <1>1, <1>2
    <2>2. Each(f, s \o o) = Each(f, s) \o Each(f, o)
      <3>1. \A q \in Seq(X) : Each(f, s \o q) = Each(f, s) \o Each(f, q)
        BY EachConcat
      <3> QED
        BY <2>1, <3>1
    <2> QED
      BY <2>1, <2>2
  <1>4. Each(f, s) \in Seq(Seq(Y)) /\ f[x] \in Seq(Y)
    BY EachIn DEF ToSeqs
  <1>5. Each(f, s) \o <<f[x]>> = Append(Each(f, s), f[x])
    BY <1>4
  <1> QED
    BY <1>1, <1>3, <1>4, <1>5, FlattenAppend DEF FlatEach

LEMMA FlatEachEmpty ==
    ASSUME NEW f
    PROVE  FlatEach(f, <<>>) = <<>>
  BY EachEmpty, FlattenEmpty DEF FlatEach

\* What takes apart one concatenation takes apart all of them.
LEMMA FlattenedEach ==
    ASSUME NEW X, NEW Y, NEW h, ToSeqs(h, Seq(X), Y), h[<<>>] = <<>>,
           \A s, t \in Seq(X) : h[s \o t] = h[s] \o h[t],
           NEW ss \in Seq(Seq(X))
    PROVE  h[FlattenSeq(ss)] = FlatEach(h, ss)
  <1> DEFINE Z == Seq(X)
             G == {tt \in Seq(Z) : h[FlattenSeq(tt)] = FlatEach(h, tt)}
  <1>1. <<>> \in G
    <2>1. FlattenSeq(<<>>) = <<>> /\ FlatEach(h, <<>>) = <<>>
      BY FlattenEmpty, FlatEachEmpty
    <2>2. <<>> \in Seq(Z)
      OBVIOUS
    <2> QED
      BY <2>1, <2>2
  <1>2. ASSUME NEW tt \in Seq(Z), NEW t \in Z, tt \in G
        PROVE  Append(tt, t) \in G
    <2>1. FlattenSeq(tt) \in Seq(X) /\ FlattenSeq(Append(tt, t)) = FlattenSeq(tt) \o t
      BY FlattenElements, FlattenAppend
    <2>2. h[FlattenSeq(Append(tt, t))] = h[FlattenSeq(tt)] \o h[t]
      BY <2>1
    <2>3. FlatEach(h, Append(tt, t)) = FlatEach(h, tt) \o h[t]
      <3>1. ToSeqs(h, Z, Y)
        OBVIOUS
      <3> HIDE DEF Z, G
      <3> QED
        BY <3>1, FlatEachAppend
    <2>4. Append(tt, t) \in Seq(Z)
      <3> HIDE DEF Z, G
      <3> QED
        BY AppendIn
    <2> QED
      BY <1>2, <2>2, <2>3, <2>4
  <1>3. Seq(Z) \subseteq G
    <2> HIDE DEF G, Z
    <2> QED
      BY <1>1, <1>2, SeqInduction
  <1>4. ss \in Seq(Z)
    OBVIOUS
  <1> QED
    BY <1>3, <1>4

-----------------------------------------------------------------------------
(***************************************************************************)
(* Numbers by their rank in a set.                                         *)
(***************************************************************************)
Places(T) == \E n \in Nat : T \in SUBSET (1..n)
Upto(T, i) == Cardinality({j \in T : j <= i})

LEMMA UptoGrows ==
    ASSUME NEW T, Places(T), NEW i \in T
    PROVE  /\ IsFiniteSet(T) /\ Cardinality(T) \in Nat
           /\ Upto(T, i) \in 1..Cardinality(T)
           /\ \A j \in T : j < i => Upto(T, j) < Upto(T, i)
  <1>0. PICK n \in Nat : T \in SUBSET (1..n)
    BY DEF Places
  <1>1. IsFiniteSet(1..n)
    BY FS_Interval
  <1>2. IsFiniteSet(T) /\ Cardinality(T) \in Nat
    BY <1>0, <1>1, FS_Subset, FS_CardinalityType
  <1>3. ASSUME NEW j \in T, j <= i
        PROVE  /\ Upto(T, j) \in Nat /\ Upto(T, j) <= Upto(T, i) /\ Upto(T, i) <= Cardinality(T)
               /\ j # i => Upto(T, j) # Upto(T, i)
    <2> DEFINE A == {k \in T : k <= i}
               C == {k \in T : k <= j}
    <2>1. i \in Nat /\ j \in Nat /\ \A k \in T : k \in Nat
      BY <1>0
    <2>2. A \in SUBSET T /\ C \in SUBSET A /\ i \in A
      <3>1. \A k \in T : k <= j => k <= i
        BY <1>3, <2>1
      <3>2. i \in A /\ A \in SUBSET T
        BY <2>1
      <3>3. C \in SUBSET A
        BY <3>1
      <3> QED
        BY <3>2, <3>3
    <2>3. j # i => i \notin C
      BY <1>3, <2>1
    <2> HIDE DEF A, C
    <2>4. IsFiniteSet(A) /\ Cardinality(A) <= Cardinality(T)
      BY <1>2, <2>2, FS_Subset
    <2>5. IsFiniteSet(C) /\ Cardinality(C) <= Cardinality(A) /\ (Cardinality(A) = Cardinality(C) => A = C)
      BY <2>2, <2>4, FS_Subset
    <2>6. Cardinality(C) \in Nat
      BY <2>5, FS_CardinalityType
    <2>7. Upto(T, i) = Cardinality(A) /\ Upto(T, j) = Cardinality(C)
      BY DEF Upto, A, C
    <2> QED
      BY <2>2, <2>3, <2>4, <2>5, <2>6, <2>7
  <1>4. Upto(T, i) # 0
    <2>1. i \in {k \in T : k <= i}
      <3>1. i <= i
        BY <1>0
      <3> QED
        BY <3>1
    <2>2. IsFiniteSet({k \in T : k <= i})
      BY <1>2, FS_Subset
    <2> QED
      BY <2>1, <2>2, FS_EmptySet DEF Upto
  <1>5. i <= i /\ i \in Nat /\ \A k \in T : k \in Nat
    BY <1>0
  <1>6. Upto(T, i) \in 1..Cardinality(T)
    BY <1>2, <1>3, <1>4, <1>5
  <1>7. \A j \in T : j < i => Upto(T, j) < Upto(T, i)
    <2> SUFFICES ASSUME NEW j \in T, j < i PROVE Upto(T, j) < Upto(T, i)
      OBVIOUS
    <2>1. j <= i /\ j # i
      BY <1>5
    <2> QED
      BY <1>3, <1>6, <2>1
  <1> QED
    BY <1>2, <1>6, <1>7

LEMMA UptoIn ==
    ASSUME NEW T, Places(T), NEW i \in T
    PROVE  Upto(T, i) \in 1..Cardinality(T)
  BY UptoGrows

LEMMA UptoOrders ==
    ASSUME NEW T, Places(T), NEW i \in T, NEW j \in T, i < j
    PROVE  Upto(T, i) < Upto(T, j)
  BY UptoGrows

LEMMA UptoOnce ==
    ASSUME NEW T, Places(T), NEW i \in T, NEW j \in T, Upto(T, i) = Upto(T, j)
    PROVE  i = j
  <1>1. Upto(T, i) \in Nat /\ Upto(T, j) \in Nat
    <2>1. Cardinality(T) \in Nat
      BY UptoGrows
    <2> QED
      BY <2>1, UptoIn
  <1>2. i \in Nat /\ j \in Nat /\ (i < j \/ j < i \/ i = j)
    BY DEF Places
  <1> QED
    BY <1>1, <1>2, UptoOrders

\* Each rank is somebody's.
LEMMA UptoAll ==
    ASSUME NEW T, Places(T)
    PROVE  \A k \in 1..Cardinality(T) : \E i \in T : Upto(T, i) = k
  <1> DEFINE m == Cardinality(T)
             f == [i \in T |-> Upto(T, i)]
  <1>1. IsFiniteSet(T) /\ m \in Nat
    <2>1. PICK n \in Nat : T \in SUBSET (1..n)
      BY DEF Places
    <2>2. IsFiniteSet(1..n)
      BY FS_Interval
    <2> QED
      BY <2>1, <2>2, FS_Subset, FS_CardinalityType
  <1>2. f \in Injection(T, 1..m)
    <2>1. f \in [T -> 1..m]
      BY UptoIn
    <2>2. \A i, j \in T : f[i] = f[j] => i = j
      <3> TAKE i, j \in T
      <3> HAVE f[i] = f[j]
      <3>1. Upto(T, i) = Upto(T, j)
        OBVIOUS
      <3> QED
        BY <3>1, UptoOnce
    <2> QED
      BY <2>1, <2>2 DEF Injection, IsInjective
  <1>3. IsFiniteSet(1..m) /\ Cardinality(1..m) = m
    <2>1. IsFiniteSet(1..m) /\ Cardinality(1..m) = IF 1 > m THEN 0 ELSE m - 1 + 1
      <3>1. 1 \in Int /\ m \in Int
        BY <1>1
      <3> HIDE DEF m
      <3> QED
        BY <3>1, FS_Interval
    <2> QED
      BY <1>1, <2>1
  <1> HIDE DEF f
  <1>4. f \in Surjection(T, 1..m)
    BY <1>1, <1>2, <1>3, FS_Injection
  <1>5. \A k \in 1..m : \E i \in T : f[i] = k
    BY <1>4 DEF Surjection
  <1> QED
    BY <1>5 DEF f

-----------------------------------------------------------------------------
\* The order of what is in one sequence or in several stays.
Together(ss) ==
    \A b, c \in 1..Len(ss) : \A i \in 1..Len(ss[b]), j \in 1..Len(ss[c]) :
        b < c \/ (b = c /\ i <= j) =>
            \E p, q \in 1..Len(FlattenSeq(ss)) :
                p <= q /\ FlattenSeq(ss)[p] = ss[b][i] /\ FlattenSeq(ss)[q] = ss[c][j]

LEMMA FlattenOrder ==
    ASSUME NEW V, NEW ss \in Seq(Seq(V))
    PROVE  Together(ss)
  <1> DEFINE Z == Seq(V)
             G == {tt \in Seq(Z) : Together(tt)}
  <1>1. <<>> \in G
    BY DEF Together
  <1>2. ASSUME NEW tt \in Seq(Z), NEW t \in Z, tt \in G
        PROVE  Append(tt, t) \in G
    <2> DEFINE u == Append(tt, t)
               f == FlattenSeq(tt)
               h == FlattenSeq(u)
               n == Len(tt)
               m == Len(f)
               k == Len(t)
    <2>1. /\ u \in Seq(Z) /\ Len(u) = n + 1 /\ n \in Nat
          /\ (\A b \in 1..n : u[b] = tt[b]) /\ u[n + 1] = t
      <3> HIDE DEF Z, G
      <3> QED
        BY AppendFacts
    <2>2. f \in Seq(V) /\ h = f \o t /\ t \in Seq(V)
      BY FlattenElements, FlattenAppend
    <2>3. /\ m \in Nat /\ k \in Nat /\ Len(h) = m + k
          /\ \A p \in 1..m : h[p] = f[p]
          /\ \A p \in 1..k : h[m + p] = t[p]
      <3>1. Len(f) = m /\ Len(t) = k /\ m \in Nat /\ k \in Nat
        BY <2>2
      <3>2. f \in Seq(V) /\ t \in Seq(V) /\ h = f \o t
        BY <2>2
      <3> HIDE DEF f, h, m, k
      <3>3. /\ Len(f \o t) = m + k
            /\ \A p \in 1..m : (f \o t)[p] = f[p]
            /\ \A p \in 1..k : (f \o t)[m + p] = t[p]
        <4>1. f \in Seq(V) /\ t \in Seq(V) /\ Len(f) = m /\ Len(t) = k
          BY <3>1, <3>2
        <4>2. \A a, g \in Seq(V) :
                /\ Len(a \o g) = Len(a) + Len(g)
                /\ \A p \in 1..Len(a) : (a \o g)[p] = a[p]
                /\ \A p \in 1..Len(g) : (a \o g)[Len(a) + p] = g[p]
          BY ConcatIs
        <4> QED
          BY <4>1, <4>2, Zenon
      <3> QED
        BY <3>1, <3>2, <3>3
    <2>4. Together(tt)
      BY <1>2
    <2> HIDE DEF u, f, h, m, k, n
    <2>5. ASSUME NEW b \in 1..n, NEW i \in 1..Len(tt[b])
          PROVE  \E p \in 1..m : f[p] = tt[b][i]
      <3>1. b = b /\ i <= i
        <4>1. tt[b] \in Seq(V)
          BY DEF n
        <4> QED
          BY <4>1
      <3> QED
        BY <2>4, <3>1 DEF Together, n, m, f
    <2>6. ASSUME NEW b \in 1..n + 1, NEW c \in 1..n + 1, NEW i \in 1..Len(u[b]), NEW j \in 1..Len(u[c]),
                 b < c \/ (b = c /\ i <= j)
          PROVE  \E p, q \in 1..m + k : p <= q /\ h[p] = u[b][i] /\ h[q] = u[c][j]
      <3>1. CASE c \in 1..n
        <4>1. b \in 1..n /\ u[b] = tt[b] /\ u[c] = tt[c]
          BY <2>1, <2>6, <3>1
        <4>2. i \in 1..Len(tt[b]) /\ j \in 1..Len(tt[c])
          BY <4>1
        <4>5. \E p, q \in 1..Len(FlattenSeq(tt)) :
                p <= q /\ FlattenSeq(tt)[p] = tt[b][i] /\ FlattenSeq(tt)[q] = tt[c][j]
          <5>1. b \in 1..Len(tt) /\ c \in 1..Len(tt)
            BY <3>1, <4>1 DEF n
          <5> QED
            BY <2>4, <2>6, <4>2, <5>1 DEF Together
        <4>6. PICK p, q \in 1..m : p <= q /\ f[p] = tt[b][i] /\ f[q] = tt[c][j]
          BY <4>5 DEF m, f
        <4>3. p \in 1..m + k /\ q \in 1..m + k /\ h[p] = f[p] /\ h[q] = f[q]
          BY <2>3
        <4> QED
          BY <4>1, <4>6, <4>3
      <3>2. CASE c \notin 1..n
        <4>1. c = n + 1 /\ u[c] = t
          BY <2>1, <3>2
        <4>2. j \in 1..k /\ m + j \in 1..m + k /\ h[m + j] = u[c][j]
          BY <2>3, <4>1 DEF k
        <4>3. CASE b \in 1..n
          <5>1. u[b] = tt[b]
            BY <2>1, <4>3
          <5>2. PICK p \in 1..m : f[p] = tt[b][i]
            BY <2>5, <4>3, <5>1
          <5>3. p \in 1..m + k /\ p <= m + j /\ h[p] = u[b][i]
            BY <2>3, <4>2, <5>1, <5>2
          <5> QED
            BY <4>2, <5>3
        <4>4. CASE b \notin 1..n
          <5>1. b = n + 1 /\ u[b] = t /\ b = c
            BY <2>1, <4>1, <4>4
          <5>2. i \in 1..k /\ i <= j
            BY <2>1, <2>6, <5>1 DEF k
          <5>3. m + i \in 1..m + k /\ m + i <= m + j /\ h[m + i] = u[b][i]
            BY <2>3, <4>2, <5>1, <5>2
          <5> QED
            BY <4>2, <5>3
        <4> QED
          BY <4>3, <4>4
      <3> QED
        BY <3>1, <3>2
    <2>7. Together(u)
      <3>1. Len(u) = n + 1 /\ Len(FlattenSeq(u)) = m + k
        BY <2>1, <2>3 DEF h
      <3>2. FlattenSeq(u) = h
        BY DEF h
      <3> SUFFICES ASSUME NEW b \in 1..Len(u), NEW c \in 1..Len(u),
                          NEW i \in 1..Len(u[b]), NEW j \in 1..Len(u[c]),
                          b < c \/ (b = c /\ i <= j)
                   PROVE  \E p, q \in 1..Len(FlattenSeq(u)) :
                            p <= q /\ FlattenSeq(u)[p] = u[b][i] /\ FlattenSeq(u)[q] = u[c][j]
        BY DEF Together
      <3>3. b \in 1..n + 1 /\ c \in 1..n + 1
        BY <3>1
      <3>4. \E p, q \in 1..m + k : p <= q /\ h[p] = u[b][i] /\ h[q] = u[c][j]
        BY <2>6, <3>3
      <3> QED
        BY <3>1, <3>2, <3>4
    <2> QED
      BY <2>1, <2>7 DEF u
  <1>3. Seq(Z) \subseteq G
    <2> HIDE DEF G, Z
    <2> QED
      BY <1>1, <1>2, SeqInduction
  <1> QED
    BY <1>3
=============================================================================
