------------------------- MODULE GraphExportProofs -------------------------
(***************************************************************************)
(* What a read of a network and the simplification of its graph guarantee  *)
(* for every street network, whatever its shape.  The streets are those of *)
(* the ways, however the ways were batched, cut and filtered.  No row is   *)
(* walked twice, every chain is a path through dropped nodes, and nothing  *)
(* is left when rings are kept.  A merged edge is drawn along its chain,   *)
(* no exporter passes over a row, the component that is kept is a largest  *)
(* one, and simplifying neither cuts nor opens a way.                      *)
(***************************************************************************)
EXTENDS GraphExport, DataLemmas
-----------------------------------------------------------------------------
(***************************************************************************)
(* The helpers on sequences.                                               *)
(***************************************************************************)
Sums(f, c) == f \in [0..Len(c) -> Nat] /\ f[0] = 0 /\ \A k \in 1..Len(c) : f[k] = f[k - 1] + c[k]

LEMMA SumsFacts ==
    ASSUME NEW c \in Seq(Nat), NEW f, Sums(f, c)
    PROVE  /\ Len(c) \in Nat /\ f[0] = 0
           /\ \A k \in 0..Len(c) : f[k] \in Nat
           /\ \A k \in 1..Len(c) : k - 1 \in 0..Len(c) /\ k \in 0..Len(c)
           /\ \A k \in 1..Len(c) : f[k] = f[k - 1] + c[k] /\ c[k] \in Nat
<1>1. Len(c) \in Nat /\ \A k \in 1..Len(c) : c[k] \in Nat
  OBVIOUS
<1>2. f \in [0..Len(c) -> Nat] /\ f[0] = 0 /\ \A k \in 1..Len(c) : f[k] = f[k - 1] + c[k]
  BY DEF Sums
<1>3. \A k \in 1..Len(c) : k - 1 \in 0..Len(c) /\ k \in 0..Len(c)
  BY <1>1
<1>. QED BY <1>1, <1>2, <1>3

\* What has the steps of a cumulative sum is the cumulative sum.
LEMMA CumIs ==
    ASSUME NEW c \in Seq(Nat), NEW f, Sums(f, c)
    PROVE  cumsum(c) = f
<1>. DEFINE n == Len(c)
            Is(h) == h = [k \in 0..n |-> IF k = 0 THEN 0 ELSE h[k - 1] + c[k]]
            sum[k \in 0..n] == IF k = 0 THEN 0 ELSE sum[k - 1] + c[k]
<1>0. n \in Nat
  OBVIOUS
<1>1. \A k \in 0..n : f[k] = IF k = 0 THEN 0 ELSE f[k - 1] + c[k]
  BY <1>0 DEF Sums
<1>2. Is(f)
  <2>1. f = [k \in 0..n |-> f[k]]
    BY DEF Sums
  <2>. QED BY <1>1, <2>1
<1>3. ASSUME NEW h, Is(h) PROVE h = f
  <2>. DEFINE Bad == {k \in 0..n : h[k] # f[k]}
  <2>1. \A k \in 0..n : h[k] = IF k = 0 THEN 0 ELSE h[k - 1] + c[k]
    BY <1>3
  <2>2. Bad = {}
    <3>1. SUFFICES ASSUME Bad # {} PROVE FALSE
      OBVIOUS
    <3>2. PICK k \in Bad : k \in 0..n /\ \A m \in 0..k - 1 : m \notin Bad
      <4>1. Bad \in SUBSET (0..n)
        OBVIOUS
      <4>. HIDE DEF Bad
      <4>. QED BY <1>0, <3>1, <4>1, FirstFailure
    <3>3. k # 0 => k - 1 \in 0..n /\ h[k - 1] = f[k - 1]
      BY <1>0, <3>2
    <3>. QED BY <1>1, <2>1, <3>2, <3>3
  <2>3. h = [k \in 0..n |-> h[k]] /\ f = [k \in 0..n |-> f[k]]
    BY <1>3 DEF Sums
  <2>. QED BY <2>2, <2>3
<1>4. sum = f
  BY <1>2, <1>3
<1>5. cumsum(c) = sum
  BY DEF cumsum
<1>. HIDE DEF sum
<1>. QED BY <1>4, <1>5

\* The sums exist; those of a longer sequence go on from them.
LEMMA CumFacts ==
    /\ Sums(cumsum(<<>>), <<>>)
    /\ \A c \in Seq(Nat) : Sums(cumsum(c), c)
    /\ \A c \in Seq(Nat), x \in Nat :
         /\ \A k \in 0..Len(c) : cumsum(Append(c, x))[k] = cumsum(c)[k]
         /\ cumsum(Append(c, x))[Len(c) + 1] = cumsum(c)[Len(c)] + x
<1>. DEFINE G == {c \in Seq(Nat) : Sums(cumsum(c), c)}
<1>1. <<>> \in G
  <2>. DEFINE f == [k \in {0} |-> 0]
  <2>1. <<>> \in Seq(Nat) /\ Len(<<>>) = 0 /\ 0..0 = {0} /\ 1..0 = {}
    OBVIOUS
  <2>2. Sums(f, <<>>)
    BY <2>1 DEF Sums
  <2>. HIDE DEF f
  <2>3. cumsum(<<>>) = f
    BY <2>1, <2>2, CumIs
  <2>. QED BY <2>1, <2>2, <2>3
<1>2. ASSUME NEW c \in Seq(Nat), NEW x \in Nat, c \in G
      PROVE  /\ Append(c, x) \in G
             /\ \A k \in 0..Len(c) : cumsum(Append(c, x))[k] = cumsum(c)[k]
             /\ cumsum(Append(c, x))[Len(c) + 1] = cumsum(c)[Len(c)] + x
  <2>. DEFINE f == cumsum(c)
              d == Append(c, x)
              n == Len(c)
              h == [k \in 0..n + 1 |-> IF k = n + 1 THEN f[n] + x ELSE f[k]]
  <2>1. /\ f[0] = 0 /\ n \in Nat
        /\ \A k \in 0..n : f[k] \in Nat
        /\ \A k \in 1..n : k - 1 \in 0..n /\ k \in 0..n
        /\ \A k \in 1..n : f[k] = f[k - 1] + c[k] /\ c[k] \in Nat
    BY <1>2, SumsFacts
  <2>2. d \in Seq(Nat) /\ Len(d) = n + 1 /\ (\A k \in 1..n : d[k] = c[k]) /\ d[n + 1] = x
    BY AppendFacts
  <2>. HIDE DEF f, d
  <2>3. h \in [0..n + 1 -> Nat] /\ (\A k \in 0..n : h[k] = f[k]) /\ h[n + 1] = f[n] + x
    BY <2>1
  <2>. HIDE DEF h, n
  <2>4. \A k \in 1..n + 1 : h[k] = h[k - 1] + d[k]
    <3>1. ASSUME NEW k \in 1..n PROVE h[k] = h[k - 1] + d[k]
      BY <2>1, <2>2, <2>3
    <3>2. h[n + 1] = h[n + 1 - 1] + d[n + 1]
      BY <2>1, <2>2, <2>3
    <3>. QED BY <2>1, <3>1, <3>2
  <2>5. Sums(h, d)
    <3>1. h[0] = 0
      BY <2>1, <2>3
    <3>. QED BY <2>2, <2>3, <2>4, <3>1 DEF Sums
  <2>6. cumsum(d) = h
    BY <2>2, <2>5, CumIs
  <2>7. d \in G
    BY <2>2, <2>5, <2>6
  <2>. QED BY <2>3, <2>6, <2>7 DEF d, f, n
<1>3. Seq(Nat) \subseteq G
  <2>1. \A c \in Seq(Nat), x \in Nat : c \in G => Append(c, x) \in G
    BY <1>2
  <2>. HIDE DEF G
  <2>. QED BY <1>1, <2>1, SeqInduction
<1>. QED BY <1>1, <1>2, <1>3

\* The sums grow.
LEMMA CumGrows ==
    ASSUME NEW c \in Seq(Nat)
    PROVE  \A i, j \in 0..Len(c) : i <= j => cumsum(c)[i] <= cumsum(c)[j]
<1>. DEFINE f == cumsum(c)
            n == Len(c)
<1>1. /\ n \in Nat /\ \A k \in 0..n : f[k] \in Nat
      /\ \A k \in 1..n : f[k] = f[k - 1] + c[k] /\ c[k] \in Nat
  BY CumFacts, SumsFacts
<1>. HIDE DEF f, n
<1>2. ASSUME NEW i \in 0..n PROVE \A j \in 0..n : i <= j => f[i] <= f[j]
  <2>. DEFINE Bad == {j \in 0..n : i <= j /\ ~ (f[i] <= f[j])}
  <2>1. Bad = {}
    <3>1. SUFFICES ASSUME Bad # {} PROVE FALSE
      OBVIOUS
    <3>2. PICK k \in Bad : k \in 0..n /\ \A m \in 0..k - 1 : m \notin Bad
      <4>1. Bad \in SUBSET (0..n)
        OBVIOUS
      <4>. HIDE DEF Bad
      <4>. QED BY <1>1, <3>1, <4>1, FirstFailure
    <3>3. k # i
      BY <1>1, <3>2
    <3>4. k \in 1..n /\ k - 1 \in 0..n /\ i <= k - 1 /\ k - 1 \in 0..k - 1
      BY <1>1, <3>2, <3>3
    <3>5. f[i] <= f[k - 1]
      <4>1. k - 1 \notin Bad
        BY <3>2, <3>4
      <4>. QED BY <3>4, <4>1
    <3>6. f[i] \in Nat /\ f[k - 1] \in Nat /\ f[k] = f[k - 1] + c[k] /\ c[k] \in Nat
      BY <1>1, <3>4
    <3>7. ~ (f[i] <= f[k])
      BY <3>2
    <3>. QED BY <3>5, <3>6, <3>7
  <2>. QED BY <2>1
<1>. QED BY <1>2 DEF f, n

\* A place belongs to one run, and RunOf finds it.
LEMMA RunFound ==
    ASSUME NEW c \in Seq(Nat), NEW i \in 1..Len(c), NEW j \in 1..c[i]
    PROVE  /\ RunOf(cumsum(c), cumsum(c)[i - 1] + j) = i
           /\ cumsum(c)[i - 1] + j \in 1..cumsum(c)[Len(c)]
<1>. DEFINE f == cumsum(c)
            n == Len(c)
            p == f[i - 1] + j
<1>1. /\ n \in Nat /\ i \in 1..n /\ j \in 1..c[i] /\ f[0] = 0
      /\ \A k \in 0..n : f[k] \in Nat
      /\ \A k \in 1..n : k - 1 \in 0..n /\ k \in 0..n
      /\ \A k \in 1..n : f[k] = f[k - 1] + c[k] /\ c[k] \in Nat
  BY CumFacts, SumsFacts
<1>2. \A a, b \in 0..n : a <= b => f[a] <= f[b]
  BY CumGrows
<1>0. DOMAIN f \ {0} = 1..n
  <2>1. Sums(f, c)
    BY CumFacts
  <2>. HIDE DEF f
  <2>. QED BY <1>1, <2>1 DEF Sums
<1>. HIDE DEF f, n
<1>3. f[i - 1] < p /\ p <= f[i] /\ f[i] = f[i - 1] + c[i] /\ i - 1 \in 0..n /\ p \in Nat
  BY <1>1, SMTT(30)
<1>4. ASSUME NEW k \in 1..n, f[k - 1] < p, p <= f[k] PROVE k = i
  <2>1. k - 1 \in 0..n /\ k \in 0..n /\ i \in 0..n /\ f[k] \in Nat /\ f[k - 1] \in Nat /\ f[i] \in Nat /\ f[i - 1] \in Nat
    BY <1>1, <1>3, <1>4
  <2>2. CASE k < i
    <3>1. k <= i - 1
      BY <1>1, <2>2
    <3>2. f[k] <= f[i - 1]
      BY <1>2, <1>3, <2>1, <3>1
    <3>. QED BY <1>3, <1>4, <2>1, <3>2
  <2>3. CASE i < k
    BY <1>1, <1>2, <1>3, <1>4, <2>1, <2>3, SMTT(30)
  <2>. QED BY <1>1, <2>2, <2>3
<1>6. RunOf(f, p) = i
  <2>. HIDE DEF p
  <2>1. RunOf(f, p) = CHOOSE k \in 1..n : f[k - 1] < p /\ p <= f[k]
    BY <1>0 DEF RunOf
  <2>. QED BY <1>1, <1>3, <1>4, <2>1
<1>7. p \in 1..f[n]
  <2>1. i \in 0..n /\ n \in 0..n /\ i <= n
    BY <1>1
  <2>. QED BY <1>1, <1>2, <1>3, <2>1, SMTT(30)
<1>. QED BY <1>6, <1>7 DEF f, n

\* What chooses the elements one by one.
Chooses(f, s, S) ==
    /\ DOMAIN f = 0..Len(s) /\ f = [k \in 0..Len(s) |-> f[k]]
    /\ f[0] = <<>>
    /\ \A k \in 1..Len(s) : f[k] = IF s[k] \in S THEN Append(f[k - 1], s[k]) ELSE f[k - 1]

LEMMA OnlyIs ==
    ASSUME NEW s, Len(s) \in Nat, NEW S, NEW f, Chooses(f, s, S)
    PROVE  Only(s, S) = f[Len(s)]
<1>. DEFINE n == Len(s)
            Is(h) == h = [k \in 0..n |->
                             IF k = 0 THEN <<>>
                             ELSE IF s[k] \in S THEN Append(h[k - 1], s[k]) ELSE h[k - 1]]
            only[k \in 0..n] ==
                IF k = 0 THEN <<>>
                ELSE IF s[k] \in S THEN Append(only[k - 1], s[k]) ELSE only[k - 1]
<1>1. \A k \in 0..n : f[k] = IF k = 0 THEN <<>>
                             ELSE IF s[k] \in S THEN Append(f[k - 1], s[k]) ELSE f[k - 1]
  BY DEF Chooses
<1>2. Is(f)
  <2>1. f = [k \in 0..n |-> f[k]]
    BY DEF Chooses
  <2>. QED BY <1>1, <2>1
<1>3. ASSUME NEW h, Is(h) PROVE h = f
  <2>. DEFINE Bad == {k \in 0..n : h[k] # f[k]}
  <2>1. \A k \in 0..n : h[k] = IF k = 0 THEN <<>>
                               ELSE IF s[k] \in S THEN Append(h[k - 1], s[k]) ELSE h[k - 1]
    BY <1>3
  <2>2. Bad = {}
    <3>1. SUFFICES ASSUME Bad # {} PROVE FALSE
      OBVIOUS
    <3>2. PICK k \in Bad : k \in 0..n /\ \A m \in 0..k - 1 : m \notin Bad
      <4>1. Bad \in SUBSET (0..n)
        OBVIOUS
      <4>. HIDE DEF Bad
      <4>. QED BY <3>1, <4>1, FirstFailure
    <3>3. k # 0 => k - 1 \in 0..n /\ h[k - 1] = f[k - 1]
      BY <3>2
    <3>. QED BY <1>1, <2>1, <3>2, <3>3
  <2>3. h = [k \in 0..n |-> h[k]] /\ f = [k \in 0..n |-> f[k]]
    BY <1>3 DEF Chooses
  <2>. QED BY <2>2, <2>3
<1>4. only = f
  BY <1>2, <1>3
<1>5. Only(s, S) = only[n]
  BY DEF Only
<1>. HIDE DEF only
<1>. QED BY <1>4, <1>5

\* Only, one element at a time.
LEMMA OnlySteps ==
    ASSUME NEW X, NEW S
    PROVE  /\ Only(<<>>, S) = <<>>
           /\ \A s \in Seq(X) : Only(s, S) \in Seq(X)
           /\ \A s \in Seq(X), x \in X :
                /\ x \in S => Only(Append(s, x), S) = Append(Only(s, S), x)
                /\ x \notin S => Only(Append(s, x), S) = Only(s, S)
<1>. DEFINE G == {s \in Seq(X) : Only(s, S) \in Seq(X) /\ \E f : Chooses(f, s, S)}
<1>1. Only(<<>>, S) = <<>> /\ <<>> \in G
  <2>. DEFINE f == [k \in {0} |-> <<>>]
  <2>1. <<>> \in Seq(X) /\ Len(<<>>) = 0 /\ 0..0 = {0} /\ 1..0 = {}
    OBVIOUS
  <2>2. Chooses(f, <<>>, S) /\ f[0] = <<>>
    BY <2>1 DEF Chooses
  <2>. HIDE DEF f
  <2>3. Only(<<>>, S) = <<>>
    BY <2>1, <2>2, OnlyIs
  <2>. QED BY <2>1, <2>2, <2>3
<1>2. ASSUME NEW s \in Seq(X), NEW x \in X, s \in G
      PROVE  /\ Append(s, x) \in G
             /\ x \in S => Only(Append(s, x), S) = Append(Only(s, S), x)
             /\ x \notin S => Only(Append(s, x), S) = Only(s, S)
  <2>. DEFINE t == Append(s, x)
              n == Len(s)
  <2>1. PICK f : Chooses(f, s, S)
    BY <1>2
  <2>2. /\ n \in Nat /\ t \in Seq(X) /\ Len(t) = n + 1 /\ t[n + 1] = x
        /\ \A k \in 1..n : t[k] = s[k]
    BY AppendFacts
  <2>3. Only(s, S) = f[n] /\ f[n] \in Seq(X)
    BY <1>2, <2>1, <2>2, OnlyIs
  <2>. HIDE DEF t
  <2>. DEFINE y == IF x \in S THEN Append(f[n], x) ELSE f[n]
              h == [k \in 0..n + 1 |-> IF k = n + 1 THEN y ELSE f[k]]
  <2>4. /\ DOMAIN h = 0..n + 1 /\ h = [k \in 0..n + 1 |-> h[k]]
        /\ h[n + 1] = y /\ \A k \in 0..n : h[k] = f[k]
    BY <2>2
  <2>5. f[0] = <<>> /\ \A k \in 1..n : f[k] = IF s[k] \in S THEN Append(f[k - 1], s[k]) ELSE f[k - 1]
    BY <2>1 DEF Chooses
  <2>. HIDE DEF h, n
  <2>6. h[0] = <<>>
    <3>1. 0 \in 0..n
      BY <2>2
    <3>. QED BY <2>4, <2>5, <3>1
  <2>7. ASSUME NEW k \in 1..n + 1
        PROVE  h[k] = IF t[k] \in S THEN Append(h[k - 1], t[k]) ELSE h[k - 1]
    <3>1. CASE k = n + 1
      <4>1. h[k - 1] = f[n] /\ t[k] = x /\ h[k] = y
        <5>1. k - 1 = n /\ n \in 0..n
          BY <2>2, <3>1
        <5>. QED BY <2>2, <2>4, <3>1, <5>1
      <4>. QED BY <4>1
    <3>2. CASE k # n + 1
      <4>1. k \in 1..n /\ k \in 0..n /\ k - 1 \in 0..n
        BY <2>2, <3>2
      <4>2. h[k] = f[k] /\ h[k - 1] = f[k - 1] /\ t[k] = s[k]
        BY <2>2, <2>4, <4>1
      <4>. QED BY <2>5, <4>1, <4>2
    <3>. QED BY <3>1, <3>2
  <2>8. Chooses(h, t, S)
    BY <2>2, <2>4, <2>6, <2>7 DEF Chooses
  <2>9. Only(t, S) = y
    BY <2>2, <2>4, <2>8, OnlyIs
  <2>10. y \in Seq(X)
    BY <2>3
  <2>11. t \in G
    BY <2>2, <2>8, <2>9, <2>10
  <2>. QED BY <2>3, <2>9, <2>11 DEF t
<1>3. Seq(X) \subseteq G
  <2>1. \A s \in Seq(X), x \in X : s \in G => Append(s, x) \in G
    BY <1>2
  <2>. HIDE DEF G
  <2>. QED BY <1>1, <2>1, SeqInduction
<1>. QED BY <1>1, <1>2, <1>3

LEMMA OnlyEmpty == \A S : Only(<<>>, S) = <<>>
BY OnlySteps

LEMMA OnlyType ==
    ASSUME NEW X, NEW S, NEW s \in Seq(X)
    PROVE  Only(s, S) \in Seq(X)
BY OnlySteps

LEMMA OnlyTakes ==
    ASSUME NEW X, NEW S, NEW s \in Seq(X), NEW x \in X, x \in S
    PROVE  Only(Append(s, x), S) = Append(Only(s, S), x)
<1>1. \A u \in Seq(X), y \in X :
        /\ y \in S => Only(Append(u, y), S) = Append(Only(u, S), y)
        /\ y \notin S => Only(Append(u, y), S) = Only(u, S)
  BY OnlySteps
<1>. QED BY <1>1

LEMMA OnlySkips ==
    ASSUME NEW X, NEW S, NEW s \in Seq(X), NEW x \in X, x \notin S
    PROVE  Only(Append(s, x), S) = Only(s, S)
<1>1. \A u \in Seq(X), y \in X :
        /\ y \in S => Only(Append(u, y), S) = Append(Only(u, S), y)
        /\ y \notin S => Only(Append(u, y), S) = Only(u, S)
  BY OnlySteps
<1>. QED BY <1>1

\* The elements that are left, and when they are all.
LEMMA OnlyElements ==
    ASSUME NEW X, NEW S, NEW s \in Seq(X)
    PROVE  /\ Only(s, S) \in Seq(X)
           /\ Range(Only(s, S)) = Range(s) \cap S
           /\ Range(s) \subseteq S => Only(s, S) = s
<1>. DEFINE G == {t \in Seq(X) : /\ Range(Only(t, S)) = Range(t) \cap S
                                 /\ Range(t) \subseteq S => Only(t, S) = t}
<1>1. <<>> \in G
  <2>1. Range(<<>>) = {} /\ <<>> \in Seq(X)
    BY DEF Range
  <2>. QED BY <2>1, OnlyEmpty, OnlyType, OnlyTakes, OnlySkips
<1>2. ASSUME NEW t \in Seq(X), NEW x \in X, t \in G PROVE Append(t, x) \in G
  <2>1. Append(t, x) \in Seq(X) /\ Range(Append(t, x)) = Range(t) \cup {x} /\ Only(t, S) \in Seq(X)
    BY AppendIn, AppendRange, OnlyType
  <2>2. CASE x \in S
    <3>1. Only(Append(t, x), S) = Append(Only(t, S), x)
      BY <2>2, OnlyEmpty, OnlyType, OnlyTakes, OnlySkips
    <3>2. Range(Append(Only(t, S), x)) = Range(Only(t, S)) \cup {x}
      BY <2>1, AppendRange
    <3>. QED BY <1>2, <2>1, <2>2, <3>1, <3>2
  <2>3. CASE x \notin S
    <3>1. Only(Append(t, x), S) = Only(t, S)
      BY <2>3, OnlyEmpty, OnlyType, OnlyTakes, OnlySkips
    <3>. QED BY <1>2, <2>1, <2>3, <3>1
  <2>. QED BY <2>2, <2>3
<1>3. Seq(X) \subseteq G
  <2>. HIDE DEF G
  <2>. QED BY <1>1, <1>2, SeqInduction
<1>. QED BY <1>3, OnlyEmpty, OnlyType, OnlyTakes, OnlySkips

\* It chooses from mapped elements as it does from the elements.
\* The provers find X and Y in "f \in Maps(X, Y)" where they do not in "f \in [X -> Y]".
Maps(X, Y) == [X -> Y]

LEMMA OnlyOfEach ==
    ASSUME NEW X, NEW Y, NEW f \in Maps(X, Y), NEW S, NEW T, \A x \in X : x \in S <=> f[x] \in T,
           NEW s \in Seq(X)
    PROVE  Only(Each(f, s), T) = Each(f, Only(s, S))
<1>. SUFFICES ASSUME f \in [X -> Y]
              PROVE  Only(Each(f, s), T) = Each(f, Only(s, S))
  BY DEF Maps
<1>. DEFINE G == {t \in Seq(X) : Only(Each(f, t), T) = Each(f, Only(t, S))}
<1>1. <<>> \in G
  BY EachEmpty, EachSeq, EachAppend, OnlyEmpty, OnlyType, OnlyTakes, OnlySkips
<1>2. ASSUME NEW t \in Seq(X), NEW x \in X, t \in G PROVE Append(t, x) \in G
  <2>1. Append(t, x) \in Seq(X) /\ Each(f, Append(t, x)) = Append(Each(f, t), f[x])
    BY AppendIn, EachAppend, ZenonT(40)
  <2>2. Each(f, t) \in Seq(Y) /\ f[x] \in Y /\ Only(t, S) \in Seq(X)
    BY EachSeq, OnlyType
  <2>3. CASE x \in S
    <3>1. Only(Append(t, x), S) = Append(Only(t, S), x)
      BY <2>3, OnlyEmpty, OnlyType, OnlyTakes, OnlySkips
    <3>2. Each(f, Append(Only(t, S), x)) = Append(Each(f, Only(t, S)), f[x])
      BY <2>2, EachAppend, ZenonT(40)
    <3>3. Only(Append(Each(f, t), f[x]), T) = Append(Only(Each(f, t), T), f[x])
      BY <2>2, <2>3, OnlyEmpty, OnlyType, OnlyTakes, OnlySkips
    <3>. QED BY <1>2, <2>1, <3>1, <3>2, <3>3
  <2>4. CASE x \notin S
    <3>1. Only(Append(t, x), S) = Only(t, S)
      BY <2>4, OnlyEmpty, OnlyType, OnlyTakes, OnlySkips
    <3>2. Only(Append(Each(f, t), f[x]), T) = Only(Each(f, t), T)
      BY <2>2, <2>4, OnlyEmpty, OnlyType, OnlyTakes, OnlySkips
    <3>. QED BY <1>2, <2>1, <3>1, <3>2
  <2>. QED BY <2>3, <2>4
<1>3. Seq(X) \subseteq G
  <2>. HIDE DEF G
  <2>. QED BY <1>1, <1>2, SeqInduction
<1>. QED BY <1>3

\* It depends on the elements only.
LEMMA OnlyAgrees ==
    ASSUME NEW X, NEW S, NEW T, NEW s \in Seq(X), \A x \in Range(s) : x \in S <=> x \in T
    PROVE  Only(s, S) = Only(s, T)
<1>. DEFINE G == {t \in Seq(X) : (\A x \in Range(t) : x \in S <=> x \in T) => Only(t, S) = Only(t, T)}
<1>1. <<>> \in G
  BY OnlyEmpty, OnlyType, OnlyTakes, OnlySkips
<1>2. ASSUME NEW t \in Seq(X), NEW x \in X, t \in G PROVE Append(t, x) \in G
  <2>1. Append(t, x) \in Seq(X) /\ Range(Append(t, x)) = Range(t) \cup {x}
    BY AppendIn, AppendRange
  <2>2. /\ x \in S => Only(Append(t, x), S) = Append(Only(t, S), x)
        /\ x \notin S => Only(Append(t, x), S) = Only(t, S)
    BY OnlyEmpty, OnlyType, OnlyTakes, OnlySkips
  <2>3. /\ x \in T => Only(Append(t, x), T) = Append(Only(t, T), x)
        /\ x \notin T => Only(Append(t, x), T) = Only(t, T)
    BY OnlyEmpty, OnlyType, OnlyTakes, OnlySkips
  <2>. QED BY <1>2, <2>1, <2>2, <2>3
<1>3. Seq(X) \subseteq G
  <2>. HIDE DEF G
  <2>. QED BY <1>1, <1>2, SeqInduction
<1>. QED BY <1>3

\* Chosen from two sequences in a row, and from many.
LEMMA OnlyOfConcat ==
    ASSUME NEW X, NEW S, NEW s \in Seq(X), NEW t \in Seq(X)
    PROVE  Only(s \o t, S) = Only(s, S) \o Only(t, S)
<1>0. \A a, b, c \in Seq(X) : (a \o b) \o c = a \o (b \o c)
  BY ConcatAssociative, SMTT(30)
<1>. DEFINE G == {u \in Seq(X) : Only(s \o u, S) = Only(s, S) \o Only(u, S)}
<1>1. <<>> \in G
  <2>1. <<>> \in Seq(X) /\ s \o <<>> = s /\ Only(s, S) \in Seq(X)
    BY OnlyEmpty, OnlyType, OnlyTakes, OnlySkips
  <2>2. Only(s, S) \o <<>> = Only(s, S)
    BY <2>1, ConcatEmptySeq
  <2>. QED BY <2>1, <2>2, OnlyEmpty, OnlyType, OnlyTakes, OnlySkips
<1>2. ASSUME NEW u \in Seq(X), NEW x \in X, u \in G PROVE Append(u, x) \in G
  <2>1. /\ Append(u, x) \in Seq(X) /\ s \o u \in Seq(X)
        /\ Append(u, x) = u \o <<x>> /\ <<x>> \in Seq(X)
        /\ Only(s, S) \in Seq(X) /\ Only(u, S) \in Seq(X)
        /\ Only(s, S) \o Only(u, S) \in Seq(X)
    BY AppendFacts, OnlyEmpty, OnlyType, OnlyTakes, OnlySkips, ConcatProperties
  <2>2. s \o Append(u, x) = Append(s \o u, x)
    <3>1. Append(s \o u, x) = (s \o u) \o <<x>>
      BY <2>1, AppendFacts
    <3>2. (s \o u) \o <<x>> = s \o (u \o <<x>>)
      <4>. DEFINE one == <<x>>
      <4>1. one \in Seq(X)
        OBVIOUS
      <4>. HIDE DEF one
      <4>2. (s \o u) \o one = s \o (u \o one)
        BY <1>0, <4>1
      <4>. QED BY <4>2 DEF one
    <3>. QED BY <2>1, <3>1, <3>2
  <2>3. CASE x \in S
    <3>1. /\ Only(Append(u, x), S) = Append(Only(u, S), x)
          /\ Only(Append(s \o u, x), S) = Append(Only(s \o u, S), x)
      <4>1. \A w \in Seq(X) : Only(Append(w, x), S) = Append(Only(w, S), x)
        BY <2>3, OnlyTakes
      <4>2. u \in Seq(X) /\ s \o u \in Seq(X)
        BY <2>1
      <4>. QED BY <4>1, <4>2, Zenon
    <3>2. /\ Append(Only(u, S), x) = Only(u, S) \o <<x>>
          /\ Append(Only(s, S) \o Only(u, S), x) = (Only(s, S) \o Only(u, S)) \o <<x>>
      BY <2>1, AppendFacts
    <3>3. (Only(s, S) \o Only(u, S)) \o <<x>> = Only(s, S) \o (Only(u, S) \o <<x>>)
      <4>. DEFINE one == <<x>>
      <4>1. one \in Seq(X)
        OBVIOUS
      <4>. HIDE DEF one
      <4>0. Only(s, S) \in Seq(X) /\ Only(u, S) \in Seq(X)
        BY <2>1
      <4>. DEFINE a == Only(s, S)
                  b == Only(u, S)
      <4>. HIDE DEF a, b
      <4>2. a \in Seq(X) /\ b \in Seq(X)
        BY <4>0 DEF a, b
      <4>3. (a \o b) \o one = a \o (b \o one)
        BY <1>0, <4>1, <4>2, SMTT(30)
      <4>. QED BY <4>3 DEF one, a, b
    <3>. QED BY <1>2, <2>1, <2>2, <3>1, <3>2, <3>3
  <2>4. CASE x \notin S
    <3>1. /\ Only(Append(u, x), S) = Only(u, S)
          /\ Only(Append(s \o u, x), S) = Only(s \o u, S)
      BY <2>1, <2>4, OnlyEmpty, OnlyType, OnlyTakes, OnlySkips
    <3>. QED BY <1>2, <2>1, <2>2, <3>1
  <2>. QED BY <2>3, <2>4
<1>3. Seq(X) \subseteq G
  <2>. HIDE DEF G
  <2>. QED BY <1>1, <1>2, SeqInduction
<1>. QED BY <1>3

LEMMA OnlyOfFlat ==
    ASSUME NEW X, NEW Y, NEW S, NEW f \in Maps(X, Seq(Y)), NEW g \in Maps(X, Seq(Y)),
           \A x \in X : g[x] = Only(f[x], S), NEW s \in Seq(X)
    PROVE  Only(FlattenSeq(Each(f, s)), S) = FlattenSeq(Each(g, s))
<1>. SUFFICES ASSUME f \in [X -> Seq(Y)], g \in [X -> Seq(Y)]
              PROVE  Only(FlattenSeq(Each(f, s)), S) = FlattenSeq(Each(g, s))
  BY DEF Maps
<1>. DEFINE G == {t \in Seq(X) : Only(FlattenSeq(Each(f, t)), S) = FlattenSeq(Each(g, t))}
<1>1. <<>> \in G
  <2>1. FlattenSeq(<<>>) = <<>>
    BY FlattenEmpty
  <2>. QED BY <2>1, EachEmpty, EachSeq, EachAppend, OnlyEmpty, OnlyType, OnlyTakes, OnlySkips
<1>2. ASSUME NEW t \in Seq(X), NEW x \in X, t \in G PROVE Append(t, x) \in G
  <2>1. /\ Append(t, x) \in Seq(X)
        /\ Each(f, Append(t, x)) = Append(Each(f, t), f[x])
        /\ Each(g, Append(t, x)) = Append(Each(g, t), g[x])
        /\ Each(f, t) \in Seq(Seq(Y)) /\ Each(g, t) \in Seq(Seq(Y)) /\ f[x] \in Seq(Y) /\ g[x] \in Seq(Y)
    <3>1. Append(t, x) \in Seq(X)
      BY AppendIn
    <3>2. /\ Each(f, Append(t, x)) = Append(Each(f, t), f[x])
          /\ Each(g, Append(t, x)) = Append(Each(g, t), g[x])
      BY EachAppend, ZenonT(40)
    <3>3. Each(f, t) \in Seq(Seq(Y)) /\ Each(g, t) \in Seq(Seq(Y))
      BY EachSeq
    <3>. QED BY <3>1, <3>2, <3>3
  <2>2. /\ FlattenSeq(Append(Each(f, t), f[x])) = FlattenSeq(Each(f, t)) \o f[x]
        /\ FlattenSeq(Append(Each(g, t), g[x])) = FlattenSeq(Each(g, t)) \o g[x]
    BY <2>1, FlattenAppend
  <2>3. FlattenSeq(Each(f, t)) \in Seq(Y)
    BY <2>1, FlattenElements
  <2>4. Only(FlattenSeq(Each(f, t)) \o f[x], S) = Only(FlattenSeq(Each(f, t)), S) \o Only(f[x], S)
    BY <2>1, <2>3, OnlyOfConcat, SMTT(30)
  <2>. QED BY <1>2, <2>1, <2>2, <2>4
<1>3. Seq(X) \subseteq G
  <2>. HIDE DEF G
  <2>. QED BY <1>1, <1>2, SeqInduction
<1>. QED BY <1>3

\* Elements that give nothing may be left out.
LEMMA FlatOfOnly ==
    ASSUME NEW X, NEW Y, NEW S, NEW f \in [X -> Seq(Y)], NEW s \in Seq(X),
           \A x \in Range(s) : x \notin S => f[x] = <<>>
    PROVE  FlattenSeq(Each(f, Only(s, S))) = FlattenSeq(Each(f, s))
<1>. DEFINE G == {t \in Seq(X) : (\A x \in Range(t) : x \notin S => f[x] = <<>>)
                                 => FlattenSeq(Each(f, Only(t, S))) = FlattenSeq(Each(f, t))}
<1>1. <<>> \in G
  BY OnlyEmpty, OnlyType, OnlyTakes, OnlySkips
<1>2. ASSUME NEW t \in Seq(X), NEW x \in X, t \in G PROVE Append(t, x) \in G
  <2>1. /\ Append(t, x) \in Seq(X) /\ Range(Append(t, x)) = Range(t) \cup {x}
        /\ Each(f, Append(t, x)) = Append(Each(f, t), f[x])
        /\ Each(f, t) \in Seq(Seq(Y)) /\ f[x] \in Seq(Y)
        /\ Only(t, S) \in Seq(X)
    <3>1. Append(t, x) \in Seq(X) /\ Range(Append(t, x)) = Range(t) \cup {x} /\ Only(t, S) \in Seq(X)
      BY AppendIn, AppendRange, OnlyType
    <3>2. Each(f, Append(t, x)) = Append(Each(f, t), f[x])
      BY EachAppend, Zenon
    <3>3. Each(f, t) \in Seq(Seq(Y))
      BY EachSeq
    <3>. QED BY <3>1, <3>2, <3>3
  <2>2. FlattenSeq(Append(Each(f, t), f[x])) = FlattenSeq(Each(f, t)) \o f[x]
    BY <2>1, FlattenAppend
  <2>3. CASE x \in S
    <3>1. Only(Append(t, x), S) = Append(Only(t, S), x)
      BY <2>3, OnlyEmpty, OnlyType, OnlyTakes, OnlySkips
    <3>2. Each(f, Append(Only(t, S), x)) = Append(Each(f, Only(t, S)), f[x])
      <4>1. Only(t, S) \in Seq(X)
        BY <2>1
      <4>. QED BY <4>1, EachAppend, ZenonT(40)
    <3>3. Each(f, Only(t, S)) \in Seq(Seq(Y))
      BY <2>1, EachEmpty, EachSeq, EachAppend
    <3>4. FlattenSeq(Append(Each(f, Only(t, S)), f[x])) = FlattenSeq(Each(f, Only(t, S))) \o f[x]
      BY <2>1, <3>3, FlattenAppend
    <3>. QED BY <1>2, <2>1, <2>2, <3>1, <3>2, <3>4
  <2>4. CASE x \notin S
    <3>1. Only(Append(t, x), S) = Only(t, S)
      BY <2>4, OnlyEmpty, OnlyType, OnlyTakes, OnlySkips
    <3>2. FlattenSeq(Each(f, t)) \in Seq(Y)
      BY <2>1, FlattenElements
    <3>3. FlattenSeq(Each(f, t)) \o <<>> = FlattenSeq(Each(f, t))
      BY <3>2, ConcatEmptySeq
    <3>4. SUFFICES ASSUME \A z \in Range(Append(t, x)) : z \notin S => f[z] = <<>>
                   PROVE  FlattenSeq(Each(f, Only(Append(t, x), S))) = FlattenSeq(Each(f, Append(t, x)))
      BY <2>1
    <3>5. f[x] = <<>> /\ FlattenSeq(Each(f, Only(t, S))) = FlattenSeq(Each(f, t))
      BY <1>2, <2>1, <2>4, <3>4
    <3>. QED BY <2>1, <2>2, <3>1, <3>3, <3>5
  <2>. QED BY <2>3, <2>4
<1>3. Seq(X) \subseteq G
  <2>. HIDE DEF G
  <2>. QED BY <1>1, <1>2, SeqInduction
<1>. QED BY <1>3

-----------------------------------------------------------------------------
\* Where an element of a flattened sequence comes from.
LEMMA LengthsFacts ==
    ASSUME NEW S, NEW ss \in Seq(Seq(S))
    PROVE  /\ Lengths(ss) \in Seq(Nat) /\ Len(Lengths(ss)) = Len(ss)
           /\ \A k \in 1..Len(ss) : Lengths(ss)[k] = Len(ss[k])
<1>1. Len(ss) \in Nat /\ DOMAIN ss = 1..Len(ss)
  OBVIOUS
<1>2. \A k \in 1..Len(ss) : Len(ss[k]) \in Nat
  <2>1. \A k \in 1..Len(ss) : ss[k] \in Seq(S)
    OBVIOUS
  <2>. QED BY <2>1
<1>3. Lengths(ss) = [k \in 1..Len(ss) |-> Len(ss[k])]
  BY <1>1 DEF Lengths
<1>. QED BY <1>1, <1>2, <1>3

LEMMA LengthsAppend ==
    ASSUME NEW S, NEW ss \in Seq(Seq(S)), NEW s \in Seq(S)
    PROVE  Lengths(Append(ss, s)) = Append(Lengths(ss), Len(s))
<1>. DEFINE f == [q \in Seq(S) |-> Len(q)]
<1>1. f \in [Seq(S) -> Nat] /\ f[s] = Len(s) /\ Append(ss, s) \in Seq(Seq(S))
  OBVIOUS
<1>2. \A qq \in Seq(Seq(S)) : Lengths(qq) = Each(f, qq)
  BY DEF Lengths, Each
<1>. HIDE DEF f
<1>3. Each(f, Append(ss, s)) = Append(Each(f, ss), f[s])
  BY <1>1, EachAppend, Zenon
<1>. QED BY <1>1, <1>2, <1>3

LEMMA FlatPlaces ==
    ASSUME NEW S, NEW ss \in Seq(Seq(S))
    PROVE  /\ Len(FlattenSeq(ss)) = cumsum(Lengths(ss))[Len(ss)]
           /\ \A w \in 1..Len(ss) : \A j \in 1..Len(ss[w]) :
                FlattenSeq(ss)[cumsum(Lengths(ss))[w - 1] + j] = ss[w][j]
<1>. DEFINE At(tt) == /\ Len(FlattenSeq(tt)) = cumsum(Lengths(tt))[Len(tt)]
                      /\ \A w \in 1..Len(tt) : \A j \in 1..Len(tt[w]) :
                           FlattenSeq(tt)[cumsum(Lengths(tt))[w - 1] + j] = tt[w][j]
            G == {tt \in Seq(Seq(S)) : At(tt)}
<1>1. <<>> \in G
  <2>1. Lengths(<<>>) = <<>> /\ <<>> \in Seq(Seq(S)) /\ <<>> \in Seq(Nat) /\ Len(<<>>) = 0 /\ 1..0 = {}
    BY DEF Lengths
  <2>2. cumsum(<<>>)[0] = 0
    BY <2>1, CumFacts, SumsFacts
  <2>. QED BY <2>1, <2>2, FlattenEmpty
<1>2. ASSUME NEW tt \in Seq(Seq(S)), NEW s \in Seq(S), tt \in G PROVE Append(tt, s) \in G
  <2>. DEFINE n == Len(tt)
              f == FlattenSeq(tt)
              c == cumsum(Lengths(tt))
              uu == Append(tt, s)
              d == cumsum(Lengths(uu))
  <2>1. /\ n \in Nat /\ uu \in Seq(Seq(S)) /\ Len(uu) = n + 1 /\ uu[n + 1] = s
        /\ \A w \in 1..n : uu[w] = tt[w] /\ tt[w] \in Seq(S)
    BY AppendFacts
  <2>2. FlattenSeq(uu) = f \o s /\ f \in Seq(S)
    BY FlattenAppend, FlattenElements
  <2>3. Lengths(uu) = Append(Lengths(tt), Len(s)) /\ Lengths(tt) \in Seq(Nat) /\ Len(Lengths(tt)) = n
        /\ \A w \in 1..n : Lengths(tt)[w] = Len(tt[w])
    BY LengthsAppend, LengthsFacts
  <2>4. Len(s) \in Nat
    OBVIOUS
  <2>5. (\A k \in 0..n : d[k] = c[k]) /\ d[n + 1] = c[n] + Len(s)
    BY <2>3, <2>4, CumFacts
  <2>6. /\ Len(f) = c[n]
        /\ \A w \in 1..n : \A j \in 1..Len(tt[w]) : f[c[w - 1] + j] = tt[w][j]
    BY <1>2
  <2>7. \A w \in 1..n : \A j \in 1..Len(tt[w]) : c[w - 1] + j \in 1..c[n]
    <3>. SUFFICES ASSUME NEW w \in 1..n, NEW j \in 1..Len(tt[w]) PROVE c[w - 1] + j \in 1..c[n]
      OBVIOUS
    <3>. DEFINE l == Lengths(tt)
    <3>1. l \in Seq(Nat) /\ w \in 1..Len(l) /\ j \in 1..l[w] /\ Len(l) = n
      BY <2>3
    <3>. HIDE DEF l
    <3>2. cumsum(l)[w - 1] + j \in 1..cumsum(l)[Len(l)]
      BY <3>1, RunFound
    <3>. QED BY <3>1, <3>2 DEF l
  <2>. HIDE DEF n, c, d, f, uu
  <2>8. /\ Len(f \o s) = c[n] + Len(s)
        /\ \A p \in 1..c[n] : (f \o s)[p] = f[p]
        /\ \A p \in 1..Len(s) : (f \o s)[c[n] + p] = s[p]
    <3>1. /\ Len(f \o s) = Len(f) + Len(s)
          /\ \A p \in 1..Len(f) : (f \o s)[p] = f[p]
          /\ \A p \in 1..Len(s) : (f \o s)[Len(f) + p] = s[p]
      BY <2>2, ConcatFacts
    <3>. QED BY <2>6, <3>1
  <2>9. ASSUME NEW w \in 1..n + 1, NEW j \in 1..Len(uu[w])
        PROVE  FlattenSeq(uu)[d[w - 1] + j] = uu[w][j]
    <3>1. CASE w = n + 1
      <4>1. w - 1 = n /\ n \in 0..n /\ uu[w] = s
        BY <2>1, <3>1
      <4>2. d[w - 1] = c[n]
        BY <2>5, <4>1
      <4>. QED BY <2>2, <2>8, <2>9, <4>1, <4>2
    <3>2. CASE w # n + 1
      <4>1. w \in 1..n /\ w - 1 \in 0..n /\ uu[w] = tt[w]
        BY <2>1, <3>2
      <4>2. d[w - 1] = c[w - 1] /\ c[w - 1] + j \in 1..c[n] /\ f[c[w - 1] + j] = tt[w][j]
        BY <2>5, <2>6, <2>7, <2>9, <4>1
      <4>. QED BY <2>2, <2>8, <4>1, <4>2
    <3>. QED BY <2>1, <3>1, <3>2
  <2>10. Len(FlattenSeq(uu)) = d[n + 1]
    BY <2>2, <2>5, <2>8
  <2>11. uu \in Seq(Seq(S)) /\ At(uu)
    BY <2>1, <2>9, <2>10 DEF d
  <2>. QED BY <2>11 DEF uu
<1>3. Seq(Seq(S)) \subseteq G
  <2>. HIDE DEF G
  <2>. QED BY <1>1, <1>2, SeqInduction
<1>. QED BY <1>3

\* The ranges, run by run.
LEMMA RangesFacts ==
    ASSUME NEW starts, NEW counts \in Seq(Nat), NEW i \in 1..Len(counts), NEW j \in 1..counts[i]
    PROVE  /\ concatenated_ranges(starts, counts)[cumsum(counts)[i - 1] + j] = starts[i] + j
           /\ cumsum(counts)[i - 1] + j \in DOMAIN concatenated_ranges(starts, counts)
           /\ cumsum(counts)[i - 1] + j \in 1..cumsum(counts)[Len(counts)]
<1>. DEFINE off == cumsum(counts)
            p == off[i - 1] + j
<1>1. RunOf(off, p) = i /\ p \in 1..off[Len(counts)]
  BY RunFound
<1>2. off[i - 1] \in Nat
  BY CumFacts, SumsFacts
<1>3. concatenated_ranges(starts, counts)
        = [q \in 1..off[Len(counts)] |-> LET k == RunOf(off, q) IN starts[k] + (q - off[k - 1])]
  BY DEF concatenated_ranges
<1>. HIDE DEF off
<1>4. p - off[i - 1] = j
  BY <1>2
<1>. HIDE DEF p
<1>5. concatenated_ranges(starts, counts)[p] = starts[i] + j /\ p \in DOMAIN concatenated_ranges(starts, counts)
  BY <1>1, <1>3, <1>4
<1>. QED BY <1>1, <1>5 DEF p, off

\* The last node of a way is the front of no street.
LEMMA FrontFacts ==
    ASSUME NEW S, NEW q \in Seq(S)
    PROVE  /\ Len(q) \in Nat /\ DOMAIN q = 1..Len(q)
           /\ Len(q) >= 1 => DOMAIN Front(q) = 1..Len(q) - 1 /\ Len(Front(q)) = Len(q) - 1
           /\ Len(q) < 2 => Front(q) = <<>>
           /\ Front(q) \in Seq(S)
           /\ \A i \in DOMAIN Front(q) : Front(q)[i] = q[i] /\ i \in 1..Len(q) - 1 /\ i + 1 \in 1..Len(q)
<1>1. Len(q) \in Nat /\ DOMAIN q = 1..Len(q) /\ \A i \in 1..Len(q) - 1 : q[i] \in S
  OBVIOUS
<1>. DEFINE n == Len(q)
            fr == SubSeq(q, 1, n - 1)
<1>2. /\ fr \in Seq(S)
      /\ Len(fr) = IF 1 <= n - 1 THEN n - 1 - 1 + 1 ELSE 0
      /\ \A i \in 1..n - 1 - 1 + 1 : fr[i] = q[1 + i - 1]
  <2>1. 1 \in Int /\ n - 1 \in Int
    BY <1>1
  <2>. QED BY <1>1, <2>1, SubSeqProperties
<1>3. n < 2 => fr = <<>>
  BY <1>1, SubSeqEmpty
<1>. HIDE DEF n, fr
<1>4. n \in Nat /\ n = Len(q) /\ DOMAIN fr = 1..Len(fr)
  BY <1>1, <1>2, LenProperties DEF n
<1>5. Front(q) = fr
  BY DEF Front, fr, n
<1>6. n >= 1 => DOMAIN fr = 1..n - 1 /\ Len(fr) = n - 1
  BY <1>2, <1>3, <1>4
<1>7. ASSUME NEW i \in DOMAIN fr PROVE fr[i] = q[i] /\ i \in 1..n - 1 /\ i + 1 \in 1..n
  <2>1. n >= 1
    BY <1>3, <1>4
  <2>2. i \in 1..n - 1 /\ i \in 1..n - 1 - 1 + 1 /\ 1 + i - 1 = i
    BY <1>4, <1>6, <2>1
  <2>3. fr[i] = q[1 + i - 1]
    BY <1>2, <2>2
  <2>. QED BY <1>4, <2>2, <2>3
<1>. QED BY <1>1, <1>2, <1>3, <1>4, <1>5, <1>6, <1>7

LEMMA SegmentsFacts ==
    ASSUME NEW S, NEW q \in Seq(S)
    PROVE  /\ Segments(q) \in Seq(S \X S)
           /\ Len(q) >= 1 => DOMAIN Segments(q) = 1..Len(q) - 1 /\ Len(Segments(q)) = Len(q) - 1
           /\ Len(q) < 2 => Segments(q) = <<>>
           /\ \A i \in DOMAIN Segments(q) :
                Segments(q)[i] = <<q[i], q[i + 1]>> /\ i \in 1..Len(q) - 1 /\ i + 1 \in 1..Len(q)
<1>. DEFINE fr == Front(q)
<1>1. /\ Len(q) \in Nat /\ DOMAIN q = 1..Len(q) /\ fr \in Seq(S)
      /\ Len(q) >= 1 => DOMAIN fr = 1..Len(q) - 1 /\ Len(fr) = Len(q) - 1
      /\ Len(q) < 2 => fr = <<>>
      /\ \A i \in DOMAIN fr : i \in 1..Len(q) - 1 /\ i + 1 \in 1..Len(q)
  BY FrontFacts
<1>2. \A i \in 1..Len(q) : q[i] \in S
  OBVIOUS
<1>3. Segments(q) = [i \in DOMAIN fr |-> <<q[i], q[i + 1]>>]
  BY DEF Segments
<1>. HIDE DEF fr
<1>4. DOMAIN fr = 1..Len(fr) /\ Len(fr) \in Nat
  BY <1>1, LenProperties
<1>5. \A i \in 1..Len(fr) : q[i] \in S /\ q[i + 1] \in S
  <2>1. ASSUME NEW i \in 1..Len(fr) PROVE i \in 1..Len(q) /\ i + 1 \in 1..Len(q)
    <3>1. i \in 1..Len(q) - 1 /\ i + 1 \in 1..Len(q) /\ Len(q) \in Nat
      BY <1>1, <1>4
    <3>. QED BY <3>1
  <2>. QED BY <1>2, <2>1
<1>6. Segments(q) \in Seq(S \X S) /\ Len(Segments(q)) = Len(fr)
  BY <1>3, <1>4, <1>5
<1>7. fr = <<>> => Segments(q) = <<>>
  BY <1>3
<1>. QED BY <1>1, <1>3, <1>4, <1>6, <1>7

-----------------------------------------------------------------------------
(***************************************************************************)
(* The builder for all ways at once does what the builder for one does.    *)
(***************************************************************************)

\* The segments that are dealt out to the i-th way of vec are those of its nodes.
LEMMA DealtOut ==
    ASSUME NEW S, NEW ids \in Seq(Seq(S)), NEW vec \in Seq(DOMAIN ids),
           \A i \in DOMAIN vec : Len(ids[vec[i]]) >= 2,
           NEW k \in DOMAIN vec
    PROVE  LET cum == cumsum(seg_counts(ids, vec))
           IN  SubSeq(seg_geoms_all(ids, vec), cum[k - 1] + 1, cum[k]) = Segments(ids[vec[k]])
<1>. DEFINE counts == seg_counts(ids, vec)
            cum == cumsum(counts)
            offsets == cumsum(Lengths(ids))
            starts == [i \in DOMAIN vec |-> offsets[vec[i] - 1]]
            flat == FlattenSeq(ids)
            pos == concatenated_ranges(starts, counts)
            segs == SegmentsAt(flat, pos)
            q == ids[vec[k]]
            n == Len(vec)
<1>1. /\ n \in Nat /\ DOMAIN vec = 1..n /\ k \in 1..n
      /\ \A i \in 1..n : vec[i] \in DOMAIN ids
  OBVIOUS
<1>2. DOMAIN ids = 1..Len(ids) /\ Len(ids) \in Nat /\ \A w \in DOMAIN ids : ids[w] \in Seq(S)
  OBVIOUS
<1>3. /\ counts \in Seq(Nat) /\ Len(counts) = n
      /\ \A i \in 1..n : counts[i] = Len(ids[vec[i]]) - 1
  <2>1. \A i \in 1..n : Len(ids[vec[i]]) - 1 \in Nat
    <3>. SUFFICES ASSUME NEW i \in 1..n PROVE Len(ids[vec[i]]) - 1 \in Nat
      OBVIOUS
    <3>. DEFINE m == Len(ids[vec[i]])
    <3>1. ids[vec[i]] \in Seq(S) /\ m >= 2
      BY <1>1, <1>2
    <3>2. m \in Nat
      BY <3>1
    <3>. HIDE DEF m
    <3>3. m - 1 \in Nat
      BY <3>1, <3>2
    <3>. QED BY <3>3 DEF m
  <2>2. counts = [i \in 1..n |-> Len(ids[vec[i]]) - 1]
    BY <1>1 DEF seg_counts
  <2>. QED BY <1>1, <2>1, <2>2
<1>4. seg_geoms_all(ids, vec) = segs
  BY DEF seg_geoms_all, seg_start_pos
<1>5. q \in Seq(S) /\ Len(q) \in Nat /\ Len(q) >= 2 /\ counts[k] = Len(q) - 1 /\ vec[k] \in 1..Len(ids)
  BY <1>1, <1>2, <1>3, SMTT(30)
<1>6. \A j \in 1..Len(q) : flat[offsets[vec[k] - 1] + j] = q[j]
  BY <1>5, FlatPlaces
<1>7. starts[k] = offsets[vec[k] - 1]
  BY <1>1
<1>8. \A j \in 1..counts[k] : /\ pos[cum[k - 1] + j] = starts[k] + j
                              /\ cum[k - 1] + j \in DOMAIN pos
  <2>. SUFFICES ASSUME NEW j \in 1..counts[k]
                PROVE  pos[cum[k - 1] + j] = starts[k] + j /\ cum[k - 1] + j \in DOMAIN pos
    OBVIOUS
  <2>1. counts \in Seq(Nat) /\ k \in 1..Len(counts) /\ j \in 1..counts[k]
    BY <1>1, <1>3
  <2>. HIDE DEF starts, counts
  <2>. QED BY <2>1, RangesFacts
<1>9. segs = [p \in DOMAIN pos |-> <<flat[pos[p]], flat[pos[p] + 1]>>]
  BY DEF SegmentsAt
<1>10. offsets[vec[k] - 1] \in Nat
  <2>1. Lengths(ids) \in Seq(Nat) /\ Len(Lengths(ids)) = Len(ids)
    BY LengthsFacts
  <2>2. vec[k] - 1 \in 0..Len(Lengths(ids))
    BY <1>2, <1>5, <2>1, SMTT(30)
  <2>. QED BY <2>1, <2>2, CumFacts, SumsFacts
<1>11. cum[k - 1] \in Nat /\ cum[k] = cum[k - 1] + counts[k]
  <2>1. counts \in Seq(Nat) /\ Len(counts) = n
    BY <1>3
  <2>. HIDE DEF counts
  <2>2. Sums(cum, counts)
    BY <2>1, CumFacts
  <2>3. /\ \A i \in 0..n : cum[i] \in Nat
        /\ \A i \in 1..n : i - 1 \in 0..n
        /\ \A i \in 1..n : cum[i] = cum[i - 1] + counts[i]
    BY <2>1, <2>2, SumsFacts
  <2>. QED BY <1>1, <2>3
<1>. DEFINE o == offsets[vec[k] - 1]
            m == cum[k - 1]
            l == Len(q)
            e == cum[k]
<1>. HIDE DEF counts, cum, offsets, starts, flat, pos, segs, q, n
<1>20. /\ o \in Nat /\ m \in Nat /\ l \in Nat /\ l >= 2 /\ e = m + l - 1 /\ counts[k] = l - 1 /\ l = Len(q)
       /\ \A j \in 1..l : flat[o + j] = q[j]
       /\ \A j \in 1..l - 1 : pos[m + j] = o + j /\ m + j \in DOMAIN pos
  BY <1>5, <1>6, <1>7, <1>8, <1>10, <1>11
<1>21. o = offsets[vec[k] - 1] /\ m = cum[k - 1] /\ e = cum[k]
  OBVIOUS
<1>22. q \in Seq(S)
  BY <1>5
<1>. HIDE DEF o, m, l, e
<1>12. ASSUME NEW j \in 1..l - 1 PROVE segs[m + j] = <<q[j], q[j + 1]>>
  <2>1. j \in 1..l /\ j + 1 \in 1..l
    BY <1>20
  <2>2. pos[m + j] = o + j /\ m + j \in DOMAIN pos
    BY <1>20
  <2>3. o + j + 1 = o + (j + 1)
    BY <1>20
  <2>4. flat[o + j] = q[j] /\ flat[o + (j + 1)] = q[j + 1]
    BY <1>20, <2>1
  <2>. QED BY <1>9, <2>2, <2>3, <2>4
<1>13. /\ Segments(q) \in Seq(S \X S) /\ Len(Segments(q)) = l - 1
       /\ \A j \in 1..l - 1 : Segments(q)[j] = <<q[j], q[j + 1]>> /\ Segments(q)[j] \in S \X S
  <2>1. Segments(q) \in Seq(S \X S)
    BY <1>22, SegmentsFacts
  <2>2. Len(q) >= 1
    BY <1>20
  <2>3. DOMAIN Segments(q) = 1..Len(q) - 1 /\ Len(Segments(q)) = Len(q) - 1
    BY <1>22, <2>2, SegmentsFacts
  <2>4. \A j \in DOMAIN Segments(q) : Segments(q)[j] = <<q[j], q[j + 1]>>
    BY <1>22, SegmentsFacts
  <2>5. DOMAIN Segments(q) = 1..l - 1 /\ Len(Segments(q)) = l - 1
    BY <1>20, <2>3
  <2>6. \A j \in 1..Len(Segments(q)) : Segments(q)[j] \in S \X S
    BY <2>1, ElementOfSeq
  <2>. QED BY <2>1, <2>4, <2>5, <2>6
<1>. DEFINE a == m + 1
            sub == SubSeq(segs, a, e)
<1>14. a \in Int /\ e \in Int /\ a <= e /\ e - a + 1 = l - 1
  BY <1>20
<1>15. \A i \in a..e : segs[i] \in S \X S
  <2>. SUFFICES ASSUME NEW i \in a..e PROVE segs[i] \in S \X S
    OBVIOUS
  <2>. DEFINE j == i - m
  <2>1. j \in 1..l - 1 /\ i = m + j
    BY <1>20
  <2>. HIDE DEF j
  <2>2. segs[i] = Segments(q)[j]
    BY <1>12, <1>13, <2>1
  <2>. QED BY <1>13, <2>1, <2>2
<1>0. \A i \in 1..l - 1 : a + i - 1 = m + i
  BY <1>20
<1>16. /\ sub \in Seq(S \X S) /\ Len(sub) = l - 1
       /\ \A i \in 1..l - 1 : sub[i] = segs[a + i - 1]
  <2>. HIDE DEF a
  <2>1. /\ sub \in Seq(S \X S)
        /\ Len(sub) = IF a <= e THEN e - a + 1 ELSE 0
        /\ \A i \in 1..e - a + 1 : sub[i] = segs[a + i - 1]
    BY <1>14, <1>15, SubSeqProperties
  <2>. QED BY <1>14, <2>1
<1>18. \A i \in 1..l - 1 : sub[i] = Segments(q)[i]
  BY <1>0, <1>12, <1>13, <1>16
<1>19. sub = Segments(q)
  <2>. HIDE DEF sub
  <2>. QED BY <1>13, <1>16, <1>18, SeqEqual
<1>. QED BY <1>4, <1>19, <1>21 DEF q, cum, counts, a

\* The streets of a way before the box is looked at.
Links == Nodes \X Nodes
Directions == {"along", "against", "both"}
Street == [u : Nodes, v : Nodes, line : Links, oneway : Directions, class : Classes]
StreetOf(way) ==
    [p \in Links |-> [u |-> p[1], v |-> p[2], line |-> p, oneway |-> way.oneway, class |-> way.class]]
Kept(way) == Only(way.nodes, network.located)
AllOf(way) == Each(StreetOf(way), Segments(Kept(way)))

LEMMA WayFacts ==
    ASSUME NEW way \in Ways
    PROVE  /\ way.nodes \in Seq(Nodes) /\ way.oneway \in Directions /\ way.class \in Classes
           /\ Kept(way) \in Seq(Nodes) /\ Segments(Kept(way)) \in Seq(Links)
           /\ StreetOf(way) \in [Links -> Street]
           /\ AllOf(way) \in Seq(Street)
<1>1. way.nodes \in Seq(Nodes) /\ way.oneway \in Directions /\ way.class \in Classes
  BY DEF Ways, Directions
<1>2. Kept(way) \in Seq(Nodes)
  BY <1>1, OnlyType DEF Kept
<1>3. Segments(Kept(way)) \in Seq(Links)
  BY <1>2, SegmentsFacts DEF Links
<1>4. StreetOf(way) \in [Links -> Street]
  <2>1. ASSUME NEW p \in Links
        PROVE  [u |-> p[1], v |-> p[2], line |-> p, oneway |-> way.oneway, class |-> way.class] \in Street
    <3>1. p[1] \in Nodes /\ p[2] \in Nodes
      BY DEF Links
    <3>. QED BY <1>1, <3>1 DEF Street
  <2>. QED BY <2>1 DEF StreetOf
<1>5. AllOf(way) \in Seq(Street)
  BY <1>3, <1>4, EachSeq DEF AllOf
<1>. QED BY <1>1, <1>2, <1>3, <1>4, <1>5

\* The streets, one by one.
LEMMA AllOfFacts ==
    ASSUME NEW way \in Ways
    PROVE  /\ AllOf(way) \in Seq(Street)
           /\ DOMAIN AllOf(way) = DOMAIN Segments(Kept(way)) /\ Len(AllOf(way)) = Len(Segments(Kept(way)))
           /\ \A i \in DOMAIN Segments(Kept(way)) :
                AllOf(way)[i] = [u |-> Kept(way)[i], v |-> Kept(way)[i + 1],
                                 line |-> <<Kept(way)[i], Kept(way)[i + 1]>>,
                                 oneway |-> way.oneway, class |-> way.class]
<1>. DEFINE q == Kept(way)
            s == Segments(q)
            f == StreetOf(way)
<1>1. /\ q \in Seq(Nodes) /\ s \in Seq(Links) /\ f \in [Links -> Street] /\ AllOf(way) \in Seq(Street)
  BY WayFacts
<1>2. \A i \in DOMAIN s : s[i] = <<q[i], q[i + 1]>> /\ i \in 1..Len(q) - 1 /\ i + 1 \in 1..Len(q)
  BY <1>1, SegmentsFacts
<1>3. AllOf(way) = Each(f, s)
  BY DEF AllOf
<1>. HIDE DEF f, s
<1>4. DOMAIN AllOf(way) = DOMAIN s /\ Len(AllOf(way)) = Len(s) /\ \A i \in DOMAIN s : AllOf(way)[i] = f[s[i]]
  BY <1>1, <1>3, EachSeq
<1>5. ASSUME NEW i \in DOMAIN s
      PROVE  f[s[i]] = [u |-> q[i], v |-> q[i + 1], line |-> <<q[i], q[i + 1]>>,
                        oneway |-> way.oneway, class |-> way.class]
  <2>. HIDE DEF q
  <2>1. Len(q) \in Nat /\ q[i] \in Nodes /\ q[i + 1] \in Nodes
    <3>1. i \in 1..Len(q) /\ i + 1 \in 1..Len(q)
      <4>1. i \in 1..Len(q) - 1 /\ i + 1 \in 1..Len(q) /\ Len(q) \in Nat
        BY <1>1, <1>2
      <4>. QED BY <4>1
    <3>. QED BY <1>1, <3>1
  <2>2. <<q[i], q[i + 1]>> \in Links
    BY <2>1 DEF Links
  <2>. QED BY <1>2, <2>2 DEF f, StreetOf
<1>. QED BY <1>1, <1>4, <1>5 DEF s

\* What the builder returns for a way.
LEMMA BuilderFacts ==
    ASSUME NEW q \in Seq(Nodes), NEW kept, kept = Only(q, network.located)
    PROVE  LET b == create_linestring_geometry(q)
           IN  /\ kept \in Seq(Nodes)
               /\ Len(kept) > 1 => /\ b.geometry = Segments(kept) /\ b.from = Front(kept)
                                   /\ b.to = Tail(kept) /\ b.data = kept
               /\ ~ (Len(kept) > 1) => /\ b.geometry = <<>> /\ b.from = <<>> /\ b.to = <<>> /\ b.data = <<>>
               /\ b.geometry = Segments(kept)
               /\ b.geometry \in Seq(Links) /\ b.from \in Seq(Nodes) /\ b.to \in Seq(Nodes) /\ b.data \in Seq(Nodes)
               /\ Len(b.from) = Len(b.geometry) /\ Len(b.to) = Len(b.geometry)
               /\ \A i \in DOMAIN b.geometry : b.from[i] = kept[i] /\ b.to[i] = kept[i + 1]
               /\ b = [geometry |-> b.geometry, from |-> b.from, to |-> b.to, data |-> b.data]
<1>. DEFINE b == create_linestring_geometry(q)
<1>1. kept \in Seq(Nodes) /\ Len(kept) \in Nat /\ DOMAIN kept = 1..Len(kept)
  BY OnlyType
<1>2. b = IF Len(kept) > 1
          THEN [geometry |-> Segments(kept), from |-> Front(kept), to |-> Tail(kept), data |-> kept]
          ELSE [geometry |-> <<>>, from |-> <<>>, to |-> <<>>, data |-> <<>>]
  BY DEF create_linestring_geometry
<1>. HIDE DEF b
<1>3. /\ Len(kept) > 1 => /\ b.geometry = Segments(kept) /\ b.from = Front(kept)
                          /\ b.to = Tail(kept) /\ b.data = kept
      /\ ~ (Len(kept) > 1) => /\ b.geometry = <<>> /\ b.from = <<>> /\ b.to = <<>> /\ b.data = <<>>
      /\ b = [geometry |-> b.geometry, from |-> b.from, to |-> b.to, data |-> b.data]
  BY <1>2
<1>4. Segments(kept) \in Seq(Links) /\ (Len(kept) < 2 => Segments(kept) = <<>>)
  BY <1>1, SegmentsFacts DEF Links
<1>5. b.geometry = Segments(kept)
  BY <1>1, <1>3, <1>4
<1>. DEFINE Alike == /\ b.geometry \in Seq(Links) /\ b.from \in Seq(Nodes) /\ b.to \in Seq(Nodes) /\ b.data \in Seq(Nodes)
                     /\ Len(b.from) = Len(b.geometry) /\ Len(b.to) = Len(b.geometry)
                     /\ \A i \in DOMAIN b.geometry : b.from[i] = kept[i] /\ b.to[i] = kept[i + 1]
<1>6. ASSUME Len(kept) > 1 PROVE Alike
  <2>1. DOMAIN Segments(kept) = 1..Len(kept) - 1 /\ Len(Segments(kept)) = Len(kept) - 1
    <3>1. Len(kept) >= 1
      BY <1>1, <1>6
    <3>. QED BY <1>1, <3>1, SegmentsFacts
  <2>2. Front(kept) \in Seq(Nodes) /\ DOMAIN Front(kept) = 1..Len(kept) - 1 /\ Len(Front(kept)) = Len(kept) - 1
        /\ \A i \in DOMAIN Front(kept) : Front(kept)[i] = kept[i]
    <3>1. Len(kept) >= 1
      BY <1>1, <1>6
    <3>. QED BY <1>1, <3>1, FrontFacts
  <2>3. Tail(kept) \in Seq(Nodes) /\ Len(Tail(kept)) = Len(kept) - 1
        /\ \A i \in 1..Len(kept) - 1 : Tail(kept)[i] = kept[i + 1]
    <3>1. kept # <<>>
      BY <1>6
    <3>. QED BY <1>1, <3>1, HeadTailProperties
  <2>4. b.geometry = Segments(kept) /\ b.from = Front(kept) /\ b.to = Tail(kept) /\ b.data = kept
    BY <1>3, <1>6
  <2>5. ASSUME NEW i \in DOMAIN b.geometry PROVE b.from[i] = kept[i] /\ b.to[i] = kept[i + 1]
    BY <2>1, <2>2, <2>3, <2>4
  <2>6. Len(b.from) = Len(b.geometry) /\ Len(b.to) = Len(b.geometry)
    BY <2>1, <2>2, <2>3, <2>4
  <2>7. b.geometry \in Seq(Links) /\ b.from \in Seq(Nodes) /\ b.to \in Seq(Nodes) /\ b.data \in Seq(Nodes)
    BY <1>1, <1>4, <2>2, <2>3, <2>4
  <2>. QED BY <2>5, <2>6, <2>7
<1>7. ASSUME ~ (Len(kept) > 1) PROVE Alike
  <2>1. <<>> \in Seq(Links) /\ <<>> \in Seq(Nodes) /\ DOMAIN <<>> = {}
    BY EmptySeq
  <2>2. b.geometry = <<>> /\ b.from = <<>> /\ b.to = <<>> /\ b.data = <<>>
    BY <1>3, <1>7
  <2>. QED BY <2>1, <2>2
<1>8. Alike
  BY <1>6, <1>7
<1>. HIDE DEF Alike
<1>9. /\ kept \in Seq(Nodes)
      /\ Len(kept) > 1 => /\ b.geometry = Segments(kept) /\ b.from = Front(kept)
                          /\ b.to = Tail(kept) /\ b.data = kept
      /\ ~ (Len(kept) > 1) => /\ b.geometry = <<>> /\ b.from = <<>> /\ b.to = <<>> /\ b.data = <<>>
      /\ b.geometry = Segments(kept)
      /\ b = [geometry |-> b.geometry, from |-> b.from, to |-> b.to, data |-> b.data]
  BY <1>1, <1>3, <1>5
<1>. QED BY <1>8, <1>9, Zenon DEF b, Alike

\* Whichever way takes the batched path, each gets what the builder for one makes.
LEMMA BuiltAlike ==
    ASSUME NEW ids \in Seq(Seq(Nodes))
    PROVE  geometries(ids, batch(ids), seg_geoms_all(ids, batch(ids)))
             = [w \in DOMAIN ids |-> create_linestring_geometry(ids[w])]
<1>. DEFINE W == DOMAIN ids
            V == {w \in W : Vectorizable(ids[w])}
            vec == batch(ids)
            segs == seg_geoms_all(ids, vec)
            cum == cumsum(seg_counts(ids, vec))
            Batched(w) ==
              LET vci == CHOOSE i \in DOMAIN vec : vec[i] = w
              IN  [geometry |-> SubSeq(segs, cum[vci - 1] + 1, cum[vci]),
                   from |-> Front(ids[w]), to |-> Tail(ids[w]), data |-> ids[w]]
<1>1. vec \in Seq(W) /\ Range(vec) = V
  <2>. DEFINE all == [w \in W |-> w]
  <2>1. all \in Seq(W) /\ Range(all) = W
    <3>1. W = 1..Len(ids) /\ Len(ids) \in Nat
      OBVIOUS
    <3>2. Range(all) = W
      BY DEF Range
    <3>. HIDE DEF W
    <3>. QED BY <3>1, <3>2
  <2>2. vec = Only(all, V)
    BY DEF batch
  <2>. HIDE DEF all, V
  <2>3. vec \in Seq(W) /\ Range(vec) = Range(all) \cap V
    BY <2>1, <2>2, OnlyElements
  <2>. QED BY <2>1, <2>3 DEF V
<1>2. geometries(ids, vec, segs)
        = [w \in W |-> IF Vectorizable(ids[w]) THEN Batched(w) ELSE create_linestring_geometry(ids[w])]
  BY DEF geometries
<1>3. ASSUME NEW w \in W, Vectorizable(ids[w]) PROVE Batched(w) = create_linestring_geometry(ids[w])
  <2>. DEFINE k == CHOOSE i \in DOMAIN vec : vec[i] = w
              q == ids[w]
  <2>1. w \in Range(vec)
    BY <1>1, <1>3
  <2>2. \E i \in DOMAIN vec : vec[i] = w
    BY <2>1 DEF Range
  <2>3. k \in DOMAIN vec /\ vec[k] = w
    BY <2>2
  <2>4. \A i \in DOMAIN vec : Len(ids[vec[i]]) >= 2
    <3>1. \A i \in DOMAIN vec : vec[i] \in V
      BY <1>1 DEF Range
    <3>. QED BY <3>1 DEF Vectorizable
  <2>5. SubSeq(segs, cum[k - 1] + 1, cum[k]) = Segments(q)
    <3>. HIDE DEF vec, k
    <3>1. SubSeq(segs, cum[k - 1] + 1, cum[k]) = Segments(ids[vec[k]])
      BY <1>1, <2>3, <2>4, DealtOut
    <3>. QED BY <2>3, <3>1
  <2>6. q \in Seq(Nodes) /\ Len(q) > 1 /\ Range(q) \subseteq network.located
    <3>1. q \in Seq(Nodes) /\ Len(q) \in Nat
      OBVIOUS
    <3>. HIDE DEF q
    <3>. QED BY <1>3, <3>1 DEF Vectorizable, ToSet, Range, q
  <2>7. Only(q, network.located) = q
    <3>. HIDE DEF q
    <3>. QED BY <2>6, OnlyElements
  <2>8. create_linestring_geometry(q) = [geometry |-> Segments(q), from |-> Front(q), to |-> Tail(q), data |-> q]
    BY <2>6, <2>7 DEF create_linestring_geometry
  <2>9. Batched(w) = [geometry |-> SubSeq(segs, cum[k - 1] + 1, cum[k]),
                      from |-> Front(q), to |-> Tail(q), data |-> q]
    OBVIOUS
  <2>. HIDE DEF k, q, segs, cum, Batched, vec
  <2>10. Batched(w) = create_linestring_geometry(q)
    BY <2>5, <2>8, <2>9
  <2>. QED BY <2>10 DEF q
<1>. HIDE DEF W, vec, segs, Batched
<1>4. geometries(ids, vec, segs) = [w \in W |-> create_linestring_geometry(ids[w])]
  BY <1>2, <1>3
<1>. QED BY <1>4 DEF W, vec, segs

-----------------------------------------------------------------------------
(***************************************************************************)
(* Slicing the rows of the ways gives the streets of each, in order.       *)
(***************************************************************************)
RowOf == [way \in Ways |-> [way |-> way, built |-> create_linestring_geometry(way.nodes)]]
GdfRows == {RowOf[way] : way \in Ways}
Part == [line : Links, oneway : Directions, class : Classes]
FromOf == [row \in GdfRows |-> row.built.from]
ToOf == [row \in GdfRows |-> row.built.to]
PartsOf == [row \in GdfRows |->
               [k \in DOMAIN row.built.geometry |->
                   [line |-> row.built.geometry[k], oneway |-> row.way.oneway, class |-> row.way.class]]]
AllOfRow == [row \in GdfRows |-> AllOf(row.way)]
AllOfWay == [way \in Ways |-> AllOf(way)]
\* The columns that are put beside each other.
Columns == {t \in [us : Seq(Nodes), vs : Seq(Nodes), parts : Seq(Part)] :
               Len(t.us) = Len(t.parts) /\ Len(t.vs) = Len(t.parts)}
Zipped(t, i) == [u |-> t.us[i], v |-> t.vs[i], line |-> t.parts[i].line,
                 oneway |-> t.parts[i].oneway, class |-> t.parts[i].class]
Beside(t) == [i \in DOMAIN t.parts |-> Zipped(t, i)]
Below(s, t) == [us |-> s.us \o t.us, vs |-> s.vs \o t.vs, parts |-> s.parts \o t.parts]

LEMMA ZipFacts ==
    ASSUME NEW t \in Columns
    PROVE  /\ Beside(t) \in Seq(Street) /\ Len(Beside(t)) = Len(t.parts) /\ Len(t.parts) \in Nat
           /\ \A i \in 1..Len(t.parts) : Beside(t)[i] = Zipped(t, i)
<1>. DEFINE us == t.us
            vs == t.vs
            parts == t.parts
<1>1. us \in Seq(Nodes) /\ vs \in Seq(Nodes) /\ parts \in Seq(Part) /\ Len(us) = Len(parts) /\ Len(vs) = Len(parts)
  BY DEF Columns
<1>2. Beside(t) = [i \in DOMAIN parts |-> Zipped(t, i)]
  BY DEF Beside
<1>3. \A i : Zipped(t, i) = [u |-> us[i], v |-> vs[i], line |-> parts[i].line,
                            oneway |-> parts[i].oneway, class |-> parts[i].class]
  BY DEF Zipped
<1>. HIDE DEF us, vs, parts
<1>4. Len(parts) \in Nat /\ DOMAIN parts = 1..Len(parts)
  BY <1>1
<1>5. ASSUME NEW i \in 1..Len(parts) PROVE Zipped(t, i) \in Street
  <2>1. us[i] \in Nodes /\ vs[i] \in Nodes /\ parts[i] \in Part
    BY <1>1, <1>4
  <2>. QED BY <1>3, <2>1 DEF Part, Street
<1>6. Beside(t) \in Seq(Street) /\ Len(Beside(t)) = Len(parts) /\ \A i \in 1..Len(parts) : Beside(t)[i] = Zipped(t, i)
  BY <1>2, <1>4, <1>5
<1>. QED BY <1>4, <1>6 DEF parts

\* Zipped together one below the other is zipped together.
LEMMA ZipConcat ==
    ASSUME NEW s \in Columns, NEW t \in Columns
    PROVE  Below(s, t) \in Columns /\ Beside(Below(s, t)) = Beside(s) \o Beside(t)
<1>. DEFINE w == Below(s, t)
            n == Len(s.parts)
            m == Len(t.parts)
<1>1. /\ s.us \in Seq(Nodes) /\ s.vs \in Seq(Nodes) /\ s.parts \in Seq(Part) /\ Len(s.us) = n /\ Len(s.vs) = n
      /\ t.us \in Seq(Nodes) /\ t.vs \in Seq(Nodes) /\ t.parts \in Seq(Part) /\ Len(t.us) = m /\ Len(t.vs) = m
  BY DEF Columns
<1>2. w.us = s.us \o t.us /\ w.vs = s.vs \o t.vs /\ w.parts = s.parts \o t.parts
      /\ w = [us |-> w.us, vs |-> w.vs, parts |-> w.parts]
  BY DEF Below
<1>3. n \in Nat /\ m \in Nat
  BY <1>1
<1>. HIDE DEF w, n, m
<1>4. ASSUME NEW S, NEW a \in Seq(S), NEW b \in Seq(S), Len(a) = n, Len(b) = m
      PROVE  /\ a \o b \in Seq(S) /\ Len(a \o b) = n + m
             /\ \A i \in 1..n : (a \o b)[i] = a[i]
             /\ \A i \in 1..m : (a \o b)[n + i] = b[i]
  BY <1>3, <1>4
<1>5. /\ w.us \in Seq(Nodes) /\ Len(w.us) = n + m
      /\ (\A i \in 1..n : w.us[i] = s.us[i]) /\ (\A i \in 1..m : w.us[n + i] = t.us[i])
  <2>. DEFINE a == s.us
              b == t.us
  <2>1. a \in Seq(Nodes) /\ b \in Seq(Nodes) /\ Len(a) = n /\ Len(b) = m /\ w.us = a \o b
    BY <1>1, <1>2 DEF n, m
  <2>. HIDE DEF a, b
  <2>2. /\ a \o b \in Seq(Nodes) /\ Len(a \o b) = n + m
        /\ (\A i \in 1..n : (a \o b)[i] = a[i]) /\ (\A i \in 1..m : (a \o b)[n + i] = b[i])
    BY <1>4, <2>1, SMTT(30)
  <2>. QED BY <2>1, <2>2 DEF a, b
<1>6. /\ w.vs \in Seq(Nodes) /\ Len(w.vs) = n + m
      /\ (\A i \in 1..n : w.vs[i] = s.vs[i]) /\ (\A i \in 1..m : w.vs[n + i] = t.vs[i])
  <2>. DEFINE a == s.vs
              b == t.vs
  <2>1. a \in Seq(Nodes) /\ b \in Seq(Nodes) /\ Len(a) = n /\ Len(b) = m /\ w.vs = a \o b
    BY <1>1, <1>2 DEF n, m
  <2>. HIDE DEF a, b
  <2>2. /\ a \o b \in Seq(Nodes) /\ Len(a \o b) = n + m
        /\ (\A i \in 1..n : (a \o b)[i] = a[i]) /\ (\A i \in 1..m : (a \o b)[n + i] = b[i])
    BY <1>4, <2>1
  <2>. QED BY <2>1, <2>2 DEF a, b
<1>7. /\ w.parts \in Seq(Part) /\ Len(w.parts) = n + m
      /\ (\A i \in 1..n : w.parts[i] = s.parts[i]) /\ (\A i \in 1..m : w.parts[n + i] = t.parts[i])
  <2>. DEFINE a == s.parts
              b == t.parts
  <2>1. a \in Seq(Part) /\ b \in Seq(Part) /\ Len(a) = n /\ Len(b) = m /\ w.parts = a \o b
    BY <1>1, <1>2 DEF n, m
  <2>. HIDE DEF a, b
  <2>2. /\ a \o b \in Seq(Part) /\ Len(a \o b) = n + m
        /\ (\A i \in 1..n : (a \o b)[i] = a[i]) /\ (\A i \in 1..m : (a \o b)[n + i] = b[i])
    BY <1>4, <2>1
  <2>. QED BY <2>1, <2>2 DEF a, b
<1>8. w \in Columns
  BY <1>2, <1>5, <1>6, <1>7 DEF Columns
<1>. DEFINE z1 == Beside(s)
            z2 == Beside(t)
            z3 == Beside(w)
            z4 == z1 \o z2
<1>9. z1 \in Seq(Street) /\ Len(z1) = n /\ \A i \in 1..n : z1[i] = Zipped(s, i)
  BY ZipFacts DEF n
<1>10. z2 \in Seq(Street) /\ Len(z2) = m /\ \A i \in 1..m : z2[i] = Zipped(t, i)
  BY ZipFacts DEF m
<1>11. z3 \in Seq(Street) /\ Len(z3) = n + m /\ \A i \in 1..n + m : z3[i] = Zipped(w, i)
  BY <1>7, <1>8, ZipFacts
<1>. HIDE DEF z1, z2, z3
<1>12. /\ z4 \in Seq(Street) /\ Len(z4) = n + m
       /\ (\A i \in 1..n : z4[i] = z1[i]) /\ (\A i \in 1..m : z4[n + i] = z2[i])
  BY <1>4, <1>9, <1>10
<1>. HIDE DEF z4
<1>13. ASSUME NEW i \in 1..n + m PROVE z3[i] = z4[i]
  <2>1. CASE i \in 1..n
    <3>1. Zipped(w, i) = Zipped(s, i)
      BY <1>5, <1>6, <1>7, <2>1 DEF Zipped
    <3>. QED BY <1>9, <1>11, <1>12, <2>1, <3>1
  <2>2. CASE i \notin 1..n
    <3>. DEFINE j == i - n
    <3>1. j \in 1..m /\ i = n + j
      BY <1>3, <2>2
    <3>. HIDE DEF j
    <3>2. Zipped(w, i) = Zipped(t, j)
      BY <1>5, <1>6, <1>7, <3>1 DEF Zipped
    <3>. QED BY <1>10, <1>11, <1>12, <3>1, <3>2
  <2>. QED BY <2>1, <2>2
<1>14. z3 = z4
  BY <1>11, <1>12, <1>13, SeqEqual
<1>. QED BY <1>8, <1>14 DEF w, z1, z2, z3, z4

ColumnsOf(row) == [us |-> FromOf[row], vs |-> ToOf[row], parts |-> PartsOf[row]]

LEMMA RowFacts ==
    ASSUME NEW row \in GdfRows
    PROVE  /\ row.way \in Ways /\ row = RowOf[row.way]
           /\ FromOf[row] \in Seq(Nodes) /\ ToOf[row] \in Seq(Nodes) /\ PartsOf[row] \in Seq(Part)
           /\ ColumnsOf(row) \in Columns /\ Beside(ColumnsOf(row)) = AllOf(row.way)
           /\ row.built.geometry = <<>> <=> AllOf(row.way) = <<>>
<1>. PICK way \in Ways : row = RowOf[way]
  BY DEF GdfRows
<1>. DEFINE q == way.nodes
            kept == Kept(way)
            b == create_linestring_geometry(q)
            all == AllOf(way)
<1>1. row.way = way /\ row.built = b
  BY DEF RowOf
<1>2. q \in Seq(Nodes) /\ kept = Only(q, network.located) /\ way.oneway \in Directions /\ way.class \in Classes
  BY WayFacts DEF Kept
<1>. HIDE DEF q, kept, b
<1>3. /\ b.geometry = Segments(kept)
      /\ b.geometry \in Seq(Links) /\ b.from \in Seq(Nodes) /\ b.to \in Seq(Nodes)
      /\ Len(b.from) = Len(b.geometry) /\ Len(b.to) = Len(b.geometry)
      /\ \A i \in DOMAIN b.geometry : b.from[i] = kept[i] /\ b.to[i] = kept[i + 1]
      /\ kept \in Seq(Nodes)
  BY <1>2, BuilderFacts DEF b
<1>4. /\ all \in Seq(Street)
      /\ DOMAIN all = DOMAIN Segments(kept) /\ Len(all) = Len(Segments(kept))
      /\ \A i \in DOMAIN Segments(kept) :
           all[i] = [u |-> kept[i], v |-> kept[i + 1], line |-> <<kept[i], kept[i + 1]>>,
                     oneway |-> way.oneway, class |-> way.class]
  BY AllOfFacts DEF kept
<1>5. \A i \in DOMAIN Segments(kept) : Segments(kept)[i] = <<kept[i], kept[i + 1]>>
  BY <1>3, SegmentsFacts
<1>6. FromOf[row] = b.from /\ ToOf[row] = b.to
  BY <1>1 DEF FromOf, ToOf
<1>. DEFINE parts == [k \in DOMAIN b.geometry |->
                         [line |-> b.geometry[k], oneway |-> way.oneway, class |-> way.class]]
            n == Len(b.geometry)
<1>7. PartsOf[row] = parts
  BY <1>1 DEF PartsOf
<1>8. n \in Nat /\ DOMAIN b.geometry = 1..n /\ \A i \in 1..n : b.geometry[i] \in Links
  BY <1>3
<1>9. /\ parts \in Seq(Part) /\ Len(parts) = n /\ DOMAIN parts = 1..n
      /\ \A i \in 1..n : parts[i] = [line |-> b.geometry[i], oneway |-> way.oneway, class |-> way.class]
  <2>1. \A i \in 1..n : [line |-> b.geometry[i], oneway |-> way.oneway, class |-> way.class] \in Part
    BY <1>2, <1>8 DEF Part
  <2>2. parts = [i \in 1..n |-> [line |-> b.geometry[i], oneway |-> way.oneway, class |-> way.class]]
    BY <1>8
  <2>. HIDE DEF parts, n
  <2>. QED BY <1>8, <2>1, <2>2
<1>. HIDE DEF parts, n, all
<1>. DEFINE t == ColumnsOf(row)
            z == Beside(t)
<1>12. t.us = b.from /\ t.vs = b.to /\ t.parts = parts
       /\ t = [us |-> b.from, vs |-> b.to, parts |-> parts]
  BY <1>6, <1>7 DEF ColumnsOf
<1>. HIDE DEF t
<1>13. t \in Columns
  BY <1>3, <1>9, <1>12 DEF Columns, n
<1>10. z = all
  <2>1. z \in Seq(Street) /\ Len(z) = n /\ \A i \in 1..n : z[i] = Zipped(t, i)
    BY <1>9, <1>12, <1>13, ZipFacts
  <2>2. Len(all) = n
    BY <1>3, <1>4 DEF n
  <2>. HIDE DEF z
  <2>3. \A i \in 1..n : z[i] = all[i]
    <3>. SUFFICES ASSUME NEW i \in 1..n PROVE z[i] = all[i]
      OBVIOUS
    <3>1. i \in DOMAIN b.geometry /\ b.geometry[i] = <<kept[i], kept[i + 1]>>
      BY <1>3, <1>5, <1>8
    <3>2. all[i] = [u |-> kept[i], v |-> kept[i + 1], line |-> <<kept[i], kept[i + 1]>>,
                    oneway |-> way.oneway, class |-> way.class]
      BY <1>3, <1>4, <3>1
    <3>3. Zipped(t, i) = [u |-> kept[i], v |-> kept[i + 1], line |-> <<kept[i], kept[i + 1]>>,
                          oneway |-> way.oneway, class |-> way.class]
      <4>1. t.us[i] = kept[i] /\ t.vs[i] = kept[i + 1]
        BY <1>3, <1>12, <3>1
      <4>2. parts[i] = [line |-> b.geometry[i], oneway |-> way.oneway, class |-> way.class]
        BY <1>9
      <4>3. t.parts[i].line = <<kept[i], kept[i + 1]>> /\ t.parts[i].oneway = way.oneway
            /\ t.parts[i].class = way.class
        BY <1>12, <3>1, <4>2
      <4>. QED BY <4>1, <4>3 DEF Zipped
    <3>. QED BY <2>1, <3>2, <3>3
  <2>. QED BY <1>4, <2>1, <2>2, <2>3, SeqEqual
<1>11. b.geometry = <<>> <=> all = <<>>
  BY <1>3, <1>4
<1>. QED BY <1>1, <1>3, <1>6, <1>7, <1>9, <1>10, <1>11, <1>13 DEF all, t, z

LEMMA SlicedIs ==
    ASSUME NEW rows \in Seq(GdfRows)
    PROVE  Sliced(rows) = FlattenSeq(Each(AllOfRow, rows))
<1>. DEFINE U(s) == FlattenSeq(Each(FromOf, s))
            V(s) == FlattenSeq(Each(ToOf, s))
            P(s) == FlattenSeq(Each(PartsOf, s))
            A(s) == FlattenSeq(Each(AllOfRow, s))
            T(s) == [us |-> U(s), vs |-> V(s), parts |-> P(s)]
            G == {s \in Seq(GdfRows) : T(s) \in Columns /\ Beside(T(s)) = A(s)}
<1>1. /\ FromOf \in [GdfRows -> Seq(Nodes)] /\ ToOf \in [GdfRows -> Seq(Nodes)]
      /\ PartsOf \in [GdfRows -> Seq(Part)] /\ AllOfRow \in [GdfRows -> Seq(Street)]
  <2>1. \A row \in GdfRows : FromOf[row] \in Seq(Nodes) /\ ToOf[row] \in Seq(Nodes) /\ PartsOf[row] \in Seq(Part)
    BY RowFacts
  <2>2. \A row \in GdfRows : AllOf(row.way) \in Seq(Street)
    BY RowFacts, WayFacts
  <2>3. FromOf = [row \in GdfRows |-> FromOf[row]] /\ ToOf = [row \in GdfRows |-> ToOf[row]]
    BY DEF FromOf, ToOf
  <2>4. PartsOf = [row \in GdfRows |-> PartsOf[row]] /\ AllOfRow = [row \in GdfRows |-> AllOf(row.way)]
    BY DEF PartsOf, AllOfRow
  <2>5. FromOf \in [GdfRows -> Seq(Nodes)] /\ ToOf \in [GdfRows -> Seq(Nodes)] /\ PartsOf \in [GdfRows -> Seq(Part)]
    BY <2>1, <2>3, <2>4
  <2>6. AllOfRow \in [GdfRows -> Seq(Street)]
    BY <2>2, <2>4
  <2>. QED BY <2>5, <2>6
<1>2. \A row \in GdfRows : AllOfRow[row] = AllOf(row.way)
  BY DEF AllOfRow
<1>3. <<>> \in G
  <2>1. U(<<>>) = <<>> /\ V(<<>>) = <<>> /\ P(<<>>) = <<>> /\ A(<<>>) = <<>>
    BY EachEmpty, FlattenEmpty
  <2>. DEFINE none == [us |-> <<>>, vs |-> <<>>, parts |-> <<>>]
  <2>2. Beside(none) = <<>>
    BY DEF Beside
  <2>3. <<>> \in Seq(Nodes) /\ <<>> \in Seq(Part) /\ <<>> \in Seq(GdfRows)
    BY EmptySeq
  <2>4. none \in Columns
    BY <2>3 DEF Columns
  <2>5. T(<<>>) = none
    BY <2>1
  <2>. HIDE DEF none, T, A
  <2>. QED BY <2>1, <2>2, <2>3, <2>4, <2>5 DEF A
<1>4. ASSUME NEW s \in Seq(GdfRows), NEW row \in GdfRows, s \in G PROVE Append(s, row) \in G
  <2>. DEFINE t == Append(s, row)
  <2>1. \A Y, f : f \in [GdfRows -> Seq(Y)] => FlattenSeq(Each(f, t)) = FlattenSeq(Each(f, s)) \o f[row]
    <3>. SUFFICES ASSUME NEW Y, NEW f \in [GdfRows -> Seq(Y)]
                  PROVE  FlattenSeq(Each(f, t)) = FlattenSeq(Each(f, s)) \o f[row]
      OBVIOUS
    <3>1. Each(f, t) = Append(Each(f, s), f[row])
      BY EachAppend, Zenon
    <3>2. Each(f, s) \in Seq(Seq(Y)) /\ f[row] \in Seq(Y)
      BY EachSeq
    <3>. QED BY <3>1, <3>2, FlattenAppend
  <2>2. U(t) = U(s) \o FromOf[row] /\ V(t) = V(s) \o ToOf[row]
    BY <1>1, <2>1
  <2>3. P(t) = P(s) \o PartsOf[row] /\ A(t) = A(s) \o AllOfRow[row]
    BY <1>1, <2>1
  <2>4. ColumnsOf(row) \in Columns /\ Beside(ColumnsOf(row)) = AllOfRow[row]
    BY <1>2, RowFacts
  <2>5. T(s) \in Columns /\ Beside(T(s)) = A(s)
    BY <1>4
  <2>6. t \in Seq(GdfRows)
    BY AppendIn
  <2>7. T(t) = Below(T(s), ColumnsOf(row))
    BY <2>2, <2>3 DEF Below, ColumnsOf
  <2>. HIDE DEF T, A, t
  <2>8. T(t) \in Columns /\ Beside(T(t)) = Beside(T(s)) \o Beside(ColumnsOf(row))
    BY <2>4, <2>5, <2>7, ZipConcat
  <2>9. Beside(T(t)) = A(t)
    BY <2>3, <2>4, <2>5, <2>8 DEF A
  <2>. QED BY <2>6, <2>8, <2>9 DEF t
<1>5. rows \in G
  <2>1. Seq(GdfRows) \subseteq G
    <3>. HIDE DEF G
    <3>. QED BY <1>3, <1>4, SeqInduction
  <2>. QED BY <2>1
<1>6. Sliced(rows) = Beside(T(rows))
  <2>1. /\ Each(FromOf, rows) = [i \in DOMAIN rows |-> rows[i].built.from]
        /\ Each(ToOf, rows) = [i \in DOMAIN rows |-> rows[i].built.to]
        /\ Each(PartsOf, rows) =
             [i \in DOMAIN rows |->
                 [k \in DOMAIN rows[i].built.geometry |->
                     [line |-> rows[i].built.geometry[k], oneway |-> rows[i].way.oneway,
                      class |-> rows[i].way.class]]]
    <3>1. \A i \in DOMAIN rows : rows[i] \in GdfRows
      OBVIOUS
    <3>. QED BY <3>1 DEF Each, FromOf, ToOf, PartsOf
  <2>2. T(rows).us = U(rows) /\ T(rows).vs = V(rows) /\ T(rows).parts = P(rows)
    OBVIOUS
  <2>3. Sliced(rows) = [i \in DOMAIN P(rows) |->
                           [u |-> U(rows)[i], v |-> V(rows)[i], line |-> P(rows)[i].line,
                            oneway |-> P(rows)[i].oneway, class |-> P(rows)[i].class]]
    BY <2>1, Zenon DEF Sliced
  <2>. HIDE DEF U, V, P, T
  <2>. QED BY <2>2, <2>3 DEF Beside, Zipped
<1>7. Beside(T(rows)) = A(rows)
  BY <1>5
<1>. QED BY <1>6, <1>7

-----------------------------------------------------------------------------
(***************************************************************************)
(* The read, step by step.                                                 *)
(***************************************************************************)
\* The streets of a way that are left, as a function; all streets of the ways;
\* those that are left of them.
CutWay == [way \in Ways |-> StreetsOf(way)]
AllStreets == FlattenSeq(Each(AllOfWay, network.ways))
CutStreets == FlattenSeq(Each(CutWay, network.ways))

NetworkGiven == \E family \in Families : network \in family
\* Before the streets are there; while the nodes are those of all streets.
Reading == {"geometry", "slice", "box"}
AllNodesThere == {"directed", "nothing", "detect", "walk", "rings", "collapse"}
ReadInv ==
    /\ NetworkGiven
    /\ pc = "slice" => way_gdf = Each(RowOf, nonempty) /\ nodes = Ends(AllStreets)
    /\ pc = "box" => streets = AllStreets /\ nodes = Ends(AllStreets)
    /\ pc \notin Reading \cup {"failed"} => streets = CutStreets
    /\ pc \in AllNodesThere => nodes = Ends(streets)

LEMMA NetworkFacts ==
    ASSUME NetworkGiven
    PROVE  /\ network.ways \in Seq(Ways) /\ network.located \in SUBSET Nodes
           /\ network.box \in BOOLEAN /\ network.differ \in BOOLEAN
           /\ nonempty \in Seq(Ways) /\ Range(nonempty) \subseteq Range(network.ways)
<1>1. network.ways \in Seq(Ways) /\ network.located \in SUBSET Nodes /\ network.box \in BOOLEAN
      /\ network.differ \in BOOLEAN
  BY NetworkAssumption DEF NetworkGiven
<1>2. nonempty \in Seq(Ways) /\ Range(nonempty) \subseteq Range(network.ways)
  BY <1>1, OnlyElements DEF nonempty
<1>. QED BY <1>1, <1>2

\* The ends of rows, whichever order they are in.
LEMMA EndsIs ==
    ASSUME NEW rows
    PROVE  Ends(rows) = {e.u : e \in Range(rows)} \cup {e.v : e \in Range(rows)}
BY DEF Ends, Range

LEMMA EndsOfFlat ==
    ASSUME NEW X, NEW Y, NEW f \in Maps(X, Seq(Y)), NEW s \in Seq(X)
    PROVE  Ends(FlattenSeq(Each(f, s))) = UNION {Ends(f[s[i]]) : i \in DOMAIN s}
<1>. DEFINE e == Each(f, s)
            flat == FlattenSeq(e)
<1>1. e \in Seq(Seq(Y)) /\ DOMAIN e = DOMAIN s /\ \A i \in DOMAIN s : e[i] = f[s[i]]
  <2>1. Each(f, s) \in Seq(Seq(Y))
    <3>1. f \in [X -> Seq(Y)]
      BY DEF Maps
    <3>. QED BY <3>1, EachSeq
  <2>. QED BY <2>1 DEF Each
<1>. HIDE DEF e
<1>2. Range(flat) = UNION {Range(e[i]) : i \in DOMAIN s}
  BY <1>1, FlattenElements
<1>. HIDE DEF flat
<1>3. Ends(flat) = {r.u : r \in Range(flat)} \cup {r.v : r \in Range(flat)}
  BY EndsIs
<1>4. \A i \in DOMAIN s : Ends(f[s[i]]) = {r.u : r \in Range(e[i])} \cup {r.v : r \in Range(e[i])}
  BY <1>1, EndsIs
<1>5. ASSUME NEW n \in Ends(flat) PROVE n \in UNION {Ends(f[s[i]]) : i \in DOMAIN s}
  <2>1. PICK r \in Range(flat) : n = r.u \/ n = r.v
    BY <1>3
  <2>2. PICK i \in DOMAIN s : r \in Range(e[i])
    BY <1>2
  <2>3. n \in Ends(f[s[i]])
    BY <1>4, <2>1, <2>2
  <2>. QED BY <2>3
<1>6. ASSUME NEW i \in DOMAIN s, NEW n \in Ends(f[s[i]]) PROVE n \in Ends(flat)
  <2>1. PICK r \in Range(e[i]) : n = r.u \/ n = r.v
    BY <1>4
  <2>2. r \in Range(flat)
    BY <1>2
  <2>. QED BY <1>3, <2>1, <2>2
<1>7. Ends(flat) = UNION {Ends(f[s[i]]) : i \in DOMAIN s}
  BY <1>5, <1>6
<1>. QED BY <1>7 DEF flat, e

\* A builder's table of nodes has the ends of the way's streets.
LEMMA EndsOfAll ==
    ASSUME NEW way \in Ways
    PROVE  Ends(AllOf(way)) = ToSet(create_linestring_geometry(way.nodes).data)
<1>. DEFINE q == way.nodes
            kept == Kept(way)
            all == AllOf(way)
            data == create_linestring_geometry(q).data
            n == Len(kept)
<1>1. q \in Seq(Nodes) /\ kept = Only(q, network.located)
  BY WayFacts DEF Kept
<1>2. /\ DOMAIN all = DOMAIN Segments(kept)
      /\ \A i \in DOMAIN Segments(kept) : all[i].u = kept[i] /\ all[i].v = kept[i + 1]
  <2>1. /\ DOMAIN all = DOMAIN Segments(kept)
        /\ \A i \in DOMAIN Segments(kept) :
             all[i] = [u |-> kept[i], v |-> kept[i + 1], line |-> <<kept[i], kept[i + 1]>>,
                       oneway |-> way.oneway, class |-> way.class]
    BY AllOfFacts, Zenon
  <2>. QED BY <2>1
<1>. HIDE DEF q, kept, all
<1>3. kept \in Seq(Nodes) /\ (n > 1 => data = kept) /\ (~ (n > 1) => data = <<>>)
  BY <1>1, BuilderFacts
<1>4. n \in Nat /\ DOMAIN kept = 1..n
  BY <1>3
<1>5. /\ n >= 1 => DOMAIN Segments(kept) = 1..n - 1
      /\ n < 2 => Segments(kept) = <<>>
  BY <1>3, SegmentsFacts
<1>. HIDE DEF data, n
<1>6. Ends(all) = {kept[i] : i \in DOMAIN all} \cup {kept[i + 1] : i \in DOMAIN all}
  BY <1>2 DEF Ends
<1>7. CASE n > 1
  <2>1. DOMAIN all = 1..n - 1
    BY <1>2, <1>4, <1>5, <1>7
  <2>2. \A i \in 1..n : i \in 1..n - 1 \/ (i - 1 \in 1..n - 1 /\ i = (i - 1) + 1)
    BY <1>4, <1>7
  <2>3. \A i \in 1..n - 1 : i \in 1..n /\ i + 1 \in 1..n
    BY <1>4
  <2>4. Ends(all) = {kept[i] : i \in 1..n}
    <3>1. ASSUME NEW i \in 1..n PROVE kept[i] \in Ends(all)
      BY <1>6, <2>1, <2>2
    <3>2. ASSUME NEW x \in Ends(all) PROVE x \in {kept[i] : i \in 1..n}
      BY <1>6, <2>1, <2>3
    <3>. QED BY <3>1, <3>2
  <2>5. ToSet(data) = {kept[i] : i \in 1..n}
    BY <1>3, <1>4, <1>7 DEF ToSet
  <2>. QED BY <2>4, <2>5 DEF all, data, q
<1>8. CASE ~ (n > 1)
  <2>1. Segments(kept) = <<>> /\ data = <<>>
    BY <1>3, <1>4, <1>5, <1>8
  <2>2. DOMAIN all = {} /\ DOMAIN data = {}
    BY <1>2, <2>1
  <2>3. Ends(all) = {} /\ ToSet(data) = {}
    BY <1>6, <2>2 DEF ToSet
  <2>. QED BY <2>3 DEF all, data, q
<1>. QED BY <1>7, <1>8

LEMMA AllOfWayFacts ==
    /\ AllOfWay \in [Ways -> Seq(Street)] /\ RowOf \in [Ways -> GdfRows]
    /\ AllOfRow \in [GdfRows -> Seq(Street)]
    /\ \A way \in Ways : AllOfWay[way] = AllOf(way) /\ AllOfRow[RowOf[way]] = AllOf(way)
<1>1. \A way \in Ways : AllOf(way) \in Seq(Street)
  BY WayFacts
<1>2. \A row \in GdfRows : AllOf(row.way) \in Seq(Street)
  BY RowFacts, WayFacts
<1>3. AllOfWay \in [Ways -> Seq(Street)] /\ \A way \in Ways : AllOfWay[way] = AllOf(way)
  BY <1>1 DEF AllOfWay
<1>4. AllOfRow \in [GdfRows -> Seq(Street)] /\ \A row \in GdfRows : AllOfRow[row] = AllOf(row.way)
  BY <1>2 DEF AllOfRow
<1>5. RowOf \in [Ways -> GdfRows] /\ \A way \in Ways : RowOf[way] \in GdfRows /\ RowOf[way].way = way
  BY DEF RowOf, GdfRows
<1>. QED BY <1>3, <1>4, <1>5

\* Ways without nodes have no streets.
LEMMA AllOfNonempty ==
    ASSUME NetworkGiven
    PROVE  FlattenSeq(Each(AllOfWay, nonempty)) = AllStreets
<1>. DEFINE S == {way \in Range(network.ways) : way.nodes # <<>>}
<1>1. network.ways \in Seq(Ways) /\ nonempty = Only(network.ways, S)
  BY NetworkFacts DEF nonempty
<1>2. AllOfWay \in [Ways -> Seq(Street)]
  BY AllOfWayFacts
<1>3. ASSUME NEW way \in Range(network.ways), way \notin S PROVE AllOfWay[way] = <<>>
  <2>1. way \in Ways /\ way.nodes = <<>>
    BY <1>1, <1>3, RangeEquality
  <2>2. Kept(way) = <<>>
    BY <2>1, OnlyEmpty DEF Kept
  <2>3. Segments(<<>>) = <<>>
    <3>1. <<>> \in Seq(Nodes) /\ Len(<<>>) < 2
      BY EmptySeq
    <3>. QED BY <3>1, SegmentsFacts
  <2>4. AllOf(way) = <<>>
    BY <2>2, <2>3, EachEmpty DEF AllOf
  <2>. QED BY <2>1, <2>4, AllOfWayFacts
<1>. HIDE DEF S
<1>4. FlattenSeq(Each(AllOfWay, Only(network.ways, S))) = FlattenSeq(Each(AllOfWay, network.ways))
  BY <1>1, <1>2, <1>3, FlatOfOnly
<1>. QED BY <1>1, <1>4 DEF AllStreets

\* The builders: each way with what the builder for one makes of it.
LEMMA CreatePreserves ==
    ASSUME NetworkGiven, CreateWayGeometries
    PROVE  way_gdf' = Each(RowOf, nonempty) /\ nodes' = Ends(AllStreets) /\ network' = network
<1>. DEFINE ways == nonempty
            ids == [w \in DOMAIN ways |-> ways[w].nodes]
            built == geometries(ids, batch(ids), seg_geoms_all(ids, batch(ids)))
<1>1. ways \in Seq(Ways) /\ \A w \in DOMAIN ways : ways[w] \in Ways
  BY NetworkFacts
<1>2. /\ way_gdf' = [w \in DOMAIN ways |-> [way |-> ways[w], built |-> built[w]]]
      /\ nodes' = UNION {ToSet(built[w].data) : w \in DOMAIN ways}
      /\ network' = network
  <2>1. network' = network
    BY DEF CreateWayGeometries
  <2>2. \E a \in {nonempty} : \E n \in {[w \in DOMAIN a |-> a[w].nodes]} :
        \E v0 \in {batch(n)} : \E s \in {seg_geoms_all(n, v0)} : \E b \in {geometries(n, v0, s)} :
          /\ way_gdf' = [w \in DOMAIN a |-> [way |-> a[w], built |-> b[w]]]
          /\ nodes' = UNION {ToSet(b[w].data) : w \in DOMAIN a}
    BY DEF CreateWayGeometries
  <2>3. PICK a \in {nonempty} : \E n \in {[w \in DOMAIN a |-> a[w].nodes]} :
        \E v0 \in {batch(n)} : \E s \in {seg_geoms_all(n, v0)} : \E b \in {geometries(n, v0, s)} :
          /\ way_gdf' = [w \in DOMAIN a |-> [way |-> a[w], built |-> b[w]]]
          /\ nodes' = UNION {ToSet(b[w].data) : w \in DOMAIN a}
    BY <2>2, Zenon
  <2>4. PICK n \in {[w \in DOMAIN a |-> a[w].nodes]} :
        \E v0 \in {batch(n)} : \E s \in {seg_geoms_all(n, v0)} : \E b \in {geometries(n, v0, s)} :
          /\ way_gdf' = [w \in DOMAIN a |-> [way |-> a[w], built |-> b[w]]]
          /\ nodes' = UNION {ToSet(b[w].data) : w \in DOMAIN a}
    BY <2>3, Zenon
  <2>5. PICK v0 \in {batch(n)} : \E s \in {seg_geoms_all(n, v0)} : \E b \in {geometries(n, v0, s)} :
          /\ way_gdf' = [w \in DOMAIN a |-> [way |-> a[w], built |-> b[w]]]
          /\ nodes' = UNION {ToSet(b[w].data) : w \in DOMAIN a}
    BY <2>4, Zenon
  <2>6. PICK s \in {seg_geoms_all(n, v0)} : \E b \in {geometries(n, v0, s)} :
          /\ way_gdf' = [w \in DOMAIN a |-> [way |-> a[w], built |-> b[w]]]
          /\ nodes' = UNION {ToSet(b[w].data) : w \in DOMAIN a}
    BY <2>5, Zenon
  <2>7. PICK b \in {geometries(n, v0, s)} :
          /\ way_gdf' = [w \in DOMAIN a |-> [way |-> a[w], built |-> b[w]]]
          /\ nodes' = UNION {ToSet(b[w].data) : w \in DOMAIN a}
    BY <2>6, Zenon
  <2>8. a = ways /\ n = ids /\ v0 = batch(ids)
    BY Zenon
  <2>9. s = seg_geoms_all(ids, batch(ids))
    BY <2>8, Zenon
  <2>10. b = built
    BY <2>8, <2>9, Zenon
  <2>. HIDE DEF ways, ids, built
  <2>. QED BY <2>1, <2>7, <2>8, <2>10
<1>. HIDE DEF ways
<1>3. ids \in Seq(Seq(Nodes)) /\ DOMAIN ids = DOMAIN ways /\ \A w \in DOMAIN ways : ids[w] = ways[w].nodes
  <2>1. \A w \in DOMAIN ways : ways[w].nodes \in Seq(Nodes)
    BY <1>1, WayFacts
  <2>2. DOMAIN ways = 1..Len(ways) /\ Len(ways) \in Nat
    BY <1>1
  <2>. QED BY <2>1, <2>2
<1>. HIDE DEF ids
<1>4. built = [w \in DOMAIN ids |-> create_linestring_geometry(ids[w])]
  BY <1>3, BuiltAlike
<1>. HIDE DEF built
<1>5. \A w \in DOMAIN ways : built[w] = create_linestring_geometry(ways[w].nodes)
  BY <1>3, <1>4
<1>6. way_gdf' = Each(RowOf, ways)
  <2>1. \A w \in DOMAIN ways : RowOf[ways[w]] = [way |-> ways[w], built |-> built[w]]
    BY <1>1, <1>5 DEF RowOf
  <2>. QED BY <1>2, <2>1 DEF Each
<1>7. nodes' = Ends(AllStreets)
  <2>1. \A w \in DOMAIN ways : ToSet(built[w].data) = Ends(AllOfWay[ways[w]])
    BY <1>1, <1>5, EndsOfAll, AllOfWayFacts
  <2>2. Ends(FlattenSeq(Each(AllOfWay, ways))) = UNION {Ends(AllOfWay[ways[w]]) : w \in DOMAIN ways}
    <3>1. AllOfWay \in Maps(Ways, Seq(Street))
      BY AllOfWayFacts DEF Maps
    <3>. QED BY <1>1, <3>1, EndsOfFlat
  <2>3. FlattenSeq(Each(AllOfWay, ways)) = AllStreets
    BY AllOfNonempty DEF ways
  <2>. QED BY <1>2, <2>1, <2>2, <2>3
<1>. QED BY <1>2, <1>6, <1>7 DEF ways

\* The rows of the ways, cut: ways without geometry have no streets.
LEMMA SlicePreserves ==
    ASSUME NetworkGiven, way_gdf = Each(RowOf, nonempty)
    PROVE  Sliced(Located) = AllStreets
<1>. DEFINE S == {row \in Range(way_gdf) : row.built.geometry # <<>>}
<1>1. nonempty \in Seq(Ways) /\ Each(RowOf, nonempty) \in Seq(GdfRows)
  BY NetworkFacts, AllOfWayFacts, EachSeq
<1>2. way_gdf \in Seq(GdfRows) /\ Range(way_gdf) \subseteq GdfRows
  <2>1. way_gdf \in Seq(GdfRows)
    BY <1>1
  <2>. QED BY <2>1, RangeEquality
<1>3. Located = Only(way_gdf, S)
  BY DEF Located
<1>4. \A row \in Range(way_gdf) : row \notin S => AllOfRow[row] = <<>>
  <2>. SUFFICES ASSUME NEW row \in Range(way_gdf), row \notin S PROVE AllOfRow[row] = <<>>
    OBVIOUS
  <2>1. row \in GdfRows /\ row.built.geometry = <<>>
    BY <1>2
  <2>2. AllOf(row.way) = <<>>
    BY <2>1, RowFacts
  <2>. QED BY <2>1, <2>2 DEF AllOfRow
<1>. HIDE DEF S
<1>5. AllOfRow \in [GdfRows -> Seq(Street)]
  BY AllOfWayFacts
<1>6. Only(way_gdf, S) \in Seq(GdfRows)
  BY <1>2, OnlyType
<1>7. Sliced(Located) = FlattenSeq(Each(AllOfRow, Only(way_gdf, S)))
  BY <1>3, <1>6, SlicedIs
<1>8. FlattenSeq(Each(AllOfRow, Only(way_gdf, S))) = FlattenSeq(Each(AllOfRow, way_gdf))
  BY <1>2, <1>4, <1>5, FlatOfOnly
<1>9. Each(AllOfRow, way_gdf) = Each(AllOfWay, nonempty)
  <2>1. DOMAIN way_gdf = DOMAIN nonempty /\ \A i \in DOMAIN nonempty : way_gdf[i] = RowOf[nonempty[i]]
    BY <1>1, AllOfWayFacts, EachSeq
  <2>2. \A i \in DOMAIN nonempty : nonempty[i] \in Ways
    BY <1>1
  <2>3. \A i \in DOMAIN nonempty : AllOfRow[way_gdf[i]] = AllOfWay[nonempty[i]]
    BY <2>1, <2>2, AllOfWayFacts
  <2>. QED BY <2>1, <2>3 DEF Each
<1>. QED BY <1>7, <1>8, <1>9, AllOfNonempty

\* A street is left when its own line meets the box.
LEMMA CutWayFacts ==
    /\ CutWay \in [Ways -> Seq(Street)]
    /\ network.box => \A way \in Ways : CutWay[way] = Only(AllOf(way), {row \in Street : Meets(row.line)})
    /\ ~network.box => \A way \in Ways : CutWay[way] = AllOf(way)
<1>. DEFINE P == {p \in Nodes \X Nodes : network.box => Meets(p)}
            T == {row \in Street : Meets(row.line)}
<1>1. ASSUME NEW way \in Ways
      PROVE  /\ StreetsOf(way) \in Seq(Street)
             /\ network.box => StreetsOf(way) = Only(AllOf(way), T)
             /\ ~network.box => StreetsOf(way) = AllOf(way)
  <2>. DEFINE s == Segments(Kept(way))
              f == StreetOf(way)
              pairs == Only(s, P)
  <2>1. s \in Seq(Links) /\ f \in [Links -> Street]
    BY WayFacts
  <2>2. pairs \in Seq(Links) /\ (Range(s) \subseteq P => pairs = s)
    BY <2>1, OnlyElements
  <2>3. StreetsOf(way) = [i \in DOMAIN pairs |-> [u |-> pairs[i][1], v |-> pairs[i][2], line |-> pairs[i],
                                                 oneway |-> way.oneway, class |-> way.class]]
    BY DEF StreetsOf, Kept
  <2>. HIDE DEF pairs, s
  <2>4. \A i \in DOMAIN pairs :
          f[pairs[i]] = [u |-> pairs[i][1], v |-> pairs[i][2], line |-> pairs[i],
                         oneway |-> way.oneway, class |-> way.class]
    <3>1. \A i \in DOMAIN pairs : pairs[i] \in Links
      BY <2>2
    <3>. QED BY <3>1 DEF StreetOf
  <2>5. StreetsOf(way) = Each(f, pairs)
    BY <2>3, <2>4 DEF Each
  <2>6. AllOf(way) = Each(f, s)
    BY DEF AllOf, s
  <2>7. \A p \in Links : f[p] \in Street /\ f[p].line = p
    BY <2>1 DEF StreetOf
  <2>. HIDE DEF f
  <2>8. StreetsOf(way) \in Seq(Street)
    BY <2>1, <2>2, <2>5, EachSeq
  <2>9. ASSUME network.box PROVE StreetsOf(way) = Only(AllOf(way), T)
    <3>1. \A p \in Links : p \in P <=> f[p] \in T
      BY <2>7, <2>9 DEF Links
    <3>. HIDE DEF P, T
    <3>2. Only(Each(f, s), T) = Each(f, Only(s, P))
      <4>1. f \in Maps(Links, Street)
        BY <2>1 DEF Maps
      <4>. QED BY <2>1, <3>1, <4>1, OnlyOfEach
    <3>. QED BY <2>5, <2>6, <3>2 DEF pairs
  <2>10. ASSUME ~network.box PROVE StreetsOf(way) = AllOf(way)
    <3>1. Range(s) \subseteq P
      BY <2>1, <2>10, RangeEquality DEF Links
    <3>. QED BY <2>2, <2>5, <2>6, <3>1
  <2>. QED BY <2>8, <2>9, <2>10
<1>2. CutWay \in [Ways -> Seq(Street)] /\ \A way \in Ways : CutWay[way] = StreetsOf(way)
  BY <1>1 DEF CutWay
<1>. QED BY <1>1, <1>2

LEMMA StreetsTyped ==
    ASSUME NetworkGiven
    PROVE  AllStreets \in Seq(Street) /\ CutStreets \in Seq(Street)
<1>1. \A f \in [Ways -> Seq(Street)] : FlattenSeq(Each(f, network.ways)) \in Seq(Street)
  <2>. SUFFICES ASSUME NEW f \in [Ways -> Seq(Street)] PROVE FlattenSeq(Each(f, network.ways)) \in Seq(Street)
    OBVIOUS
  <2>1. Each(f, network.ways) \in Seq(Seq(Street))
    BY NetworkFacts, EachSeq
  <2>. QED BY <2>1, FlattenElements
<1>. QED BY <1>1, AllOfWayFacts, CutWayFacts DEF AllStreets, CutStreets

LEMMA BoxPreserves ==
    ASSUME NetworkGiven, streets = AllStreets
    PROVE  /\ network.box => Only(streets, {row \in Range(streets) : Meets(row.line)}) = CutStreets
           /\ ~network.box => streets = CutStreets
<1>. DEFINE T == {row \in Street : Meets(row.line)}
            S == {row \in Range(streets) : Meets(row.line)}
<1>1. streets \in Seq(Street) /\ Range(streets) \subseteq Street
  <2>1. streets \in Seq(Street)
    BY StreetsTyped
  <2>. QED BY <2>1, RangeEquality
<1>2. network.ways \in Seq(Ways) /\ AllOfWay \in [Ways -> Seq(Street)] /\ CutWay \in [Ways -> Seq(Street)]
  BY NetworkFacts, AllOfWayFacts, CutWayFacts
<1>3. ASSUME network.box PROVE Only(streets, S) = CutStreets
  <2>1. \A row \in Range(streets) : row \in S <=> row \in T
    BY <1>1
  <2>2. \A way \in Ways : CutWay[way] = Only(AllOfWay[way], T)
    BY <1>3, CutWayFacts, AllOfWayFacts
  <2>. HIDE DEF S, T
  <2>3. Only(streets, S) = Only(streets, T)
    BY <1>1, <2>1, OnlyAgrees
  <2>4. Only(FlattenSeq(Each(AllOfWay, network.ways)), T) = FlattenSeq(Each(CutWay, network.ways))
    <3>1. AllOfWay \in Maps(Ways, Seq(Street)) /\ CutWay \in Maps(Ways, Seq(Street))
      BY <1>2 DEF Maps
    <3>. QED BY <1>2, <2>2, <3>1, OnlyOfFlat
  <2>. QED BY <2>3, <2>4 DEF AllStreets, CutStreets
<1>4. ASSUME ~network.box PROVE streets = CutStreets
  <2>1. \A way \in Ways : CutWay[way] = AllOfWay[way]
    BY <1>4, CutWayFacts, AllOfWayFacts
  <2>2. CutWay = AllOfWay
    BY <1>2, <2>1
  <2>. QED BY <2>2 DEF AllStreets, CutStreets
<1>. QED BY <1>3, <1>4

\* What is made of the network alone is the same after a step.
LEMMA NetworkStays ==
    ASSUME network' = network
    PROVE  /\ NetworkGiven' <=> NetworkGiven
           /\ nonempty' = nonempty /\ RowOf' = RowOf
           /\ AllStreets' = AllStreets /\ CutStreets' = CutStreets
<1>1. NetworkGiven' <=> NetworkGiven
  BY DEF NetworkGiven
<1>2. nonempty' = nonempty
  BY DEF nonempty
<1>3. RowOf' = RowOf
  BY DEF RowOf, create_linestring_geometry
<1>4. AllStreets' = AllStreets
  BY DEF AllStreets, AllOfWay, AllOf, Kept
<1>5. CutStreets' = CutStreets
  BY DEF CutStreets, CutWay, StreetsOf, Meets
<1>. QED BY <1>1, <1>2, <1>3, <1>4, <1>5

\* The steps that leave the read alone.
LEMMA ReadStays ==
    ASSUME ReadInv, UNCHANGED given,
           pc \in Reading \cup {"failed"} => pc' \in {pc, "failed"},
           pc' \in Reading => pc' = pc /\ nodes' = nodes,
           pc' \in AllNodesThere => pc \in AllNodesThere /\ nodes' = nodes
    PROVE  ReadInv'
<1>1. network' = network /\ way_gdf' = way_gdf /\ streets' = streets
  BY DEF given
<1>2. /\ NetworkGiven' <=> NetworkGiven
      /\ nonempty' = nonempty /\ RowOf' = RowOf
      /\ AllStreets' = AllStreets /\ CutStreets' = CutStreets
  BY <1>1, NetworkStays
<1>3. Ends(AllStreets)' = Ends(AllStreets) /\ Ends(streets)' = Ends(streets)
      /\ Each(RowOf, nonempty)' = Each(RowOf, nonempty)
  BY <1>1, <1>2 DEF Ends, Each
<1>4. \A p \in {"slice", "box"} : p \in Reading
  BY DEF Reading
<1>5. pc' \notin Reading \cup {"failed"} => pc \notin Reading \cup {"failed"}
  OBVIOUS
<1>6. pc' \notin Reading \cup {"failed"} => streets' = CutStreets'
  BY <1>1, <1>2, <1>5 DEF ReadInv
<1>7. pc' \in AllNodesThere => nodes' = Ends(streets)'
  BY <1>3 DEF ReadInv
<1>8. /\ pc' = "slice" => way_gdf' = Each(RowOf, nonempty)' /\ nodes' = Ends(AllStreets)'
      /\ pc' = "box" => streets' = AllStreets' /\ nodes' = Ends(AllStreets)'
  BY <1>1, <1>2, <1>3, <1>4 DEF ReadInv
<1>. QED BY <1>2, <1>6, <1>7, <1>8 DEF ReadInv

-----------------------------------------------------------------------------
\* The read's invariant holds in every state, for every network.
THEOREM ReadInvariant == ExportSpec => []ReadInv
<1>1. ExportInit => ReadInv
  BY DEF ExportInit, SimplifyInit, ReadInit, ReadInv, NetworkGiven, Reading, AllNodesThere
<1>2. ReadInv /\ [ExportNext]_vars => ReadInv'
  <2>. SUFFICES ASSUME ReadInv, [ExportNext]_vars PROVE ReadInv'
    OBVIOUS
  <2>. USE DEF Reading, AllNodesThere
  <2>1. NetworkGiven
    BY DEF ReadInv
  <2>2. CASE CreateWayGeometries
    <3>1. pc' = "slice"
      BY <2>2 DEF CreateWayGeometries
    <3>2. way_gdf' = Each(RowOf, nonempty) /\ nodes' = Ends(AllStreets) /\ network' = network
      BY <2>1, <2>2, CreatePreserves
    <3>3. NetworkGiven' /\ nonempty' = nonempty /\ RowOf' = RowOf /\ AllStreets' = AllStreets
      BY <2>1, <3>2, NetworkStays
    <3>4. Ends(AllStreets)' = Ends(AllStreets) /\ Each(RowOf, nonempty)' = Each(RowOf, nonempty)
      BY <3>3 DEF Ends, Each
    <3>. QED BY <3>1, <3>2, <3>3, <3>4 DEF ReadInv
  <2>3. CASE SliceToSegments
    <3>1. pc = "slice" /\ pc' = "box" /\ streets' = Sliced(Located) /\ network' = network /\ nodes' = nodes
      BY <2>3 DEF SliceToSegments
    <3>2. Sliced(Located) = AllStreets /\ nodes = Ends(AllStreets)
      BY <2>1, <3>1, SlicePreserves DEF ReadInv
    <3>3. NetworkGiven' /\ AllStreets' = AllStreets
      BY <2>1, <3>1, NetworkStays
    <3>4. Ends(AllStreets)' = Ends(AllStreets)
      BY <3>3 DEF Ends
    <3>. QED BY <3>1, <3>2, <3>3, <3>4 DEF ReadInv
  <2>4. CASE SliceFails
    BY <2>4, ReadStays DEF SliceFails, given
  <2>5. CASE FilterByBox
    <3>1. /\ pc = "box" /\ network.box /\ network' = network
          /\ streets' = Only(streets, {row \in Range(streets) : Meets(row.line)})
          /\ nodes' = nodes \cap Ends(streets')
          /\ pc' \in {"nothing", "directed"}
      BY <2>5 DEF FilterByBox, Referenced
    <3>2. streets = AllStreets /\ nodes = Ends(streets)
      BY <3>1 DEF ReadInv
    <3>3. streets' = CutStreets
      BY <2>1, <3>1, <3>2, BoxPreserves
    <3>4. NetworkGiven' /\ CutStreets' = CutStreets
      BY <2>1, <3>1, NetworkStays
    <3>5. nodes' = Ends(streets)'
      <4>. DEFINE S == {row \in Range(streets) : Meets(row.line)}
                  left == Only(streets, S)
      <4>1. streets \in Seq(Street)
        BY <2>1, <3>2, StreetsTyped
      <4>. HIDE DEF S
      <4>2. Range(left) \subseteq Range(streets)
        BY <4>1, OnlyElements
      <4>. HIDE DEF left
      <4>3. Ends(left) \subseteq Ends(streets)
        BY <4>2, EndsIs
      <4>4. streets' = left
        BY <3>1 DEF left, S
      <4>5. Ends(streets)' = Ends(streets')
        BY DEF Ends
      <4>. QED BY <3>1, <3>2, <4>3, <4>4, <4>5
    <3>. QED BY <3>1, <3>3, <3>4, <3>5 DEF ReadInv
  <2>6. CASE WholeFile
    <3>1. pc = "box" /\ ~network.box /\ network' = network /\ streets' = streets /\ nodes' = nodes
          /\ pc' = "directed"
      BY <2>6 DEF WholeFile
    <3>2. streets = AllStreets /\ nodes = Ends(streets)
      BY <3>1 DEF ReadInv
    <3>3. streets = CutStreets
      BY <2>1, <3>1, <3>2, BoxPreserves
    <3>4. NetworkGiven' /\ CutStreets' = CutStreets
      BY <2>1, <3>1, NetworkStays
    <3>5. Ends(streets)' = Ends(streets)
      BY <3>1 DEF Ends
    <3>. QED BY <3>1, <3>2, <3>3, <3>4, <3>5 DEF ReadInv
  <2>7. CASE DirectEdges
    BY <2>7, ReadStays DEF DirectEdges, frames
  <2>8. CASE SkipSimplify
    BY <2>8, ReadStays DEF SkipSimplify
  <2>9. CASE DetectEndpoints
    BY <2>9, ReadStays DEF DetectEndpoints, frames
  <2>10. CASE Extend
    BY <2>10, ReadStays DEF Extend, frames
  <2>11. ASSUME NEW r \in Rows, StartAtEndpoint(r) \/ StartRing(r) PROVE ReadInv'
    BY <2>11, ReadStays DEF StartAtEndpoint, StartRing, Start, frames
  <2>12. CASE WalkEnds \/ RingsEnd
    BY <2>12, ReadStays DEF WalkEnds, RingsEnd, frames
  <2>13. CASE Collapse
    BY <2>13, ReadStays DEF Collapse
  <2>14. CASE RetainAll
    BY <2>14, ReadStays DEF RetainAll, frames
  <2>15. ASSUME NEW n \in Nodes, Source(n) PROVE ReadInv'
    BY <2>15, ReadStays DEF Source, simplify_vars, frames
  <2>16. CASE Descend
    BY <2>16, ReadStays DEF Descend, simplify_vars, frames
  <2>17. CASE Postpone \/ CloseComponent
    BY <2>17, ReadStays DEF Postpone, CloseComponent, Ascend, simplify_vars, frames
  <2>18. CASE KeepLargest
    BY <2>18, ReadStays DEF KeepLargest, SearchEnds
  <2>19. CASE ConnectFails
    BY <2>19, ReadStays DEF ConnectFails, SearchEnds, frames
  <2>20. CASE create_igraph \/ create_nxgraph
    BY <2>20, ReadStays DEF create_igraph, create_nxgraph, frames
  <2>21. CASE UNCHANGED vars
    BY <2>21, ReadStays DEF vars, simplify_vars, frames
  <2>. QED BY <2>2, <2>3, <2>4, <2>5, <2>6, <2>7, <2>8, <2>9, <2>10, <2>11, <2>12, <2>13, <2>14, <2>15,
              <2>16, <2>17, <2>18, <2>19, <2>20, <2>21
           DEF ExportNext, Simplify, SimplifyNext, Read, ReadNext
<1>. QED BY <1>1, <1>2, PTL DEF ExportSpec

\* A read gives each pair of consecutive located nodes of a way as one street,
\* and exactly the ends of the streets as nodes (geometry.pyx:390-394,
\* frames.pyx:242-245), whichever ways took the batched path, had gaps or were
\* left out.
THEOREM StreetsAreTheWays == ExportSpec => []ReadsTheStreets
<1>1. ReadInv => ReadsTheStreets
  <2>. SUFFICES ASSUME ReadInv, pc \in {"directed", "nothing"}
                PROVE  /\ streets = FlattenSeq([w \in DOMAIN network.ways |-> StreetsOf(network.ways[w])])
                       /\ nodes = Ends(streets)
    BY DEF ReadsTheStreets
  <2>1. streets = CutStreets /\ nodes = Ends(streets) /\ NetworkGiven
    BY DEF ReadInv, Reading, AllNodesThere
  <2>2. \A w \in DOMAIN network.ways : network.ways[w] \in Ways
    BY <2>1, NetworkFacts
  <2>3. Each(CutWay, network.ways) = [w \in DOMAIN network.ways |-> StreetsOf(network.ways[w])]
    BY <2>2 DEF Each, CutWay
  <2>. QED BY <2>1, <2>3 DEF CutStreets
<1>. QED BY <1>1, ReadInvariant, PTL

-----------------------------------------------------------------------------
(***************************************************************************)
(* The walk.                                                               *)
(***************************************************************************)

\* The chains are sequences of rows, none of them empty.
ChainsTyped ==
    /\ visited \subseteq Rows
    /\ chains \in Seq(Seq(Rows))
    /\ \A k \in DOMAIN chains : chains[k] # <<>>
OnePlace ==
    \A j, k \in DOMAIN chains : \A a \in DOMAIN chains[j], b \in DOMAIN chains[k] :
        chains[j][a] = chains[k][b] => (j = k /\ a = b)
Marked ==
    \A r \in Rows :
        r \in visited <=> \E k \in DOMAIN chains : \E a \in DOMAIN chains[k] : chains[k][a] = r
\* The walk stands at the end of the last chain.
AtItsEnd ==
    chains # <<>> =>
        LET c == chains[Len(chains)]
        IN  prev = edges[c[Len(c)]].u /\ cur = edges[c[Len(c)]].v
BeforeWalk == {"geometry", "slice", "box", "directed", "detect"}
NotBegun == pc \in BeforeWalk => chains = <<>>
AllWalked == (pc = "collapse" /\ ~network.remove_rings) => visited = Rows

WalkInv ==
    ChainsTyped /\ OnePlace /\ Marked /\ AtItsEnd /\ ChainsPassThrough /\ NotBegun /\ AllWalked

-----------------------------------------------------------------------------
\* A chain that starts with an unvisited row.
LEMMA StartPreserves ==
    ASSUME WalkInv, NEW r \in Rows \ visited, Start(r), pc \in {"walk", "rings"}
    PROVE  WalkInv'
<1>. DEFINE n == Len(chains)
<1>1. /\ n \in Nat /\ DOMAIN chains = 1..n
      /\ \A k \in 1..n : chains[k] \in Seq(Rows)
  BY DEF WalkInv, ChainsTyped
<1>2. /\ chains' = Append(chains, <<r>>) /\ Len(chains') = n + 1 /\ DOMAIN chains' = 1..n + 1
      /\ chains'[n + 1] = <<r>>
      /\ \A k \in 1..n : chains'[k] = chains[k]
  BY <1>1 DEF Start, WalkInv, ChainsTyped
<1>3. Rows' = Rows /\ visited' = visited \cup {r}
  BY DEF Start, Rows
<1>4. ChainsTyped'
  <2>1. chains' \in Seq(Seq(Rows))
    BY <1>2 DEF WalkInv, ChainsTyped
  <2>. QED BY <1>1, <1>2, <1>3, <2>1 DEF WalkInv, ChainsTyped
<1>5. \A k \in 1..n : \A a \in DOMAIN chains[k] : chains[k][a] \in visited
  <2>1. ASSUME NEW k \in 1..n, NEW a \in DOMAIN chains[k] PROVE chains[k][a] \in Rows
    BY <1>1, <2>1
  <2>. QED BY <1>1, <2>1 DEF WalkInv, Marked
<1>6. OnePlace'
  <2>1. \A a \in DOMAIN chains'[n + 1] : a = 1 /\ chains'[n + 1][a] = r
    BY <1>2
  <2>. QED BY <1>1, <1>2, <1>5, <2>1 DEF WalkInv, OnePlace
<1>7. Marked'
  <2>1. 1 \in DOMAIN chains'[n + 1] /\ chains'[n + 1][1] = r /\ n + 1 \in DOMAIN chains'
    BY <1>1, <1>2
  <2>2. ASSUME NEW s \in Rows, s \in visited
        PROVE  \E k \in DOMAIN chains' : \E a \in DOMAIN chains'[k] : chains'[k][a] = s
    <3>1. PICK k \in DOMAIN chains : \E a \in DOMAIN chains[k] : chains[k][a] = s
      BY <2>2 DEF WalkInv, Marked
    <3>. QED BY <1>1, <1>2, <3>1
  <2>3. ASSUME NEW k \in DOMAIN chains', NEW a \in DOMAIN chains'[k]
        PROVE  chains'[k][a] \in visited'
    BY <1>1, <1>2, <1>3, <1>5, <2>3
  <2>. QED BY <1>3, <2>1, <2>2, <2>3 DEF Marked
<1>8. AtItsEnd'
  BY <1>2 DEF AtItsEnd, Start
<1>9. ChainsPassThrough'
  <2>1. edges' = edges /\ is_endpoint' = is_endpoint
    BY DEF Start
  <2>2. 1..(Len(chains'[n + 1]) - 1) = {}
    BY <1>2
  <2>. QED BY <1>1, <1>2, <2>1, <2>2 DEF WalkInv, ChainsPassThrough
<1>10. NotBegun' /\ AllWalked'
  BY DEF Start, NotBegun, AllWalked, BeforeWalk, given
<1>. QED BY <1>4, <1>6, <1>7, <1>8, <1>9, <1>10 DEF WalkInv

\* A chain that goes on with an unvisited row that leaves the node it is at.
LEMMA ExtendPreserves ==
    ASSUME WalkInv, Extend
    PROVE  WalkInv'
<1>1. PICK r \in Onward :
        /\ visited' = visited \cup {r}
        /\ chains' = [chains EXCEPT ![Len(chains)] = Append(@, r)]
        /\ prev' = cur /\ cur' = edges[r].v
  BY DEF Extend
<1>. DEFINE n == Len(chains)
            c == chains[n]
            l == Len(c)
<1>2. /\ r \in Rows /\ r \notin visited /\ edges[r].u = cur /\ edges[r].v # prev
      /\ chains # <<>> /\ cur \notin is_endpoint
      /\ edges' = edges /\ is_endpoint' = is_endpoint /\ Rows' = Rows
      /\ pc \in {"walk", "rings"} /\ pc' = pc /\ network' = network
  BY <1>1 DEF Extend, Growing, Onward, Out, Rows, given
<1>3. /\ n \in Nat \ {0} /\ DOMAIN chains = 1..n
      /\ \A k \in 1..n : chains[k] \in Seq(Rows)
  BY <1>2 DEF WalkInv, ChainsTyped
<1>4. c \in Seq(Rows) /\ l \in Nat \ {0} /\ DOMAIN c = 1..l
  BY <1>3 DEF WalkInv, ChainsTyped
<1>5. /\ Append(c, r) \in Seq(Rows) /\ Len(Append(c, r)) = l + 1 /\ DOMAIN Append(c, r) = 1..l + 1
      /\ Append(c, r)[l + 1] = r
      /\ \A a \in 1..l : Append(c, r)[a] = c[a]
  <2>. HIDE DEF c
  <2>. QED BY <1>2, <1>4
<1>. DEFINE d == Append(c, r)
<1>6. /\ DOMAIN chains' = 1..n
      /\ chains'[n] = d
      /\ \A k \in 1..n : k # n => chains'[k] = chains[k]
  <2>1. chains' = [chains EXCEPT ![n] = d]
    BY <1>1
  <2>2. n \in DOMAIN chains
    BY <1>3
  <2>. HIDE DEF n, d
  <2>. QED BY <1>3, <2>1, <2>2
<1>. HIDE DEF n, c, l, d
<1>7. /\ d \in Seq(Rows) /\ Len(d) = l + 1 /\ DOMAIN d = 1..l + 1 /\ d[l + 1] = r
       /\ \A a \in 1..l : d[a] = c[a]
  BY <1>5 DEF d
<1>8. n = Len(chains) /\ c = chains[n] /\ l = Len(c)
  BY DEF n, c, l
<1>9. ChainsTyped' /\ Len(chains') = n
  <2>1. chains' \in [1..n -> Seq(Rows)]
    <3>1. chains' = [chains EXCEPT ![n] = d]
      BY <1>1 DEF n, c, d
    <3>2. chains \in [1..n -> Seq(Rows)]
      BY <1>3, <1>8 DEF WalkInv, ChainsTyped
    <3>. QED BY <1>7, <3>1, <3>2
  <2>2. chains' \in Seq(Seq(Rows)) /\ Len(chains') = n
    BY <1>3, <2>1
  <2>3. visited' \subseteq Rows
    BY <1>1, <1>2 DEF WalkInv, ChainsTyped
  <2>4. d # <<>>
    BY <1>4, <1>7
  <2>. QED BY <1>2, <1>3, <1>6, <2>2, <2>3, <2>4 DEF WalkInv, ChainsTyped
<1>10. \A k \in 1..n : \A a \in DOMAIN chains[k] : chains[k][a] \in visited
  <2>1. ASSUME NEW k \in 1..n, NEW a \in DOMAIN chains[k] PROVE chains[k][a] \in Rows
    BY <1>3, <2>1
  <2>. QED BY <1>3, <2>1 DEF WalkInv, Marked
<1>11. OnePlace'
  <2>1. ASSUME NEW j \in 1..n, NEW a \in DOMAIN chains'[j]
        PROVE  \/ j = n /\ a = l + 1 /\ chains'[j][a] = r
               \/ a \in DOMAIN chains[j] /\ chains'[j][a] = chains[j][a]
    BY <1>4, <1>6, <1>7, <1>8, <2>1
  <2>. QED BY <1>2, <1>3, <1>6, <1>10, <2>1 DEF WalkInv, OnePlace
<1>12. Marked'
  <2>1. n \in DOMAIN chains' /\ l + 1 \in DOMAIN chains'[n] /\ chains'[n][l + 1] = r
    <3>1. n \in 1..n /\ l + 1 \in 1..l + 1
      BY <1>3, <1>4
    <3>. QED BY <1>6, <1>7, <3>1, Zenon
  <2>2. ASSUME NEW s \in Rows, s \in visited
        PROVE  \E k \in DOMAIN chains' : \E a \in DOMAIN chains'[k] : chains'[k][a] = s
    <3>1. PICK k \in DOMAIN chains : \E a \in DOMAIN chains[k] : chains[k][a] = s
      BY <2>2 DEF WalkInv, Marked
    <3>. PICK a \in DOMAIN chains[k] : chains[k][a] = s
      BY <3>1
    <3>2. CASE k = n
      <4>1. a \in 1..l /\ a \in 1..l + 1
        BY <1>4, <1>8, <3>2
      <4>. QED BY <1>3, <1>6, <1>7, <1>8, <3>2, <4>1, Zenon
    <3>3. CASE k # n
      BY <1>3, <1>6, <3>3, Zenon
    <3>. QED BY <3>2, <3>3
  <2>3. ASSUME NEW k \in DOMAIN chains', NEW a \in DOMAIN chains'[k]
        PROVE  chains'[k][a] \in visited'
    <3>1. CASE k # n
      BY <1>1, <1>3, <1>6, <1>10, <3>1, Zenon
    <3>2. CASE k = n /\ a = l + 1
      BY <1>1, <1>6, <1>7, <3>2, Zenon
    <3>3. CASE k = n /\ a # l + 1
      <4>1. k \in 1..n /\ a \in 1..l
        BY <1>3, <1>4, <1>6, <1>7, <2>3, <3>3
      <4>. QED BY <1>1, <1>4, <1>6, <1>7, <1>8, <1>10, <3>3, <4>1, Zenon
    <3>. QED BY <3>1, <3>2, <3>3
  <2>. QED BY <1>1, <1>2, <2>1, <2>2, <2>3 DEF Marked
<1>13. AtItsEnd'
  <2>1. Len(chains') = n /\ chains'[n] = d /\ Len(d) = l + 1 /\ d[l + 1] = r
    BY <1>6, <1>7, <1>9
  <2>2. edges'[d[l + 1]].u = cur /\ edges'[d[l + 1]].v = cur'
    BY <1>1, <1>2, <2>1, Zenon
  <2>. QED BY <1>1, <2>1, <2>2, Zenon DEF AtItsEnd
<1>14. ChainsPassThrough'
  <2>1. edges[c[l]].v = cur /\ edges[c[l]].u = prev
    BY <1>2, <1>8, Zenon DEF WalkInv, AtItsEnd
  <2>2. ASSUME NEW a \in 1..l
        PROVE  LET p == edges[d[a]]
                   q == edges[d[a + 1]]
               IN  p.v = q.u /\ p.v \notin is_endpoint /\ q.v # p.u
    <3>1. CASE a = l
      BY <1>2, <1>4, <1>7, <1>8, <2>1, <3>1
    <3>2. CASE a # l
      <4>1. a \in 1..l - 1 /\ a + 1 \in 1..l
        BY <1>4, <3>2
      <4>. QED BY <1>3, <1>4, <1>7, <1>8, <4>1 DEF WalkInv, ChainsPassThrough
    <3>. QED BY <3>1, <3>2
  <2>3. Len(chains'[n]) - 1 = l
    BY <1>4, <1>6, <1>7
  <2>4. ASSUME NEW k \in DOMAIN chains', NEW a \in 1..Len(chains'[k]) - 1
        PROVE  LET p == edges[chains'[k][a]]
                   q == edges[chains'[k][a + 1]]
               IN  p.v = q.u /\ p.v \notin is_endpoint /\ q.v # p.u
    <3>1. CASE k = n
      BY <1>6, <2>2, <2>3, <3>1
    <3>2. CASE k # n
      BY <1>3, <1>6, <3>2 DEF WalkInv, ChainsPassThrough
    <3>. QED BY <3>1, <3>2
  <2>. QED BY <1>2, <2>4 DEF ChainsPassThrough
<1>15. NotBegun' /\ AllWalked'
  BY <1>2 DEF NotBegun, AllWalked, BeforeWalk
<1>. QED BY <1>9, <1>11, <1>12, <1>13, <1>14, <1>15 DEF WalkInv

\* The steps that leave the chains alone, once there are endpoints.
LEMMA RestPreserves ==
    ASSUME WalkInv, UNCHANGED <<given, edges, is_endpoint, walked>>,
           pc' \in BeforeWalk => pc' = pc,
           pc' = "collapse" /\ ~network.remove_rings => pc = "collapse" \/ visited = Rows
    PROVE  WalkInv'
<1>1. Rows' = Rows
  BY DEF Rows
<1>2. /\ visited' = visited /\ chains' = chains /\ prev' = prev /\ cur' = cur
      /\ edges' = edges /\ is_endpoint' = is_endpoint
  BY DEF walked
<1>3. ChainsTyped' /\ OnePlace'
  BY <1>1, <1>2 DEF WalkInv, ChainsTyped, OnePlace
<1>4. Marked' /\ AtItsEnd'
  BY <1>1, <1>2 DEF WalkInv, Marked, AtItsEnd
<1>5. ChainsPassThrough'
  BY <1>2 DEF WalkInv, ChainsPassThrough
<1>6. NotBegun' /\ AllWalked'
  BY <1>1, <1>2 DEF WalkInv, NotBegun, AllWalked, given
<1>. QED BY <1>3, <1>4, <1>5, <1>6 DEF WalkInv

\* No chain has begun before the endpoints are known: the rows and the
\* endpoints may change.
LEMMA BeforePreserves ==
    ASSUME WalkInv, pc \in BeforeWalk, UNCHANGED walked, pc' # "collapse"
    PROVE  WalkInv'
<1>1. chains = <<>> /\ visited = {} /\ chains' = <<>> /\ visited' = {}
  <2>1. chains = <<>>
    BY DEF WalkInv, NotBegun
  <2>. QED BY <2>1 DEF WalkInv, ChainsTyped, Marked, walked
<1>2. ChainsTyped' /\ OnePlace' /\ Marked' /\ AtItsEnd' /\ ChainsPassThrough'
  BY <1>1 DEF ChainsTyped, OnePlace, Marked, AtItsEnd, ChainsPassThrough
<1>. QED BY <1>1, <1>2 DEF WalkInv, NotBegun, AllWalked

-----------------------------------------------------------------------------
\* The walk's invariant holds in every state, for every street network.
THEOREM WalkInvariant == ExportSpec => []WalkInv
<1>1. ExportInit => WalkInv
  BY DEF ExportInit, SimplifyInit, ReadInit, BeforeWalk, WalkInv, ChainsTyped, OnePlace, Marked, AtItsEnd,
         ChainsPassThrough, NotBegun, AllWalked
<1>2. WalkInv /\ [ExportNext]_vars => WalkInv'
  <2>. SUFFICES ASSUME WalkInv, [ExportNext]_vars PROVE WalkInv'
    OBVIOUS
  <2>0. CASE Read
    BY <2>0, BeforePreserves
       DEF Read, ReadNext, CreateWayGeometries, SliceToSegments, SliceFails, FilterByBox, WholeFile, BeforeWalk
  <2>1. CASE DirectEdges
    BY <2>1, BeforePreserves DEF DirectEdges, BeforeWalk
  <2>2. CASE SkipSimplify
    BY <2>2, BeforePreserves DEF SkipSimplify, BeforeWalk
  <2>3. CASE DetectEndpoints
    BY <2>3, BeforePreserves DEF DetectEndpoints, BeforeWalk
  <2>4. CASE Extend
    BY <2>4, ExtendPreserves
  <2>5. ASSUME NEW r \in Rows, StartAtEndpoint(r) PROVE WalkInv'
    BY <2>5, StartPreserves DEF StartAtEndpoint, IsNext, FromEndpoints
  <2>6. ASSUME NEW r \in Rows, StartRing(r) PROVE WalkInv'
    BY <2>6, StartPreserves DEF StartRing, IsNext
  <2>7. CASE WalkEnds
    BY <2>7, RestPreserves DEF WalkEnds, BeforeWalk
  <2>8. CASE RingsEnd
    BY <2>8, RestPreserves DEF RingsEnd, BeforeWalk
  <2>9. CASE Collapse
    BY <2>9, RestPreserves DEF Collapse, BeforeWalk
  <2>10. CASE RetainAll
    BY <2>10, RestPreserves DEF RetainAll, BeforeWalk
  <2>11. ASSUME NEW n \in Nodes, Source(n) PROVE WalkInv'
    BY <2>11, RestPreserves DEF Source, simplify_vars
  <2>12. CASE Descend
    BY <2>12, RestPreserves DEF Descend, simplify_vars
  <2>13. CASE Postpone \/ CloseComponent
    BY <2>13, RestPreserves DEF Postpone, CloseComponent, Ascend, simplify_vars
  <2>14. CASE KeepLargest
    BY <2>14, RestPreserves DEF KeepLargest, BeforeWalk
  <2>15. CASE ConnectFails
    BY <2>15, RestPreserves DEF ConnectFails, BeforeWalk
  <2>16. CASE UNCHANGED vars
    BY <2>16, RestPreserves DEF vars, simplify_vars
  <2>17. CASE create_igraph \/ create_nxgraph
    BY <2>17, RestPreserves DEF create_igraph, create_nxgraph, BeforeWalk
  <2>. QED BY <2>0, <2>1, <2>2, <2>3, <2>4, <2>5, <2>6, <2>7, <2>8, <2>9, <2>10, <2>11, <2>12, <2>13,
              <2>14, <2>15, <2>16, <2>17 DEF ExportNext, Simplify, SimplifyNext
<1>. QED BY <1>1, <1>2, PTL DEF ExportSpec

\* No street direction is walked twice, and with remove_rings=False none is
\* left out.
THEOREM RowsWalkedOnce == ExportSpec => []EachRowOnce
<1>1. WalkInv => EachRowOnce
  BY DEF WalkInv, OnePlace, Marked, AllWalked, EachRowOnce
<1>. QED BY <1>1, WalkInvariant, PTL

\* Every chain is a path through dropped nodes that never turns back.
THEOREM ChainsArePaths == ExportSpec => []ChainsPassThrough
<1>1. WalkInv => ChainsPassThrough
  BY DEF WalkInv
<1>. QED BY <1>1, WalkInvariant, PTL

-----------------------------------------------------------------------------
(***************************************************************************)
(* The frames: what is in the rows, and whose ends the nodes are.          *)
(***************************************************************************)
\* A street is drawn from its first node to its second; a directed row is drawn
\* as the street it comes from, which may be the other way round.
Aligned == {e \in Street : e.line = <<e.u, e.v>>}
Directed == {e \in Street : e.line = <<e.u, e.v>> \/ e.line = <<e.v, e.u>>}
Turned(e) == [e EXCEPT !.u = e.v, !.v = e.u]

LEMMA CutAligned ==
    ASSUME NetworkGiven
    PROVE  CutStreets \in Seq(Aligned)
<1>1. ASSUME NEW way \in Ways PROVE StreetsOf(way) \in Seq(Aligned)
  <2>. DEFINE P == {p \in Nodes \X Nodes : network.box => Meets(p)}
              pairs == Only(Segments(Kept(way)), P)
              rows == [i \in DOMAIN pairs |-> [u |-> pairs[i][1], v |-> pairs[i][2], line |-> pairs[i],
                                               oneway |-> way.oneway, class |-> way.class]]
  <2>1. pairs \in Seq(Links) /\ way.oneway \in Directions /\ way.class \in Classes
    BY WayFacts, OnlyType
  <2>2. StreetsOf(way) = rows
    BY DEF StreetsOf, Kept
  <2>. HIDE DEF pairs
  <2>3. ASSUME NEW i \in DOMAIN pairs PROVE rows[i] \in Aligned
    <3>1. pairs[i] \in Links
      BY <2>1
    <3>2. pairs[i] = <<pairs[i][1], pairs[i][2]>> /\ pairs[i][1] \in Nodes /\ pairs[i][2] \in Nodes
      BY <3>1 DEF Links
    <3>3. rows[i] \in Street
      BY <2>1, <3>1, <3>2 DEF Street
    <3>. QED BY <3>2, <3>3 DEF Aligned
  <2>4. rows \in Seq(Aligned)
    <3>1. DOMAIN rows = 1..Len(pairs) /\ Len(pairs) \in Nat
      BY <2>1
    <3>2. \A i \in 1..Len(pairs) : rows[i] \in Aligned
      BY <2>1, <2>3
    <3>3. rows = [i \in 1..Len(pairs) |-> rows[i]]
      BY <3>1
    <3>. HIDE DEF rows
    <3>. QED BY <3>1, <3>2, <3>3
  <2>. QED BY <2>2, <2>4
<1>2. CutWay \in [Ways -> Seq(Aligned)]
  BY <1>1 DEF CutWay
<1>3. Each(CutWay, network.ways) \in Seq(Seq(Aligned))
  BY <1>2, NetworkFacts, EachSeq
<1>. QED BY <1>3, FlattenElements DEF CutStreets

\* A direction's rows, turned or not.
LEMMA FlipFacts ==
    ASSUME NEW q \in Seq(Aligned)
    PROVE  /\ q \in Seq(Directed) /\ Flip(q) \in Seq(Directed)
           /\ Ends(Flip(q)) = Ends(q)
<1>1. ASSUME NEW e \in Aligned
      PROVE  e \in Directed /\ Turned(e) \in Directed /\ Turned(e).u = e.v /\ Turned(e).v = e.u
  <2>1. e \in [u : Nodes, v : Nodes, line : Links, oneway : Directions, class : Classes] /\ e.line = <<e.u, e.v>>
    BY DEF Aligned, Street
  <2>2. /\ Turned(e) \in [u : Nodes, v : Nodes, line : Links, oneway : Directions, class : Classes]
        /\ Turned(e).u = e.v /\ Turned(e).v = e.u /\ Turned(e).line = e.line
    BY <2>1 DEF Turned
  <2>. QED BY <2>1, <2>2 DEF Directed, Street
<1>2. Len(q) \in Nat /\ DOMAIN q = 1..Len(q) /\ \A i \in 1..Len(q) : q[i] \in Aligned
  OBVIOUS
<1>3. Flip(q) = [i \in 1..Len(q) |-> Turned(q[i])]
  BY <1>2 DEF Flip, Turned
<1>4. q \in Seq(Directed) /\ Flip(q) \in Seq(Directed)
  <2>1. \A i \in 1..Len(q) : q[i] \in Directed /\ Turned(q[i]) \in Directed
    BY <1>1, <1>2
  <2>2. q \in Seq(Directed)
    BY <1>2, <2>1
  <2>. QED BY <1>2, <1>3, <2>1, <2>2
<1>5. Ends(Flip(q)) = Ends(q)
  <2>1. DOMAIN Flip(q) = DOMAIN q /\ \A i \in DOMAIN q : Flip(q)[i].u = q[i].v /\ Flip(q)[i].v = q[i].u
    BY <1>1, <1>2, <1>3
  <2>. QED BY <2>1 DEF Ends
<1>. QED BY <1>4, <1>5

LEMMA EndsOfConcat ==
    ASSUME NEW X, NEW s \in Seq(X), NEW t \in Seq(X)
    PROVE  Ends(s \o t) = Ends(s) \cup Ends(t)
<1>1. Range(s \o t) = Range(s) \cup Range(t)
  BY ConcatFacts
<1>. DEFINE w == s \o t
<1>. HIDE DEF w
<1>2. Ends(w) = {e.u : e \in Range(w)} \cup {e.v : e \in Range(w)}
  BY EndsIs
<1>3. /\ Ends(s) = {e.u : e \in Range(s)} \cup {e.v : e \in Range(s)}
      /\ Ends(t) = {e.u : e \in Range(t)} \cup {e.v : e \in Range(t)}
  BY EndsIs
<1>4. Range(w) = Range(s) \cup Range(t)
  BY <1>1 DEF w
<1>5. Ends(w) = Ends(s) \cup Ends(t)
  BY <1>2, <1>3, <1>4
<1>. QED BY <1>5 DEF w

LEMMA DirectedFacts ==
    ASSUME NEW rows \in Seq(Aligned)
    PROVE  /\ generate_directed_edges(rows) \in Seq(Directed)
           /\ Ends(generate_directed_edges(rows)) \subseteq Ends(rows)
<1>. DEFINE Way(direction) == Only(rows, {s \in Range(rows) : s.oneway = direction})
            a == Way("along")
            b == Flip(Way("against"))
            c == Way("both")
            d == Flip(Way("both"))
<1>1. \A direction : Way(direction) \in Seq(Aligned) /\ Range(Way(direction)) \subseteq Range(rows)
  BY OnlyElements
<1>2. generate_directed_edges(rows) = ((a \o b) \o c) \o d
  BY DEF generate_directed_edges
<1>3. \A direction : Ends(Way(direction)) \subseteq Ends(rows)
  <2>. SUFFICES ASSUME NEW direction PROVE Ends(Way(direction)) \subseteq Ends(rows)
    OBVIOUS
  <2>. DEFINE w == Way(direction)
  <2>1. Range(w) \subseteq Range(rows)
    BY <1>1
  <2>. HIDE DEF w
  <2>2. Ends(w) \subseteq Ends(rows)
    BY <2>1, EndsIs
  <2>. QED BY <2>2 DEF w
<1>4. /\ a \in Seq(Directed) /\ b \in Seq(Directed) /\ c \in Seq(Directed) /\ d \in Seq(Directed)
      /\ Ends(a) \subseteq Ends(rows) /\ Ends(b) \subseteq Ends(rows)
      /\ Ends(c) \subseteq Ends(rows) /\ Ends(d) \subseteq Ends(rows)
  <2>. HIDE DEF Way
  <2>. QED BY <1>1, <1>3, FlipFacts
<1>. HIDE DEF a, b, c, d
<1>. DEFINE ab == a \o b
            abc == ab \o c
            abcd == abc \o d
<1>5. ab \in Seq(Directed) /\ Ends(ab) = Ends(a) \cup Ends(b)
  BY <1>4, EndsOfConcat
<1>. HIDE DEF ab
<1>6. abc \in Seq(Directed) /\ Ends(abc) = Ends(ab) \cup Ends(c)
  BY <1>4, <1>5, EndsOfConcat
<1>. HIDE DEF abc
<1>7. abcd \in Seq(Directed) /\ Ends(abcd) = Ends(abc) \cup Ends(d)
  BY <1>4, <1>6, EndsOfConcat
<1>. QED BY <1>2, <1>4, <1>5, <1>6, <1>7 DEF ab, abc

-----------------------------------------------------------------------------
\* The points of a row, in the direction of the row, once its nodes are there.
LEMMA RowPointsAre ==
    ASSUME NEW r \in Rows, edges \in Seq(Directed), Ends(edges) \subseteq nodes
    PROVE  RowPoints(r) = <<edges[r].u, edges[r].v>>
<1>. DEFINE e == edges[r]
            x == e.u
            y == e.v
            l == e.line
<1>1. x \in Nodes /\ y \in Nodes /\ (l = <<x, y>> \/ l = <<y, x>>)
  BY DEF Rows, Directed, Street
<1>2. {x, y} \subseteq nodes
  BY DEF Rows, Ends
<1>3. geom_reversed(r) <=> Distance(Head(l), y) + Distance(Last(l), x) < Distance(Head(l), x) + Distance(Last(l), y)
  BY <1>2 DEF geom_reversed
<1>4. RowPoints(r) = IF geom_reversed(r) THEN Reverse(l) ELSE l
  BY DEF RowPoints
<1>. HIDE DEF e, x, y, l
<1>5. \A a, b : Head(<<a, b>>) = a /\ Last(<<a, b>>) = b
  BY DEF Last
<1>6. CASE l = <<x, y>>
  <2>1. Head(l) = x /\ Last(l) = y
    BY <1>5, <1>6
  <2>2. ~ geom_reversed(r)
    BY <1>3, <2>1 DEF Distance
  <2>. QED BY <1>4, <1>6, <2>2 DEF e, x, y
<1>7. CASE l = <<y, x>> /\ x # y
  <2>1. Head(l) = y /\ Last(l) = x
    BY <1>5, <1>7
  <2>2. geom_reversed(r)
    BY <1>3, <1>7, <2>1 DEF Distance
  <2>3. Reverse(<<y, x>>) = <<x, y>>
    BY DEF Reverse
  <2>. QED BY <1>4, <1>7, <2>2, <2>3 DEF e, x, y
<1>. QED BY <1>1, <1>6, <1>7

\* A chain is drawn along its rows.
LEMMA StitchedIs ==
    ASSUME NEW c \in Seq(Rows), c # <<>>, edges \in Seq(Directed), Ends(edges) \subseteq nodes
    PROVE  stitch_geometries(c) = <<edges[c[1]].u>> \o [a \in DOMAIN c |-> edges[c[a]].v]
<1>. DEFINE n == Len(c)
            U == edges[c[1]].u
            V(a) == edges[c[a]].v
            ss == [a \in DOMAIN c |-> IF a = 1 THEN RowPoints(c[a]) ELSE Tail(RowPoints(c[a]))]
            g == [k \in 0..n |-> IF k = 0 THEN <<>> ELSE [a \in 1..k + 1 |-> IF a = 1 THEN U ELSE V(a - 1)]]
<1>1. n \in Nat /\ n >= 1 /\ DOMAIN c = 1..n /\ \A a \in 1..n : c[a] \in Rows
  BY EmptySeq
<1>2. \A a \in 1..n : RowPoints(c[a]) = <<edges[c[a]].u, V(a)>>
  BY <1>1, RowPointsAre
<1>. HIDE DEF U, V
<1>3. /\ Len(ss) = n /\ ss[1] = <<U, V(1)>>
      /\ \A a \in 2..n : ss[a] = <<V(a)>>
  <2>1. ss = [a \in 1..n |-> IF a = 1 THEN RowPoints(c[a]) ELSE Tail(RowPoints(c[a]))]
    BY <1>1
  <2>2. Len(ss) = n
    BY <1>1, <2>1
  <2>3. ss[1] = <<U, V(1)>>
    BY <1>1, <1>2, <2>1 DEF U
  <2>4. \A a \in 2..n : ss[a] = <<V(a)>>
    <3>. SUFFICES ASSUME NEW a \in 2..n PROVE ss[a] = <<V(a)>>
      OBVIOUS
    <3>1. ss[a] = Tail(RowPoints(c[a])) /\ a \in 1..n
      BY <1>1, <2>1
    <3>2. \A x, y : Tail(<<x, y>>) = <<y>>
      OBVIOUS
    <3>. QED BY <1>2, <3>1, <3>2
  <2>. QED BY <2>2, <2>3, <2>4
<1>4. stitch_geometries(c) = FlattenSeq(ss)
  BY DEF stitch_geometries
<1>. HIDE DEF ss
<1>5. \A i \in 1..n : ss[i] \in Seq({U} \cup {V(a) : a \in 1..n}) /\ <<>> \o ss[i] = ss[i]
  <2>. SUFFICES ASSUME NEW i \in 1..n
                PROVE  ss[i] \in Seq({U} \cup {V(a) : a \in 1..n}) /\ <<>> \o ss[i] = ss[i]
    OBVIOUS
  <2>. DEFINE S == {U} \cup {V(a) : a \in 1..n}
  <2>1. ss[i] = <<U, V(1)>> \/ ss[i] = <<V(i)>>
    BY <1>1, <1>3
  <2>2. U \in S /\ V(1) \in S /\ V(i) \in S
    BY <1>1
  <2>. HIDE DEF S
  <2>3. ss[i] \in Seq(S)
    <3>1. \A x, y \in S : <<x, y>> \in Seq(S) /\ <<x>> \in Seq(S)
      OBVIOUS
    <3>2. <<U, V(1)>> \in Seq(S) /\ <<V(i)>> \in Seq(S)
      BY <2>2, <3>1
    <3>. QED BY <2>1, <3>2
  <2>4. <<>> \o ss[i] = ss[i]
    BY <2>3, ConcatEmptySeq
  <2>. QED BY <2>3, <2>4 DEF S
<1>6. AddsUp(g, ss)
  <2>1. DOMAIN g = 0..Len(ss) /\ g[0] = <<>>
    BY <1>1, <1>3
  <2>2. ASSUME NEW i \in 1..n PROVE g[i] = g[i - 1] \o ss[i]
    <3>1. g[i] = [a \in 1..i + 1 |-> IF a = 1 THEN U ELSE V(a - 1)]
      BY <1>1
    <3>2. CASE i = 1
      <4>1. g[i - 1] = <<>> /\ ss[i] = <<U, V(1)>> /\ <<>> \o ss[i] = ss[i]
        BY <1>1, <1>3, <1>5, <3>2
      <4>2. g[i] = <<U, V(1)>>
        BY <3>1, <3>2
      <4>. QED BY <4>1, <4>2
    <3>3. CASE i # 1
      <4>1. g[i - 1] = [a \in 1..i |-> IF a = 1 THEN U ELSE V(a - 1)] /\ ss[i] = <<V(i)>> /\ i \in 2..n
        BY <1>1, <1>3, <3>3
      <4>. HIDE DEF g
      <4>2. [a \in 1..i |-> IF a = 1 THEN U ELSE V(a - 1)] \o <<V(i)>>
              = [a \in 1..i + 1 |-> IF a = 1 THEN U ELSE V(a - 1)]
        <5>. DEFINE S == {U} \cup {V(a) : a \in 1..n}
                    p == [a \in 1..i |-> IF a = 1 THEN U ELSE V(a - 1)]
                    t == [a \in 1..i + 1 |-> IF a = 1 THEN U ELSE V(a - 1)]
        <5>1. \A a \in 1..i + 1 : (IF a = 1 THEN U ELSE V(a - 1)) \in S
          BY <4>1
        <5>2. p \in Seq(S) /\ Len(p) = i /\ V(i) \in S
          <6>1. i \in Nat /\ \A a \in 1..i : a \in 1..i + 1
            BY <4>1
          <6>2. p \in [1..i -> S]
            BY <5>1, <6>1
          <6>3. V(i) \in S
            OBVIOUS
          <6>. HIDE DEF p, S, V
          <6>. QED BY <6>1, <6>2, <6>3
        <5>3. t \in Seq(S) /\ Len(t) = i + 1
          <6>1. i + 1 \in Nat
            BY <4>1
          <6>2. t \in [1..i + 1 -> S]
            BY <5>1
          <6>. HIDE DEF t, S
          <6>. QED BY <6>1, <6>2
        <5>4. \A a \in 1..i : t[a] = p[a]
          BY <4>1
        <5>5. t[i + 1] = V(i)
          BY <4>1
        <5>. HIDE DEF p, t, S
        <5>6. p \o <<V(i)>> = Append(p, V(i)) /\ Append(p, V(i)) \in Seq(S) /\ Len(Append(p, V(i))) = i + 1
              /\ (\A a \in 1..i : Append(p, V(i))[a] = p[a]) /\ Append(p, V(i))[i + 1] = V(i)
          BY <5>2, AppendFacts
        <5>7. \A a \in 1..i + 1 : Append(p, V(i))[a] = t[a]
          BY <4>1, <5>4, <5>5, <5>6
        <5>8. Append(p, V(i)) = t
          BY <5>3, <5>6, <5>7, SeqEqual
        <5>. QED BY <5>6, <5>8 DEF p, t
      <4>. QED BY <3>1, <4>1, <4>2
    <3>. QED BY <3>2, <3>3
  <2>. QED BY <1>3, <2>1, <2>2 DEF AddsUp
<1>7. FlattenSeq(ss) = g[n]
  <2>. HIDE DEF g
  <2>. QED BY <1>1, <1>3, <1>5, <1>6, FlattenIs
<1>8. g[n] = <<U>> \o [a \in DOMAIN c |-> V(a)]
  <2>. DEFINE S == {U} \cup {V(a) : a \in 1..n}
              one == <<U>>
              t == [a \in 1..n |-> V(a)]
              w == [a \in 1..n + 1 |-> IF a = 1 THEN U ELSE V(a - 1)]
  <2>1. g[n] = w
    BY <1>1
  <2>2. one \in Seq(S) /\ Len(one) = 1 /\ one[1] = U
    OBVIOUS
  <2>3. t \in Seq(S) /\ Len(t) = n /\ \A a \in 1..n : t[a] = V(a)
    BY <1>1
  <2>4. w \in Seq(S) /\ Len(w) = n + 1 /\ w[1] = U /\ \A a \in 1..n : w[1 + a] = V(a)
    <3>1. \A a \in 1..n + 1 : (IF a = 1 THEN U ELSE V(a - 1)) \in S
      BY <1>1
    <3>2. w \in Seq(S) /\ Len(w) = n + 1
      BY <1>1, <3>1
    <3>3. w[1] = U /\ \A a \in 1..n : w[1 + a] = V(a)
      BY <1>1
    <3>. QED BY <3>2, <3>3
  <2>. HIDE DEF g, S, one, t, w
  <2>5. one \o t \in Seq(S) /\ Len(one \o t) = 1 + n
        /\ (\A a \in 1..1 : (one \o t)[a] = one[a]) /\ \A a \in 1..n : (one \o t)[1 + a] = t[a]
    <3>1. one \o t \in Seq(S) /\ Len(one \o t) = Len(one) + Len(t)
          /\ (\A a \in 1..Len(one) : (one \o t)[a] = one[a])
          /\ \A a \in 1..Len(t) : (one \o t)[Len(one) + a] = t[a]
      <4>1. \A x, y \in Seq(S) : /\ x \o y \in Seq(S) /\ Len(x \o y) = Len(x) + Len(y)
                                 /\ \A a \in 1..Len(x) : (x \o y)[a] = x[a]
                                 /\ \A a \in 1..Len(y) : (x \o y)[Len(x) + a] = y[a]
        BY ConcatFacts
      <4>. QED BY <2>2, <2>3, <4>1, Zenon
    <3>. QED BY <2>2, <2>3, <3>1
  <2>6. \A a \in 1..n + 1 : (one \o t)[a] = w[a]
    <3>. SUFFICES ASSUME NEW a \in 1..n + 1 PROVE (one \o t)[a] = w[a]
      OBVIOUS
    <3>1. CASE a = 1
      <4>1. 1 \in 1..1
        OBVIOUS
      <4>. QED BY <2>2, <2>4, <2>5, <3>1, <4>1
    <3>2. CASE a # 1
      <4>. DEFINE b == a - 1
      <4>1. b \in 1..n /\ a = 1 + b
        BY <1>1, <3>2
      <4>. HIDE DEF b
      <4>. QED BY <2>3, <2>4, <2>5, <4>1
    <3>. QED BY <3>1, <3>2
  <2>7. one \o t = w
    BY <1>1, <2>4, <2>5, <2>6, SeqEqual
  <2>8. t = [a \in DOMAIN c |-> V(a)]
    BY <1>1 DEF t
  <2>. QED BY <2>1, <2>7, <2>8 DEF one
<1>. QED BY <1>4, <1>7, <1>8 DEF U, V

\* Where the attribute differs a chain ends, so it is the same all along.
LEMMA OneClass ==
    ASSUME NEW c \in Seq(Rows), c # <<>>, network.differ, is_endpoint = detect_endpoints,
           \A a \in 1..Len(c) - 1 : /\ edges[c[a]].v = edges[c[a + 1]].u
                                    /\ edges[c[a]].v \notin is_endpoint
    PROVE  Cardinality({edges[r].class : r \in Range(c)}) = 1
<1>. DEFINE n == Len(c)
            Class(a) == edges[c[a]].class
            Bad == {a \in 0..n : a # 0 /\ Class(a) # Class(1)}
<1>1. n \in Nat /\ n >= 1 /\ DOMAIN c = 1..n /\ \A a \in 1..n : c[a] \in Rows
  BY EmptySeq
<1>2. ASSUME NEW a \in 1..n - 1 PROVE Class(a) = Class(a + 1)
  <2>. DEFINE r == c[a]
              s == c[a + 1]
              m == edges[r].v
  <2>1. a \in 1..n /\ a + 1 \in 1..n
    BY <1>1
  <2>2. r \in Rows /\ s \in Rows
    BY <1>1, <2>1
  <2>3. m = edges[s].u /\ m \notin detect_endpoints
    OBVIOUS
  <2>. HIDE DEF r, s, m
  <2>4. r \in In(m) /\ s \in Out(m) /\ m \in GraphNodes
    BY <2>2, <2>3 DEF In, Out, GraphNodes, m
  <2>5. ~ Disagree(m)
    BY <2>3, <2>4 DEF detect_endpoints
  <2>6. edges[r].class = edges[s].class
    BY <2>4, <2>5 DEF Disagree
  <2>. QED BY <2>6 DEF r, s
<1>. HIDE DEF Class
<1>3. Bad = {}
  <2>. SUFFICES ASSUME Bad # {} PROVE FALSE
    OBVIOUS
  <2>1. PICK k \in Bad : k \in 0..n /\ \A m \in 0..k - 1 : m \notin Bad
    <3>1. Bad \in SUBSET (0..n)
      OBVIOUS
    <3>. HIDE DEF Bad
    <3>. QED BY <1>1, <3>1, FirstFailure
  <2>2. k # 0 /\ Class(k) # Class(1)
    OBVIOUS
  <2>3. k # 1
    BY <2>2
  <2>4. k - 1 \in 1..n - 1 /\ k - 1 \in 0..k - 1 /\ (k - 1) + 1 = k /\ k - 1 \in 0..n /\ k - 1 # 0
    BY <1>1, <2>1, <2>2, <2>3
  <2>5. Class(k - 1) = Class(1)
    BY <2>1, <2>4
  <2>6. Class(k - 1) = Class((k - 1) + 1)
    BY <1>2, <2>4
  <2>. QED BY <2>2, <2>4, <2>5, <2>6
<1>4. \A a \in 1..n : Class(a) = Class(1)
  BY <1>1, <1>3
<1>5. {edges[r].class : r \in Range(c)} = {Class(1)}
  <2>1. Range(c) = {c[a] : a \in 1..n}
    BY <1>1 DEF Range
  <2>2. \A a \in 1..n : edges[c[a]].class = Class(1)
    BY <1>4 DEF Class
  <2>3. 1 \in 1..n
    BY <1>1
  <2>. QED BY <2>1, <2>2, <2>3
<1>. QED BY <1>5, FS_Singleton

-----------------------------------------------------------------------------
WithRows == {"detect", "walk", "rings", "collapse"}
Walking == {"walk", "rings", "collapse"}
AsWalked ==
    \A k \in DOMAIN chains :
        /\ exported[k].line = <<edges[chains[k][1]].u>> \o [a \in DOMAIN chains[k] |-> edges[chains[k][a]].v]
        /\ network.differ => Cardinality(exported[k].class) = 1

FrameInv ==
    /\ pc \in WithRows => edges \in Seq(Directed) /\ Ends(edges) \subseteq Ends(streets)
    /\ pc \in Walking => is_endpoint = detect_endpoints
    /\ pc \in {"connect", "export"} => exported \in Seq(Range(exported)) /\ Ends(exported) \subseteq nodes
    /\ pc = "connect" => AsWalked
    /\ NoRowPassedOver

LEMMA FrameStays ==
    ASSUME FrameInv, UNCHANGED <<network, streets, edges, is_endpoint, nodes, exported>>,
           pc' \in WithRows => pc \in WithRows,
           pc' \in Walking => pc \in Walking,
           pc' \in {"connect", "export"} => pc \in {"connect", "export"},
           pc' = "connect" => pc = "connect" /\ chains' = chains,
           pc' = "done" => pc = "done" /\ graph' = graph
    PROVE  FrameInv'
<1>1. Ends(edges)' = Ends(edges) /\ Ends(streets)' = Ends(streets) /\ Ends(exported)' = Ends(exported)
  BY DEF Ends
<1>2. detect_endpoints' = detect_endpoints
  BY DEF detect_endpoints, SelfLoop, DeadEnd, PassThrough, Disagree, Neighbours, In, Out, GraphNodes, Rows
<1>3. pc' \in WithRows => (edges \in Seq(Directed))' /\ (Ends(edges) \subseteq Ends(streets))'
  BY <1>1 DEF FrameInv
<1>4. pc' \in Walking => is_endpoint' = detect_endpoints'
  BY <1>2 DEF FrameInv
<1>5. pc' \in {"connect", "export"} => (exported \in Seq(Range(exported)))' /\ (Ends(exported) \subseteq nodes)'
  BY <1>1 DEF FrameInv, Range
<1>6. pc' = "connect" => AsWalked'
  BY DEF FrameInv, AsWalked
<1>7. NoRowPassedOver'
  BY <1>1 DEF FrameInv, NoRowPassedOver
<1>. QED BY <1>3, <1>4, <1>5, <1>6, <1>7 DEF FrameInv

\* The chains become the edges that are exported.
LEMMA CollapsePreserves ==
    ASSUME FrameInv, ReadInv, WalkInv, Collapse
    PROVE  FrameInv'
<1>1. /\ pc = "collapse" /\ pc' = "connect"
      /\ exported' = [k \in DOMAIN chains |-> Merged(chains[k])]
      /\ nodes' = nodes \cap Ends(exported')
      /\ network' = network /\ edges' = edges /\ chains' = chains
  BY DEF Collapse, given, walked
<1>2. edges \in Seq(Directed) /\ Ends(edges) \subseteq nodes /\ is_endpoint = detect_endpoints
  BY <1>1 DEF FrameInv, ReadInv, WithRows, Walking, AllNodesThere
<1>3. \A k \in DOMAIN chains : chains[k] \in Seq(Rows) /\ chains[k] # <<>>
  BY DEF WalkInv, ChainsTyped
<1>4. ASSUME NEW k \in DOMAIN chains
      PROVE  /\ exported'[k].u \in Ends(edges) /\ exported'[k].v \in Ends(edges)
             /\ exported'[k].line = <<edges[chains[k][1]].u>>
                                      \o [a \in DOMAIN chains[k] |-> edges[chains[k][a]].v]
             /\ network.differ => Cardinality(exported'[k].class) = 1
  <2>. DEFINE c == chains[k]
  <2>1. exported'[k] = Merged(c)
    BY <1>1
  <2>2. c \in Seq(Rows) /\ c # <<>>
    BY <1>3
  <2>3. \A a \in 1..Len(c) - 1 : edges[c[a]].v = edges[c[a + 1]].u /\ edges[c[a]].v \notin is_endpoint
    BY DEF WalkInv, ChainsPassThrough
  <2>. HIDE DEF c
  <2>4. c[1] \in Rows /\ c[Len(c)] \in Rows
    BY <2>2, EmptySeq
  <2>5. edges[c[1]].u \in Ends(edges) /\ edges[c[Len(c)]].v \in Ends(edges)
    BY <2>4 DEF Rows, Ends
  <2>6. stitch_geometries(c) = <<edges[c[1]].u>> \o [a \in DOMAIN c |-> edges[c[a]].v]
    BY <1>2, <2>2, StitchedIs
  <2>7. network.differ => Cardinality({edges[r].class : r \in Range(c)}) = 1
    BY <1>2, <2>2, <2>3, OneClass
  <2>. QED BY <2>1, <2>5, <2>6, <2>7 DEF Merged, c
<1>5. AsWalked'
  BY <1>1, <1>4 DEF AsWalked
<1>6. Ends(exported)' \subseteq nodes'
  <2>1. DOMAIN exported' = DOMAIN chains
    BY <1>1
  <2>2. Ends(exported') \subseteq Ends(edges)
    <3>1. ASSUME NEW n \in Ends(exported') PROVE n \in Ends(edges)
      <4>1. PICK k \in DOMAIN exported' : n = exported'[k].u \/ n = exported'[k].v
        BY DEF Ends
      <4>. QED BY <1>4, <2>1, <4>1
    <3>. QED BY <3>1
  <2>3. Ends(exported)' = Ends(exported')
    BY DEF Ends
  <2>. QED BY <1>1, <1>2, <2>2, <2>3
<1>7. (exported \in Seq(Range(exported)))'
  <2>1. chains \in Seq(Seq(Rows)) /\ DOMAIN chains = 1..Len(chains) /\ Len(chains) \in Nat
    BY DEF WalkInv, ChainsTyped
  <2>2. exported' \in [1..Len(chains) -> {exported'[k] : k \in 1..Len(chains)}]
    BY <1>1, <2>1
  <2>3. Range(exported)' = {exported'[k] : k \in 1..Len(chains)}
    BY <1>1, <2>1 DEF Range
  <2>. QED BY <2>1, <2>2, <2>3
<1>. QED BY <1>1, <1>5, <1>6, <1>7 DEF FrameInv, NoRowPassedOver, WithRows, Walking

\* The rows are exported as they are.
LEMMA SkipPreserves ==
    ASSUME FrameInv, ReadInv, WalkInv, SkipSimplify
    PROVE  FrameInv'
<1>1. /\ pc = "detect" /\ pc' = "connect" /\ nodes' = nodes /\ chains' = chains
      /\ exported' = [r \in Rows |-> [u |-> edges[r].u, v |-> edges[r].v, line |-> edges[r].line,
                                      class |-> {edges[r].class}]]
  BY DEF SkipSimplify, walked
<1>2. edges \in Seq(Directed) /\ Ends(edges) \subseteq nodes /\ chains = <<>>
  BY <1>1 DEF FrameInv, ReadInv, WalkInv, WithRows, AllNodesThere, NotBegun, BeforeWalk
<1>3. Rows = 1..Len(edges) /\ Len(edges) \in Nat
  BY <1>2 DEF Rows
<1>4. AsWalked'
  BY <1>1, <1>2 DEF AsWalked
<1>5. Ends(exported)' \subseteq nodes'
  <2>1. DOMAIN exported' = DOMAIN edges
        /\ \A r \in DOMAIN edges : exported'[r].u = edges[r].u /\ exported'[r].v = edges[r].v
    BY <1>1 DEF Rows
  <2>2. Ends(exported)' = Ends(edges)
    BY <2>1 DEF Ends
  <2>. QED BY <1>1, <1>2, <2>2
<1>6. (exported \in Seq(Range(exported)))'
  <2>1. exported' \in [1..Len(edges) -> {exported'[k] : k \in 1..Len(edges)}]
    BY <1>1, <1>3
  <2>2. Range(exported)' = {exported'[k] : k \in 1..Len(edges)}
    BY <1>1, <1>3 DEF Range
  <2>. QED BY <1>3, <2>1, <2>2
<1>. QED BY <1>1, <1>4, <1>5, <1>6 DEF FrameInv, NoRowPassedOver, WithRows, Walking

\* The largest component: its nodes, and the edges between them.
LEMMA LargestPreserves ==
    ASSUME FrameInv, KeepLargest
    PROVE  FrameInv'
<1>. DEFINE S == {e \in Range(exported) : {e.u, e.v} \subseteq scc}
            left == Only(exported, S)
<1>1. pc = "connect" /\ pc' = "export" /\ nodes' = nodes \cap scc /\ exported' = left
  BY DEF KeepLargest, SearchEnds
<1>2. exported \in Seq(Range(exported)) /\ Ends(exported) \subseteq nodes
  BY <1>1 DEF FrameInv
<1>. DEFINE X == Range(exported)
<1>3. left \in Seq(X) /\ Range(left) = X \cap S
  <2>. HIDE DEF S, X
  <2>1. exported \in Seq(X)
    BY <1>2 DEF X
  <2>2. Range(left) = Range(exported) \cap S /\ left \in Seq(X)
    BY <2>1, OnlyElements
  <2>. QED BY <2>2 DEF X
<1>4. \A e \in Range(left) : e \in Range(exported) /\ e.u \in scc /\ e.v \in scc
  BY <1>3
<1>. HIDE DEF left, X, S
<1>5. Ends(left) \subseteq nodes \cap scc
  <2>1. /\ Ends(left) = {e.u : e \in Range(left)} \cup {e.v : e \in Range(left)}
        /\ Ends(exported) = {e.u : e \in Range(exported)} \cup {e.v : e \in Range(exported)}
    BY EndsIs
  <2>. QED BY <1>2, <1>4, <2>1
<1>6. left \in Seq(Range(left))
  <2>1. Len(left) \in Nat /\ DOMAIN left = 1..Len(left) /\ left = [i \in 1..Len(left) |-> left[i]]
    BY <1>3
  <2>2. \A i \in 1..Len(left) : left[i] \in Range(left)
    BY <2>1 DEF Range
  <2>3. left \in [1..Len(left) -> Range(left)]
    BY <2>1, <2>2, Zenon
  <2>. QED BY <2>1, <2>3
<1>7. Ends(exported)' = Ends(left) /\ Range(exported)' = Range(left)
  BY <1>1 DEF Ends, Range
<1>. QED BY <1>1, <1>5, <1>6, <1>7 DEF FrameInv, NoRowPassedOver, WithRows, Walking

\* The exporters pass over no row.
LEMMA ExportPreserves ==
    ASSUME FrameInv, create_igraph \/ create_nxgraph
    PROVE  FrameInv'
<1>1. pc = "export" /\ pc' = "done" /\ exported' = exported /\ graph'.nodes = nodes
  BY DEF create_igraph, create_nxgraph, frames
<1>2. Ends(exported) \subseteq nodes
  BY <1>1 DEF FrameInv
<1>3. Known = DOMAIN exported
  BY <1>2 DEF Known, Ends
<1>4. Ends(exported)' = Ends(exported)
  BY <1>1 DEF Ends
<1>5. {<<e[1], e[2]>> : e \in graph'.edges} = {<<exported[i].u, exported[i].v>> : i \in DOMAIN exported}
  <2>1. CASE create_igraph
    <3>1. graph'.edges = {<<exported[i].u, exported[i].v, i>> : i \in DOMAIN exported}
      BY <1>3, <2>1 DEF create_igraph
    <3>. DEFINE edge(i) == <<exported[i].u, exported[i].v, i>>
    <3>2. \A i \in DOMAIN exported : edge(i)[1] = exported[i].u /\ edge(i)[2] = exported[i].v
      OBVIOUS
    <3>3. graph'.edges = {edge(i) : i \in DOMAIN exported}
      BY <3>1
    <3>. HIDE DEF edge
    <3>. QED BY <3>2, <3>3
  <2>2. CASE create_nxgraph
    <3>1. graph'.edges = {<<exported[i].u, exported[i].v, 0>> : i \in DOMAIN exported}
      BY <1>3, <2>2 DEF create_nxgraph
    <3>. DEFINE edge(i) == <<exported[i].u, exported[i].v, 0>>
    <3>2. \A i \in DOMAIN exported : edge(i)[1] = exported[i].u /\ edge(i)[2] = exported[i].v
      OBVIOUS
    <3>3. graph'.edges = {edge(i) : i \in DOMAIN exported}
      BY <3>1
    <3>. HIDE DEF edge
    <3>. QED BY <3>2, <3>3
  <2>. QED BY <2>1, <2>2
<1>6. NoRowPassedOver'
  BY <1>1, <1>2, <1>4, <1>5 DEF NoRowPassedOver
<1>. QED BY <1>1, <1>6 DEF FrameInv, WithRows, Walking

\* The invariant of the frames holds in every state, for every network.
THEOREM FrameInvariant == ExportSpec => []FrameInv
<1>1. ExportInit => FrameInv
  BY DEF ExportInit, SimplifyInit, ReadInit, FrameInv, NoRowPassedOver, WithRows, Walking
<1>2. FrameInv /\ ReadInv /\ WalkInv /\ [ExportNext]_vars => FrameInv'
  <2>. SUFFICES ASSUME FrameInv, ReadInv, WalkInv, [ExportNext]_vars PROVE FrameInv'
    OBVIOUS
  <2>1. CASE Read
    <3>1. pc' \in {"slice", "box", "failed", "nothing", "directed"}
      BY <2>1 DEF Read, ReadNext, CreateWayGeometries, SliceToSegments, SliceFails, FilterByBox, WholeFile
    <3>. QED BY <3>1 DEF FrameInv, NoRowPassedOver, WithRows, Walking
  <2>2. CASE DirectEdges
    <3>1. pc = "directed" /\ pc' = "detect" /\ streets' = streets /\ edges' = generate_directed_edges(streets)
      BY <2>2 DEF DirectEdges, given
    <3>2. streets \in Seq(Aligned)
      BY <3>1, CutAligned DEF ReadInv, Reading
    <3>3. edges' \in Seq(Directed) /\ Ends(edges') \subseteq Ends(streets)
      BY <3>1, <3>2, DirectedFacts
    <3>4. Ends(edges)' = Ends(edges') /\ Ends(streets)' = Ends(streets) /\ (edges \in Seq(Directed))'
      BY <3>1, <3>3 DEF Ends, Directed, Street
    <3>. QED BY <3>1, <3>3, <3>4 DEF FrameInv, NoRowPassedOver, WithRows, Walking
  <2>3. CASE SkipSimplify
    BY <2>3, SkipPreserves
  <2>4. CASE DetectEndpoints
    <3>1. pc = "detect" /\ pc' = "walk" /\ is_endpoint' = detect_endpoints
          /\ network' = network /\ edges' = edges /\ streets' = streets
      BY <2>4 DEF DetectEndpoints, given
    <3>2. detect_endpoints' = detect_endpoints
      BY <3>1 DEF detect_endpoints, SelfLoop, DeadEnd, PassThrough, Disagree, Neighbours, In, Out, GraphNodes, Rows
    <3>3. Ends(edges)' = Ends(edges) /\ Ends(streets)' = Ends(streets)
      BY <3>1 DEF Ends
    <3>4. edges \in Seq(Directed) /\ Ends(edges) \subseteq Ends(streets)
      BY <3>1 DEF FrameInv, WithRows
    <3>. QED BY <3>1, <3>2, <3>3, <3>4 DEF FrameInv, NoRowPassedOver, Walking
  <2>5. CASE Extend
    BY <2>5, FrameStays DEF Extend, frames, given
  <2>6. ASSUME NEW r \in Rows, StartAtEndpoint(r) \/ StartRing(r) PROVE FrameInv'
    BY <2>6, FrameStays DEF StartAtEndpoint, StartRing, Start, frames, given
  <2>7. CASE WalkEnds \/ RingsEnd
    BY <2>7, FrameStays DEF WalkEnds, RingsEnd, frames, given, WithRows, Walking
  <2>8. CASE Collapse
    BY <2>8, CollapsePreserves
  <2>9. CASE RetainAll
    BY <2>9, FrameStays DEF RetainAll, frames, given, WithRows, Walking
  <2>10. ASSUME NEW n \in Nodes, Source(n) PROVE FrameInv'
    BY <2>10, FrameStays DEF Source, simplify_vars, frames, walked, given
  <2>11. CASE Descend
    BY <2>11, FrameStays DEF Descend, simplify_vars, frames, walked, given
  <2>12. CASE Postpone \/ CloseComponent
    BY <2>12, FrameStays DEF Postpone, CloseComponent, Ascend, simplify_vars, frames, walked, given
  <2>13. CASE KeepLargest
    BY <2>13, LargestPreserves
  <2>14. CASE ConnectFails
    BY <2>14, FrameStays DEF ConnectFails, SearchEnds, frames, given, WithRows, Walking
  <2>15. CASE create_igraph \/ create_nxgraph
    BY <2>15, ExportPreserves
  <2>16. CASE UNCHANGED vars
    BY <2>16, FrameStays DEF vars, simplify_vars, frames, walked, given
  <2>. QED BY <2>1, <2>2, <2>3, <2>4, <2>5, <2>6, <2>7, <2>8, <2>9, <2>10, <2>11, <2>12, <2>13,
              <2>14, <2>15, <2>16 DEF ExportNext, Simplify, SimplifyNext
<1>. QED BY <1>1, <1>2, ReadInvariant, WalkInvariant, PTL DEF ExportSpec

\* A merged edge is drawn from its first node to its last through those it was
\* merged across, whichever way the rows' own geometry runs, and with
\* edge_attrs_differ no change of the attribute is merged across
\* (graph_simplify.py:172-180, 198, 82-91).
THEOREM DrawnAsWalked == ExportSpec => []MergedAsWalked
<1>1. FrameInv => MergedAsWalked
  BY DEF FrameInv, AsWalked, MergedAsWalked, Simplified
<1>. QED BY <1>1, FrameInvariant, PTL

\* Whatever the box cut, the simplification dropped and the component left out,
\* the nodes table has the ends of every edge and no exporter passes over a row
\* (graph_export.pyx:72-74, frames.pyx:242).
THEOREM EveryRowIsExported == ExportSpec => []NoRowPassedOver
<1>1. FrameInv => NoRowPassedOver
  BY DEF FrameInv
<1>. QED BY <1>1, FrameInvariant, PTL

-----------------------------------------------------------------------------
(***************************************************************************)
(* The search for components.  G is the pairs of nodes that an edge joins, *)
(* R which nodes reach which, N the nodes; q, P, L, F and Q are queue,     *)
(* preorder, lowlink, scc_found and scc_queue.                             *)
(***************************************************************************)
Joined(e) == {<<e[i].u, e[i].v>> : i \in DOMAIN e}
Mutual(R, N, n) == {m \in N : <<m, n>> \in R /\ <<n, m>> \in R}
\* The nodes in hand that have a number.
Opened(q, P) == Range(q) \cap DOMAIN P

\* Nodes are numbered one after the other.
NumbersOK(P) ==
    /\ P \in [DOMAIN P -> Nat] /\ IsFiniteSet(DOMAIN P)
    /\ \A x \in DOMAIN P : P[x] <= Cardinality(DOMAIN P)
    /\ \A x, y \in DOMAIN P : P[x] = P[y] => x = y

\* The queue is a path, numbered along the way.
PathOK(G, q, P) ==
    /\ \A i \in 1..Len(q) - 1 : q[i] \in DOMAIN P /\ <<q[i], q[i + 1]>> \in G
    /\ \A i, j \in 1..Len(q) : i < j /\ q[j] \in DOMAIN P => P[q[i]] < P[q[j]]

\* A numbered node is in a component, waits for one, or is in hand.
PartsOK(N, q, P, F, Q) ==
    /\ q \in Seq(N) /\ Q \in Seq(N) /\ DOMAIN P \subseteq N
    /\ DOMAIN P = F \cup Range(Q) \cup Opened(q, P)
    /\ F \cap Range(Q) = {} /\ Range(q) \cap (F \cup Range(Q)) = {}

\* No edge leads out of the components found.
FoundOK(G, F) == \A x \in F : \A y : <<x, y>> \in G => y \in F

\* What lowlink is of a node that waits.
LowOK(G, R, P, L, F, O, W) ==
    \A x \in W :
        /\ x \in DOMAIN L /\ L[x] \in Nat /\ L[x] < P[x]
        /\ \A y : <<x, y>> \in G => y \in DOMAIN P /\ (y \notin F => L[x] <= P[y])
        /\ \E y \in W \cup O : P[y] = L[x] /\ <<x, y>> \in R

\* A node that waits reaches a node in hand that was numbered before it, and all those
\* reach it.
BackOK(R, P, O, W) ==
    \A x \in W :
        /\ \E z \in O : P[z] < P[x] /\ <<x, z>> \in R
        /\ \A z \in O : P[z] < P[x] => <<z, x>> \in R

\* The node from which it was found waits too, with a lowlink no greater, or is the
\* one in hand that was numbered last before it.
ParentOK(G, P, L, O, W) ==
    \A x \in W : \E p \in W \cup O :
        /\ <<p, x>> \in G /\ P[p] < P[x]
        /\ p \in W => L[p] <= L[x]
        /\ \A z \in O : P[z] < P[x] => P[z] <= P[p]

\* What was found below a node in hand lies above what was not.
OrderOK(P, O, Q) ==
    \A z \in O : \A i, j \in DOMAIN Q : i < j /\ P[Q[i]] > P[z] => P[Q[j]] > P[z]

BestOK(R, N, F, best) ==
    /\ F = {} => best = {}
    /\ F # {} => \E n \in F : best = Mutual(R, N, n)
    /\ \A n \in F : Cardinality(Mutual(R, N, n)) <= Cardinality(best)

SearchOK(G, R, N, q, P, L, F, Q, best) ==
    /\ NumbersOK(P) /\ PathOK(G, q, P) /\ PartsOK(N, q, P, F, Q) /\ FoundOK(G, F)
    /\ LowOK(G, R, P, L, F, Opened(q, P), Range(Q))
    /\ BackOK(R, P, Opened(q, P), Range(Q))
    /\ ParentOK(G, P, L, Opened(q, P), Range(Q))
    /\ OrderOK(P, Opened(q, P), Q) /\ BestOK(R, N, F, best)

-----------------------------------------------------------------------------
(***************************************************************************)
(* Which nodes reach which: the pairs of every relation that has the edges *)
(* and can be continued at the nodes of S.                                 *)
(***************************************************************************)
Same(N) == {<<n, n>> : n \in N}
Continued(T, S) == \A a, b, x : x \in S /\ <<a, x>> \in T /\ <<x, b>> \in T => <<a, b>> \in T
Through(G, N, S) ==
    {p \in N \X N : \A T \in SUBSET (N \X N) : G \cup Same(N) \subseteq T /\ Continued(T, S) => p \in T}

LEMMA ThroughFacts ==
    ASSUME NEW N, NEW G \in SUBSET (N \X N), NEW S \in SUBSET N
    PROVE  /\ Through(G, N, S) \in SUBSET (N \X N)
           /\ G \cup Same(N) \subseteq Through(G, N, S)
           /\ Continued(Through(G, N, S), S)
           /\ \A T \in SUBSET (N \X N) :
                G \cup Same(N) \subseteq T /\ Continued(T, S) => Through(G, N, S) \subseteq T
<1>1. Same(N) \in SUBSET (N \X N)
  BY DEF Same
<1>2. Continued(Through(G, N, S), S)
  <2>. SUFFICES ASSUME NEW a, NEW b, NEW x, x \in S, <<a, x>> \in Through(G, N, S), <<x, b>> \in Through(G, N, S)
                PROVE  <<a, b>> \in Through(G, N, S)
    BY DEF Continued
  <2>1. a \in N /\ b \in N
    BY DEF Through
  <2>2. ASSUME NEW T \in SUBSET (N \X N), G \cup Same(N) \subseteq T, Continued(T, S) PROVE <<a, b>> \in T
    <3>1. <<a, x>> \in T /\ <<x, b>> \in T
      BY <2>2 DEF Through
    <3>. QED BY <2>2, <3>1 DEF Continued
  <2>. QED BY <2>1, <2>2 DEF Through
<1>. QED BY <1>1, <1>2 DEF Through

\* Warshall's step: one node more to go through.
LEMMA ThroughOneMore ==
    ASSUME NEW N, NEW G \in SUBSET (N \X N), NEW S \in SUBSET N, NEW n \in S
    PROVE  LET R == Through(G, N, S \ {n})
           IN  Through(G, N, S) = R \cup {p \in N \X N : <<p[1], n>> \in R /\ <<n, p[2]>> \in R}
<1>. DEFINE R == Through(G, N, S \ {n})
            A == Through(G, N, S)
            more == {p \in N \X N : <<p[1], n>> \in R /\ <<n, p[2]>> \in R}
<1>0. S \ {n} \in SUBSET N /\ n \in N
  OBVIOUS
<1>1. /\ R \in SUBSET (N \X N) /\ G \cup Same(N) \subseteq R /\ Continued(R, S \ {n})
      /\ \A T \in SUBSET (N \X N) : G \cup Same(N) \subseteq T /\ Continued(T, S \ {n}) => R \subseteq T
  BY <1>0, ThroughFacts
<1>2. /\ A \in SUBSET (N \X N) /\ G \cup Same(N) \subseteq A /\ Continued(A, S)
      /\ \A T \in SUBSET (N \X N) : G \cup Same(N) \subseteq T /\ Continued(T, S) => A \subseteq T
  BY ThroughFacts
<1>3. \A a, b : <<a, b>> \in more <=> a \in N /\ b \in N /\ <<a, n>> \in R /\ <<n, b>> \in R
  OBVIOUS
<1>4. more \in SUBSET (N \X N)
  OBVIOUS
<1>. HIDE DEF R, A, more
<1>5. R \subseteq A
  <2>1. Continued(A, S \ {n})
    BY <1>2 DEF Continued
  <2>. QED BY <1>1, <1>2, <2>1
<1>6. more \subseteq A
  <2>. SUFFICES ASSUME NEW a, NEW b, <<a, b>> \in more PROVE <<a, b>> \in A
    BY <1>4
  <2>1. <<a, n>> \in A /\ <<n, b>> \in A
    BY <1>3, <1>5
  <2>. QED BY <1>2, <2>1 DEF Continued
<1>7. Continued(R \cup more, S)
  <2>0. <<n, n>> \in R
    BY <1>0, <1>1 DEF Same
  <2>1. ASSUME NEW a, <<a, n>> \in R \cup more PROVE <<a, n>> \in R
    BY <1>3, <2>1
  <2>2. ASSUME NEW b, <<n, b>> \in R \cup more PROVE <<n, b>> \in R
    BY <1>3, <2>2
  <2>3. \A a, b : <<a, b>> \in R => a \in N /\ b \in N
    BY <1>1
  <2>. SUFFICES ASSUME NEW a, NEW b, NEW x, x \in S, <<a, x>> \in R \cup more, <<x, b>> \in R \cup more
                PROVE  <<a, b>> \in R \cup more
    BY DEF Continued
  <2>4. CASE x = n
    BY <1>3, <2>1, <2>2, <2>3, <2>4
  <2>5. CASE x # n
    <3>1. \A c, d : <<c, x>> \in R /\ <<x, d>> \in R => <<c, d>> \in R
      BY <1>1, <2>5 DEF Continued
    <3>2. CASE <<a, x>> \in R /\ <<x, b>> \in R
      BY <3>1, <3>2
    <3>3. CASE <<a, x>> \in more /\ <<x, b>> \in R
      BY <1>3, <2>3, <3>1, <3>3
    <3>4. CASE <<a, x>> \in R /\ <<x, b>> \in more
      BY <1>3, <2>3, <3>1, <3>4
    <3>5. CASE <<a, x>> \in more /\ <<x, b>> \in more
      BY <1>3, <3>5
    <3>. QED BY <3>2, <3>3, <3>4, <3>5
  <2>. QED BY <2>4, <2>5
<1>8. A \subseteq R \cup more
  BY <1>1, <1>2, <1>4, <1>7
<1>9. A = R \cup more
  BY <1>5, <1>6, <1>8
<1>. QED BY <1>9 DEF A, R, more

\* The recursion of Reaches computes it, over the finitely many nodes.
LEMMA ReachesIs ==
    ASSUME NEW e, Joined(e) \in SUBSET (Nodes \X Nodes), IsFiniteSet(Nodes)
    PROVE  Reaches(e) = Through(Joined(e), Nodes, Nodes)
<1>. DEFINE G == Joined(e)
            f(S) == Through(G, Nodes, S)
            Next(R, n) == R \cup {p \in Nodes \X Nodes : <<p[1], n>> \in R /\ <<n, p[2]>> \in R}
            Is(h) == h = [S \in SUBSET Nodes |->
                            IF S = {} THEN G \cup Same(Nodes)
                            ELSE LET n == CHOOSE x \in S : TRUE
                                     R == h[S \ {n}]
                                 IN  R \cup {p \in Nodes \X Nodes : <<p[1], n>> \in R /\ <<n, p[2]>> \in R}]
            step == CHOOSE h : Is(h)
<1>1. Reaches(e) = step[Nodes]
  BY DEF Reaches, Joined, Same
<1>2. f({}) = G \cup Same(Nodes)
  <2>1. G \cup Same(Nodes) \in SUBSET (Nodes \X Nodes) /\ Continued(G \cup Same(Nodes), {})
    BY DEF Same, Continued
  <2>. QED BY <2>1, ThroughFacts
<1>3. \A S \in SUBSET Nodes : \A n \in S : f(S) = Next(f(S \ {n}), n)
  BY ThroughOneMore
<1>4. Is([S \in SUBSET Nodes |-> f(S)])
  <2>. DEFINE h == [S \in SUBSET Nodes |-> f(S)]
  <2>1. ASSUME NEW S \in SUBSET Nodes, S # {}
        PROVE  h[S] = Next(h[S \ {CHOOSE x \in S : TRUE}], CHOOSE x \in S : TRUE)
    <3>1. (CHOOSE x \in S : TRUE) \in S /\ S \ {CHOOSE x \in S : TRUE} \in SUBSET Nodes
      BY <2>1
    <3>. HIDE DEF f, Next
    <3>. QED BY <1>3, <3>1
  <2>2. h[{}] = G \cup Same(Nodes)
    BY <1>2
  <2>. HIDE DEF f
  <2>. QED BY <2>1, <2>2
<1>5. Is(step)
  BY <1>4
<1>6. \A S \in SUBSET Nodes : step[S] = f(S)
  <2>. DEFINE Sizes == {Cardinality(S) : S \in {T \in SUBSET Nodes : step[T] # f(T)}}
  <2>1. \A S \in SUBSET Nodes : IsFiniteSet(S) /\ Cardinality(S) \in Nat
    BY FS_Subset, FS_CardinalityType
  <2>. SUFFICES ASSUME NEW S0 \in SUBSET Nodes, step[S0] # f(S0) PROVE FALSE
    <3>. HIDE DEF step, f
    <3>. QED OBVIOUS
  <2>2. Sizes \in SUBSET Nat /\ Cardinality(S0) \in Sizes
    BY <2>1
  <2>3. PICK k \in Sizes : \A m \in Sizes : k <= m
    <3>. HIDE DEF Sizes
    <3>. QED BY <2>2, LeastNat
  <2>4. PICK S \in SUBSET Nodes : step[S] # f(S) /\ Cardinality(S) = k
    OBVIOUS
  <2>5. step[{}] = f({})
    <3>. HIDE DEF f, step
    <3>. QED BY <1>2, <1>5
  <2>6. S # {}
    BY <2>4, <2>5
  <2>. DEFINE n == CHOOSE x \in S : TRUE
              U == S \ {n}
  <2>7. n \in S /\ U \in SUBSET Nodes
    BY <2>6
  <2>8. Cardinality(U) = k - 1 /\ k \in Nat
    BY <2>1, <2>4, <2>7, FS_RemoveElement
  <2>9. step[U] = f(U)
    <3>1. SUFFICES ASSUME step[U] # f(U) PROVE FALSE
      OBVIOUS
    <3>2. Cardinality(U) \in Sizes
      BY <2>7, <3>1
    <3>3. k <= k - 1
      <4>. HIDE DEF U, Sizes
      <4>. QED BY <2>3, <2>8, <3>2
    <3>. QED BY <2>8, <3>3
  <2>10. step[S] = Next(step[U], n)
    <3>. HIDE DEF step
    <3>. QED BY <1>5, <2>6
  <2>11. f(S) = Next(f(U), n)
    <3>. HIDE DEF f, n
    <3>. QED BY <1>3, <2>7
  <2>. HIDE DEF step, f, Next, U, n
  <2>. QED BY <2>4, <2>9, <2>10, <2>11
<1>7. step[Nodes] = f(Nodes)
  <2>. HIDE DEF step, f
  <2>. QED BY <1>6
<1>. QED BY <1>1, <1>7

-----------------------------------------------------------------------------
\* R is the least preorder on the nodes that has the edges.
ReachOK(G, R, N) ==
    /\ G \subseteq R /\ G \in SUBSET (N \X N)
    /\ \A a \in N : <<a, a>> \in R
    /\ \A a, b, c : <<a, b>> \in R /\ <<b, c>> \in R => <<a, c>> \in R
    /\ \A X \in SUBSET N : FoundOK(G, X) => \A a \in X : \A b : <<a, b>> \in R => b \in X

LEMMA ReachesOK ==
    ASSUME NEW e, NEW N \in SUBSET Nodes, Joined(e) \in SUBSET (N \X N), IsFiniteSet(Nodes)
    PROVE  ReachOK(Joined(e), Reaches(e), N)
<1>. DEFINE G == Joined(e)
            R == Through(G, Nodes, Nodes)
<1>0. G \in SUBSET (Nodes \X Nodes)
  OBVIOUS
<1>1. Reaches(e) = R
  BY <1>0, ReachesIs
<1>2. /\ R \in SUBSET (Nodes \X Nodes) /\ G \cup Same(Nodes) \subseteq R /\ Continued(R, Nodes)
      /\ \A T \in SUBSET (Nodes \X Nodes) : G \cup Same(Nodes) \subseteq T /\ Continued(T, Nodes) => R \subseteq T
  <2>1. Nodes \in SUBSET Nodes
    OBVIOUS
  <2>. QED BY <1>0, <2>1, ThroughFacts
<1>. HIDE DEF R, G
<1>3. \A a, b, c : <<a, b>> \in R /\ <<b, c>> \in R => <<a, c>> \in R
  BY <1>2 DEF Continued
<1>4. \A a \in N : <<a, a>> \in R
  BY <1>2 DEF Same
<1>5. ASSUME NEW X \in SUBSET N, FoundOK(G, X), NEW a \in X, NEW b, <<a, b>> \in R PROVE b \in X
  <2>. DEFINE T == {p \in Nodes \X Nodes : p[1] \in X => p[2] \in X}
  <2>1. \A c, d : <<c, d>> \in T <=> c \in Nodes /\ d \in Nodes /\ (c \in X => d \in X)
    OBVIOUS
  <2>2. T \in SUBSET (Nodes \X Nodes)
    OBVIOUS
  <2>. HIDE DEF T
  <2>3. G \subseteq T
    <3>1. \A c, d : <<c, d>> \in G => <<c, d>> \in T
      BY <1>0, <1>5, <2>1 DEF FoundOK
    <3>. QED BY <1>0, <3>1
  <2>4. Same(Nodes) \subseteq T
    BY <2>1 DEF Same
  <2>5. Continued(T, Nodes)
    BY <2>1 DEF Continued
  <2>6. <<a, b>> \in T
    BY <1>2, <1>5, <2>2, <2>3, <2>4, <2>5
  <2>. QED BY <1>5, <2>1, <2>6
<1>6. G \subseteq R
  BY <1>2
<1>. QED BY <1>1, <1>3, <1>4, <1>5, <1>6 DEF ReachOK, G

-----------------------------------------------------------------------------
Numbering(P, top, P2) ==
    P2 = [w \in DOMAIN P \cup {top} |-> IF w \in DOMAIN P THEN P[w] ELSE Cardinality(DOMAIN P) + 1]

\* The node in hand gets the next number.
LEMMA NumberNode ==
    ASSUME NEW G, NEW R, NEW N, NEW q, NEW P, NEW L, NEW F, NEW Q, NEW best, NEW P2,
           SearchOK(G, R, N, q, P, L, F, Q, best), q # <<>>, Numbering(P, Last(q), P2)
    PROVE  /\ SearchOK(G, R, N, q, P2, L, F, Q, best)
           /\ DOMAIN P2 = DOMAIN P \cup {Last(q)}
<1>. DEFINE top == Last(q)
            D == DOMAIN P
            c == Cardinality(D)
            W == Range(Q)
            O == Opened(q, P)
            O2 == Opened(q, P2)
<1>1. /\ NumbersOK(P) /\ PathOK(G, q, P) /\ PartsOK(N, q, P, F, Q) /\ FoundOK(G, F)
      /\ LowOK(G, R, P, L, F, O, W) /\ BackOK(R, P, O, W) /\ ParentOK(G, P, L, O, W)
      /\ OrderOK(P, O, Q) /\ BestOK(R, N, F, best)
  BY DEF SearchOK
<1>2. q \in Seq(N) /\ Len(q) \in Nat \ {0} /\ top = q[Len(q)] /\ top \in Range(q) /\ Q \in Seq(N)
  <2>1. q \in Seq(N) /\ Q \in Seq(N)
    BY <1>1 DEF PartsOK
  <2>2. Len(q) \in Nat \ {0} /\ top = q[Len(q)]
    BY <2>1 DEF Last
  <2>3. Len(q) \in DOMAIN q
    BY <2>1, <2>2
  <2>. QED BY <2>1, <2>2, <2>3 DEF Range
<1>3. DOMAIN P2 = D \cup {top}
  BY DEF Numbering
<1>4. O2 = O \cup {top} /\ O \subseteq D /\ W \subseteq D /\ D = F \cup W \cup O
  BY <1>1, <1>2, <1>3 DEF Opened, PartsOK
<1>5. CASE top \in D
  <2>1. P2 = P
    <3>1. D \cup {top} = D
      BY <1>5
    <3>2. P2 = [w \in D |-> P[w]]
      BY <3>1 DEF Numbering
    <3>. QED BY <1>1, <3>2 DEF NumbersOK
  <2>. QED BY <1>3, <2>1
<1>6. CASE top \notin D
  <2>1. c \in Nat /\ IsFiniteSet(D \cup {top}) /\ Cardinality(D \cup {top}) = c + 1
    BY <1>1, <1>6, FS_CardinalityType, FS_AddElement DEF NumbersOK
  <2>2. P2[top] = c + 1 /\ \A x \in D : P2[x] = P[x]
    BY <1>6 DEF Numbering
  <2>3. \A x \in D : P[x] \in Nat /\ P[x] <= c
    BY <1>1 DEF NumbersOK
  <2>. HIDE DEF top, D, c, W, O, O2
  <2>4. \A x \in D : P2[x] = P[x] /\ P[x] \in Nat /\ P2[top] \in Nat /\ P[x] < P2[top] /\ ~ (P2[top] < P2[x]) /\ ~ (P2[top] <= P2[x])
    BY <2>1, <2>2, <2>3
  <2>5. NumbersOK(P2)
    <3>1. P2 = [x \in DOMAIN P2 |-> P2[x]]
      BY <1>3 DEF Numbering
    <3>2. \A x \in D \cup {top} : P2[x] \in Nat /\ P2[x] <= c + 1
      BY <2>1, <2>2, <2>3, <2>4
    <3>3. \A x, y \in D \cup {top} : P2[x] = P2[y] => x = y
      <4>1. \A x, y \in D : P2[x] = P2[y] => x = y
        BY <1>1, <2>2 DEF NumbersOK, D
      <4>2. \A x \in D : P2[x] # P2[top]
        BY <2>4
      <4>. QED BY <4>1, <4>2
    <3>4. P2 \in [DOMAIN P2 -> Nat]
      BY <1>3, <3>1, <3>2, Zenon
    <3>. QED BY <1>3, <2>1, <3>2, <3>3, <3>4 DEF NumbersOK
  <2>6. PathOK(G, q, P2)
    <3>1. \A i \in 1..Len(q) - 1 : q[i] \in D /\ <<q[i], q[i + 1]>> \in G
      BY <1>1 DEF PathOK, D
    <3>2. ASSUME NEW i \in 1..Len(q), NEW j \in 1..Len(q), i < j, q[j] \in D \cup {top}
          PROVE  P2[q[i]] < P2[q[j]]
      <4>1. i \in 1..Len(q) - 1 /\ (j \in 1..Len(q) - 1 \/ j = Len(q))
        BY <1>2, <3>2
      <4>2. q[i] \in D
        BY <3>1, <4>1
      <4>3. CASE q[j] \in D
        <5>1. P[q[i]] < P[q[j]]
          BY <1>1, <3>2, <4>3 DEF PathOK, D
        <5>. QED BY <2>4, <4>2, <4>3, <5>1
      <4>4. CASE q[j] = top
        BY <2>4, <4>2, <4>4
      <4>. QED BY <3>2, <4>3, <4>4
    <3>. QED BY <1>3, <3>1, <3>2 DEF PathOK
  <2>7. PartsOK(N, q, P2, F, Q)
    <3>1. top \in N
      BY <1>2
    <3>2. /\ D \subseteq N /\ F \cap W = {} /\ Range(q) \cap (F \cup W) = {}
      BY <1>1 DEF PartsOK, D, W
    <3>3. D \cup {top} = F \cup W \cup O2
      BY <1>4
    <3>. QED BY <1>2, <1>3, <3>1, <3>2, <3>3 DEF PartsOK, W, O2
  <2>8. LowOK(G, R, P2, L, F, O2, W)
    <3>. SUFFICES ASSUME NEW x \in W
                  PROVE  /\ x \in DOMAIN L /\ L[x] \in Nat /\ L[x] < P2[x]
                         /\ \A y : <<x, y>> \in G => y \in DOMAIN P2 /\ (y \notin F => L[x] <= P2[y])
                         /\ \E y \in W \cup O2 : P2[y] = L[x] /\ <<x, y>> \in R
      BY DEF LowOK
    <3>1. /\ x \in DOMAIN L /\ L[x] \in Nat /\ L[x] < P[x]
          /\ \A y : <<x, y>> \in G => y \in D /\ (y \notin F => L[x] <= P[y])
          /\ \E y \in W \cup O : P[y] = L[x] /\ <<x, y>> \in R
      BY <1>1 DEF LowOK, D
    <3>2. PICK y \in W \cup O : P[y] = L[x] /\ <<x, y>> \in R
      BY <3>1
    <3>3. P2[y] = L[x] /\ y \in W \cup O2
      BY <1>4, <2>2, <3>2
    <3>. QED BY <1>3, <1>4, <2>2, <3>1, <3>2, <3>3
  <2>9. BackOK(R, P2, O2, W)
    <3>. SUFFICES ASSUME NEW x \in W
                  PROVE  /\ \E z \in O2 : P2[z] < P2[x] /\ <<x, z>> \in R
                         /\ \A z \in O2 : P2[z] < P2[x] => <<z, x>> \in R
      BY DEF BackOK
    <3>1. /\ \E z \in O : P[z] < P[x] /\ <<x, z>> \in R
          /\ \A z \in O : P[z] < P[x] => <<z, x>> \in R
      BY <1>1 DEF BackOK
    <3>. QED BY <1>4, <2>4, <3>1
  <2>10. ParentOK(G, P2, L, O2, W)
    <3>. SUFFICES ASSUME NEW x \in W
                  PROVE  \E p \in W \cup O2 :
                            /\ <<p, x>> \in G /\ P2[p] < P2[x]
                            /\ p \in W => L[p] <= L[x]
                            /\ \A z \in O2 : P2[z] < P2[x] => P2[z] <= P2[p]
      BY DEF ParentOK
    <3>1. PICK p \in W \cup O : /\ <<p, x>> \in G /\ P[p] < P[x]
                                /\ p \in W => L[p] <= L[x]
                                /\ \A z \in O : P[z] < P[x] => P[z] <= P[p]
      BY <1>1 DEF ParentOK
    <3>2. p \in D /\ x \in D
      BY <1>4, <3>1
    <3>3. \A z \in O2 : P2[z] < P2[x] => P2[z] <= P2[p]
      BY <1>4, <2>4, <3>1, <3>2
    <3>. QED BY <1>4, <2>4, <3>1, <3>2, <3>3
  <2>11. OrderOK(P2, O2, Q)
    <3>. SUFFICES ASSUME NEW z \in O2, NEW i \in DOMAIN Q, NEW j \in DOMAIN Q, i < j, P2[Q[i]] > P2[z]
                  PROVE  P2[Q[j]] > P2[z]
      BY DEF OrderOK
    <3>1. Q[i] \in D /\ Q[j] \in D
      BY <1>4 DEF W, Range
    <3>2. z # top
      BY <2>4, <3>1
    <3>3. z \in O /\ z \in D
      BY <1>4, <3>2
    <3>4. P[Q[i]] > P[z]
      BY <2>4, <3>1, <3>3
    <3>5. P[Q[j]] > P[z]
      BY <1>1, <3>3, <3>4 DEF OrderOK
    <3>. QED BY <2>4, <3>1, <3>3, <3>5
  <2>. QED BY <1>1, <1>3, <2>5, <2>6, <2>7, <2>8, <2>9, <2>10, <2>11 DEF SearchOK, O2, W, top, D
<1>. QED BY <1>5, <1>6

-----------------------------------------------------------------------------
\* What the places of the parts are, for use in the steps.
LEMMA PartFacts ==
    ASSUME NEW N, NEW q, NEW P, NEW F, NEW Q, PartsOK(N, q, P, F, Q), NumbersOK(P)
    PROVE  /\ q \in Seq(N) /\ Len(q) \in Nat /\ DOMAIN q = 1..Len(q) /\ Q \in Seq(N)
           /\ \A i \in 1..Len(q) : q[i] \in Range(q)
           /\ \A x \in Range(q) : \E i \in 1..Len(q) : x = q[i]
           /\ Opened(q, P) \subseteq DOMAIN P /\ Range(Q) \subseteq DOMAIN P /\ F \subseteq DOMAIN P
           /\ DOMAIN P \subseteq N
           /\ DOMAIN P = F \cup Range(Q) \cup Opened(q, P)
           /\ \A x \in DOMAIN P : P[x] \in Nat
           /\ Opened(q, P) \cap (F \cup Range(Q)) = {}
<1>1. q \in Seq(N) /\ Len(q) \in Nat /\ DOMAIN q = 1..Len(q) /\ Q \in Seq(N)
  BY DEF PartsOK
<1>2. /\ \A i \in 1..Len(q) : q[i] \in Range(q)
      /\ \A x \in Range(q) : \E i \in 1..Len(q) : x = q[i]
  BY <1>1 DEF Range
<1>. QED BY <1>1, <1>2 DEF PartsOK, NumbersOK, Opened

\* A node not seen before is put on the path.
LEMMA DescendNode ==
    ASSUME NEW G, NEW R, NEW N, NEW q, NEW P, NEW L, NEW F, NEW Q, NEW best, NEW w \in N,
           SearchOK(G, R, N, q, P, L, F, Q, best), w \notin DOMAIN P,
           q # <<>> => Last(q) \in DOMAIN P /\ <<Last(q), w>> \in G
    PROVE  SearchOK(G, R, N, Append(q, w), P, L, F, Q, best)
<1>. DEFINE q2 == Append(q, w)
            n == Len(q)
<1>1. /\ NumbersOK(P) /\ PathOK(G, q, P) /\ PartsOK(N, q, P, F, Q) /\ FoundOK(G, F)
      /\ LowOK(G, R, P, L, F, Opened(q, P), Range(Q)) /\ BackOK(R, P, Opened(q, P), Range(Q))
      /\ ParentOK(G, P, L, Opened(q, P), Range(Q))
      /\ OrderOK(P, Opened(q, P), Q) /\ BestOK(R, N, F, best)
  BY DEF SearchOK
<1>2. /\ q \in Seq(N) /\ n \in Nat /\ Q \in Seq(N) /\ Range(Q) \subseteq DOMAIN P /\ F \subseteq DOMAIN P
  <2>1. PartsOK(N, q, P, F, Q) /\ NumbersOK(P)
    BY <1>1
  <2>2. /\ q \in Seq(N) /\ Len(q) \in Nat /\ Q \in Seq(N)
        /\ Range(Q) \subseteq DOMAIN P /\ F \subseteq DOMAIN P
    BY <2>1 DEF PartsOK
  <2>. QED BY <2>2
<1>3. /\ q2 \in Seq(N) /\ Len(q2) = n + 1 /\ q2[n + 1] = w
      /\ \A i \in 1..n : q2[i] = q[i]
  BY <1>2
<1>4. Range(q2) = Range(q) \cup {w}
  BY <1>2, AppendRange
<1>. HIDE DEF q2
<1>5. Opened(q2, P) = Opened(q, P)
  BY <1>4 DEF Opened
<1>6. PartsOK(N, q2, P, F, Q)
  BY <1>1, <1>2, <1>3, <1>4, <1>5 DEF PartsOK
<1>7. PathOK(G, q2, P)
  <2>1. ASSUME NEW i \in 1..Len(q2) - 1 PROVE q2[i] \in DOMAIN P /\ <<q2[i], q2[i + 1]>> \in G
    <3>1. i \in 1..n /\ q2[i] = q[i]
      BY <1>2, <1>3
    <3>2. CASE i = n
      <4>1. q # <<>> /\ Last(q) = q[n]
        BY <1>2, <3>1 DEF Last
      <4>. QED BY <1>3, <3>1, <3>2, <4>1
    <3>3. CASE i # n
      <4>1. i \in 1..Len(q) - 1 /\ i + 1 \in 1..n
        BY <1>2, <3>1, <3>3
      <4>. QED BY <1>1, <1>3, <3>1, <4>1 DEF PathOK
    <3>. QED BY <3>2, <3>3
  <2>2. ASSUME NEW i \in 1..Len(q2), NEW j \in 1..Len(q2), i < j, q2[j] \in DOMAIN P
        PROVE  P[q2[i]] < P[q2[j]]
    <3>1. j # n + 1
      BY <1>3, <2>2
    <3>2. i \in 1..Len(q) /\ j \in 1..Len(q)
      BY <1>2, <1>3, <2>2, <3>1
    <3>. QED BY <1>1, <1>3, <2>2, <3>2 DEF PathOK
  <2>. QED BY <2>1, <2>2 DEF PathOK
<1>. QED BY <1>1, <1>5, <1>6, <1>7 DEF SearchOK, q2

\* The search begins at a node that is in no component.
LEMMA SourceNode ==
    ASSUME NEW G, NEW R, NEW N, NEW P, NEW L, NEW F, NEW Q, NEW best, NEW n \in N,
           SearchOK(G, R, N, <<>>, P, L, F, Q, best), n \notin F
    PROVE  SearchOK(G, R, N, <<n>>, P, L, F, Q, best)
<1>1. DOMAIN P = F /\ Range(Q) = {}
  <2>1. Opened(<<>>, P) = {}
    BY DEF Opened, Range
  <2>2. BackOK(R, P, {}, Range(Q)) /\ PartsOK(N, <<>>, P, F, Q)
    BY <2>1 DEF SearchOK
  <2>3. Range(Q) = {}
    BY <2>2 DEF BackOK
  <2>. QED BY <2>1, <2>2, <2>3 DEF PartsOK
<1>2. Append(<<>>, n) = <<n>>
  OBVIOUS
<1>. QED BY <1>1, <1>2, DescendNode

\* What is known of the node in hand, when it has a number.
TopFacts(G, R, N, q, P, F, Q, top, O, q2) ==
    /\ top \in N /\ top \in O /\ top \notin F \cup Range(Q)
    /\ \A z \in O \ {top} : P[z] < P[top]
    /\ \A z \in O : <<z, top>> \in R
    /\ q2 \in Seq(N) /\ Opened(q2, P) = O \ {top} /\ PathOK(G, q2, P)
    /\ Range(q2) \subseteq Range(q) \ {top}
    /\ O \ {top} # {} => \E p \in O \ {top} : <<p, top>> \in G /\ \A z \in O \ {top} : P[z] <= P[p]

\* The node in hand is the last that was numbered of those in hand; all of them reach
\* it, and the one before it leads to it.
LEMMA TopNode ==
    ASSUME NEW G, NEW R, NEW N, NEW q, NEW P, NEW L, NEW F, NEW Q, NEW best, NEW top,
           SearchOK(G, R, N, q, P, L, F, Q, best), ReachOK(G, R, N),
           q # <<>>, top = Last(q), top \in DOMAIN P
    PROVE  TopFacts(G, R, N, q, P, F, Q, top, Opened(q, P), Front(q))
<1>. DEFINE D == DOMAIN P
            O == Opened(q, P)
            q2 == Front(q)
            n == Len(q)
<1>1. /\ NumbersOK(P) /\ PathOK(G, q, P) /\ PartsOK(N, q, P, F, Q)
  BY DEF SearchOK
<1>2. /\ q \in Seq(N) /\ n \in Nat \ {0} /\ top = q[n] /\ DOMAIN q = 1..n
      /\ \A i \in 1..n : q[i] \in Range(q)
      /\ \A x \in Range(q) : \E i \in 1..n : x = q[i]
      /\ D \subseteq N /\ \A x \in D : P[x] \in Nat
  <2>1. n # 0
    BY <1>1, PartFacts
  <2>2. top = q[n]
    BY DEF Last
  <2>3. /\ q \in Seq(N) /\ n \in Nat /\ DOMAIN q = 1..n
        /\ \A i \in 1..n : q[i] \in Range(q)
        /\ \A x \in Range(q) : \E i \in 1..n : x = q[i]
    BY <1>1, PartFacts
  <2>4. D \subseteq N /\ \A x \in D : P[x] \in Nat
    BY <1>1, PartFacts, ZenonT(40)
  <2>. QED BY <2>1, <2>2, <2>3, <2>4
<1>3. top \in N /\ top \in O /\ top \notin F \cup Range(Q)
  BY <1>1, <1>2 DEF Opened, PartsOK
<1>4. \A i \in 1..n : q[i] \in D /\ P[q[i]] \in Nat
  <2>1. \A i \in 1..n : i = n \/ i \in 1..n - 1
    <3>1. n \in Nat
      BY <1>2
    <3>. HIDE DEF n
    <3>. QED BY <3>1
  <2>. QED BY <1>1, <1>2, <2>1 DEF PathOK
<1>5. \A i, j \in 1..n : i < j => P[q[i]] < P[q[j]] /\ q[i] # q[j]
  BY <1>1, <1>4 DEF PathOK
<1>6. O = {q[i] : i \in 1..n}
  BY <1>2, <1>4 DEF Opened
<1>7. /\ q2 \in Seq(N) /\ Len(q2) = n - 1 /\ \A i \in 1..n - 1 : q2[i] = q[i]
      /\ Range(q2) = {q[i] : i \in 1..n - 1}
  <2>1. q2 = [i \in 1..n - 1 |-> q[i]]
    BY <1>2 DEF Front
  <2>2. n - 1 \in Nat /\ \A i \in 1..n - 1 : q[i] \in N
    BY <1>2
  <2>3. Len(q2) = n - 1 /\ DOMAIN q2 = 1..n - 1 /\ q2 \in Seq(N)
    BY <2>1, <2>2
  <2>. QED BY <2>1, <2>3 DEF Range
<1>8. \A i \in 1..n : i = n \/ (i \in 1..n - 1 /\ i < n)
  <2>1. n \in Nat
    BY <1>2
  <2>. HIDE DEF n
  <2>. QED BY <2>1
<1>. HIDE DEF q2, O, n
<1>9. {q[i] : i \in 1..n - 1} = O \ {top}
  <2>1. \A i \in 1..n - 1 : i \in 1..n /\ i < n /\ n \in 1..n
    BY <1>2
  <2>2. \A i \in 1..n - 1 : q[i] \in O \ {top}
    BY <1>2, <1>5, <1>6, <2>1
  <2>3. \A z \in O \ {top} : \E i \in 1..n - 1 : z = q[i]
    BY <1>2, <1>6, <1>8
  <2>. QED BY <2>2, <2>3
<1>10. \A z \in O \ {top} : P[z] < P[top]
  <2>1. ASSUME NEW i \in 1..n - 1 PROVE P[q[i]] < P[top]
    <3>1. i \in 1..n /\ i < n /\ n \in 1..n
      BY <1>2
    <3>. QED BY <1>2, <1>5, <3>1
  <2>. QED BY <1>9, <2>1
<1>11. \A z \in O : <<z, top>> \in R
  <2>. DEFINE Bad == {k \in 0..n - 1 : <<q[n - k], top>> \notin R}
  <2>1. Bad = {}
    <3>. SUFFICES ASSUME Bad # {} PROVE FALSE
      OBVIOUS
    <3>0. n - 1 \in Nat /\ Bad \in SUBSET (0..n - 1)
      BY <1>2
    <3>1. PICK k \in Bad : k \in 0..n - 1 /\ \A m \in 0..k - 1 : m \notin Bad
      <4>. HIDE DEF Bad
      <4>. QED BY <3>0, FirstFailure
    <3>2. k # 0
      <4>1. <<q[n], top>> \in R /\ n - 0 = n
        BY <1>2, <1>3 DEF ReachOK
      <4>. QED BY <3>1, <4>1
    <3>3. k - 1 \in 0..k - 1 /\ k - 1 \in 0..n - 1 /\ n - k \in 1..n - 1 /\ (n - k) + 1 = n - (k - 1)
      BY <1>2, <3>1, <3>2
    <3>4. <<q[n - (k - 1)], top>> \in R
      BY <3>1, <3>3
    <3>5. <<q[n - k], q[(n - k) + 1]>> \in R
      BY <1>1, <3>3 DEF PathOK, ReachOK, n
    <3>6. <<q[n - k], top>> \in R
      BY <3>3, <3>4, <3>5 DEF ReachOK
    <3>. QED BY <3>1, <3>6
  <2>2. ASSUME NEW i \in 1..n PROVE <<q[i], top>> \in R
    <3>1. n - i \in 0..n - 1 /\ n - (n - i) = i
      BY <1>2
    <3>. QED BY <2>1, <3>1
  <2>. QED BY <1>6, <2>2
<1>12. Opened(q2, P) = O \ {top} /\ Range(q2) \subseteq Range(q) \ {top}
  <2>1. Range(q2) = O \ {top}
    BY <1>7, <1>9
  <2>2. O \subseteq D /\ O \subseteq Range(q)
    BY DEF O, Opened
  <2>. QED BY <2>1, <2>2 DEF Opened
<1>13. PathOK(G, q2, P)
  <2>1. \A i \in 1..Len(q2) - 1 : i \in 1..Len(q) - 1 /\ i \in 1..n - 1 /\ i + 1 \in 1..n - 1
    BY <1>2, <1>7 DEF n
  <2>2. \A i \in 1..Len(q2) : i \in 1..n - 1 /\ i \in 1..n
    BY <1>2, <1>7
  <2>3. \A i \in 1..Len(q2) - 1 : q2[i] \in D /\ <<q2[i], q2[i + 1]>> \in G
    BY <1>1, <1>7, <2>1 DEF PathOK
  <2>4. \A i, j \in 1..Len(q2) : i < j => P[q2[i]] < P[q2[j]]
    BY <1>5, <1>7, <2>2
  <2>. QED BY <2>3, <2>4 DEF PathOK
<1>14. ASSUME O \ {top} # {}
       PROVE  \E p \in O \ {top} : <<p, top>> \in G /\ \A z \in O \ {top} : P[z] <= P[p]
  <2>1. n - 1 \in 1..n - 1 /\ (n - 1) + 1 = n /\ n - 1 \in 1..n
    <3>1. PICK i \in 1..n - 1 : TRUE
      BY <1>9, <1>14
    <3>. QED BY <1>2, <3>1
  <2>2. q[n - 1] \in O \ {top}
    BY <1>9, <2>1
  <2>3. <<q[n - 1], top>> \in G
    BY <1>1, <1>2, <2>1 DEF PathOK, n
  <2>4. ASSUME NEW i \in 1..n - 1 PROVE P[q[i]] <= P[q[n - 1]]
    <3>1. i \in 1..n /\ (i = n - 1 \/ i < n - 1)
      BY <1>2
    <3>. QED BY <1>4, <1>5, <2>1, <3>1
  <2>. QED BY <1>9, <2>2, <2>3, <2>4
<1>. QED BY <1>3, <1>7, <1>10, <1>11, <1>12, <1>13, <1>14 DEF TopFacts, O, q2

-----------------------------------------------------------------------------
\* What Low is: the least of the number of the node in hand and of what its successors
\* outside the components found have.
Level(P, L, top, y) == IF P[y] > P[top] THEN L[y] ELSE P[y]
IsLow(G, P, L, F, top, low) ==
    /\ low <= P[top]
    /\ \A y : <<top, y>> \in G /\ y \notin F => low <= Level(P, L, top, y)
    /\ low = P[top] \/ \E y : <<top, y>> \in G /\ y \notin F /\ low = Level(P, L, top, y)

\* What is known of the least number it reaches.
LowFacts(G, R, P, L, F, top, low, O, W) ==
    /\ \A y : <<top, y>> \in G /\ y \notin F /\ P[y] > P[top] => y \in W /\ low <= L[y]
    /\ \A y : <<top, y>> \in G /\ y \notin F => low <= P[y]
    /\ low < P[top] =>
         /\ \E y \in W \cup O : P[y] = low /\ <<top, y>> \in R
         /\ \E z \in O \ {top} : P[z] < P[top] /\ <<top, z>> \in R

\* What the step that leaves a node knows of it.
LEMMA LowNode ==
    ASSUME NEW G, NEW R, NEW N, NEW q, NEW P, NEW L, NEW F, NEW Q, NEW best, NEW top, NEW low \in Nat,
           SearchOK(G, R, N, q, P, L, F, Q, best), ReachOK(G, R, N),
           q # <<>>, top = Last(q), top \in DOMAIN P,
           \A y : <<top, y>> \in G => y \in DOMAIN P,
           IsLow(G, P, L, F, top, low)
    PROVE  LowFacts(G, R, P, L, F, top, low, Opened(q, P), Range(Q))
<1>. DEFINE D == DOMAIN P
            O == Opened(q, P)
            W == Range(Q)
<1>1. /\ NumbersOK(P) /\ PathOK(G, q, P) /\ PartsOK(N, q, P, F, Q) /\ FoundOK(G, F)
      /\ LowOK(G, R, P, L, F, O, W) /\ BackOK(R, P, O, W) /\ ParentOK(G, P, L, O, W)
      /\ OrderOK(P, O, Q) /\ BestOK(R, N, F, best)
  BY DEF SearchOK
<1>2. /\ O \subseteq D /\ W \subseteq D /\ D = F \cup W \cup O /\ \A x \in D : P[x] \in Nat
  BY <1>1 DEF PartsOK, NumbersOK, Opened
<1>3. \A z \in O \ {top} : P[z] < P[top]
  BY TopNode DEF TopFacts
<1>. HIDE DEF O, W, D
<1>4. \A y : <<top, y>> \in G => y \in D
  BY DEF D
<1>5. ASSUME NEW y, <<top, y>> \in G, y \notin F, P[y] > P[top]
      PROVE  y \in W /\ low <= L[y] /\ L[y] < P[y] /\ L[y] \in Nat
  <2>1. y \in D /\ y \notin O
    <3>1. y \in D /\ P[y] \in Nat /\ P[top] \in Nat
      BY <1>2, <1>4, <1>5 DEF D
    <3>2. y # top /\ ~ (P[y] < P[top])
      BY <1>5, <3>1
    <3>. QED BY <1>3, <3>1, <3>2
  <2>2. y \in W
    BY <1>2, <1>5, <2>1
  <2>3. low <= L[y]
    BY <1>5 DEF IsLow, Level
  <2>. QED BY <1>1, <2>2, <2>3 DEF LowOK
<1>6. ASSUME NEW y, <<top, y>> \in G, y \notin F PROVE low <= P[y]
  <2>1. y \in D /\ P[y] \in Nat /\ P[top] \in Nat
    BY <1>2, <1>4, <1>6 DEF D
  <2>2. CASE P[y] > P[top]
    BY <1>5, <1>6, <2>1, <2>2
  <2>3. CASE ~ (P[y] > P[top])
    BY <1>6, <2>3 DEF IsLow, Level
  <2>. QED BY <2>2, <2>3
<1>7. ASSUME low < P[top]
      PROVE  /\ \E y \in W \cup O : P[y] = low /\ <<top, y>> \in R
             /\ \E z \in O \ {top} : P[z] < P[top] /\ <<top, z>> \in R
  <2>1. P[top] \in Nat /\ low # P[top]
    BY <1>2, <1>7 DEF D
  <2>2. PICK w : <<top, w>> \in G /\ w \notin F /\ low = Level(P, L, top, w)
    BY <2>1 DEF IsLow
  <2>3. w \in W \cup O /\ <<top, w>> \in R
    BY <1>2, <1>4, <2>2 DEF ReachOK
  <2>4. \E y \in W \cup O : P[y] = low /\ <<top, y>> \in R
    <3>1. CASE P[w] > P[top]
      <4>1. w \in W /\ L[w] = low
        BY <1>5, <2>2, <3>1 DEF Level
      <4>2. PICK y \in W \cup O : P[y] = L[w] /\ <<w, y>> \in R
        BY <1>1, <4>1 DEF LowOK
      <4>. QED BY <2>3, <4>1, <4>2 DEF ReachOK
    <3>2. CASE ~ (P[w] > P[top])
      BY <2>2, <2>3, <3>2 DEF Level
    <3>. QED BY <3>1, <3>2
  <2>5. PICK y \in W \cup O : P[y] = low /\ <<top, y>> \in R
    BY <2>4
  <2>6. \E z \in O : P[z] < P[top] /\ <<top, z>> \in R
    <3>1. CASE y \in O
      BY <1>7, <2>5, <3>1
    <3>2. CASE y \in W
      <4>1. PICK z \in O : P[z] < P[y] /\ <<y, z>> \in R
        BY <1>1, <3>2 DEF BackOK
      <4>2. P[z] \in Nat /\ P[y] \in Nat
        BY <1>2, <3>2, <4>1
      <4>3. P[z] < P[top]
        BY <1>7, <2>1, <2>5, <4>1, <4>2
      <4>4. <<top, z>> \in R
        BY <2>5, <4>1 DEF ReachOK
      <4>. QED BY <4>1, <4>3, <4>4
    <3>. QED BY <3>1, <3>2
  <2>7. \A z \in O : P[z] < P[top] => z # top
    BY <2>1
  <2>. QED BY <2>4, <2>6, <2>7
<1>. QED BY <1>5, <1>6, <1>7 DEF O, W, LowFacts

Lowered(L, top, low) == [w \in DOMAIN L \cup {top} |-> IF w = top THEN low ELSE L[w]]

\* A node that reaches one before it waits for its component.
LEMMA PostponeNode ==
    ASSUME NEW G, NEW R, NEW N, NEW q, NEW P, NEW L, NEW F, NEW Q, NEW best, NEW top, NEW low \in Nat,
           SearchOK(G, R, N, q, P, L, F, Q, best), ReachOK(G, R, N),
           q # <<>>, top = Last(q), top \in DOMAIN P,
           \A y : <<top, y>> \in G => y \in DOMAIN P,
           IsLow(G, P, L, F, top, low), low # P[top]
    PROVE  SearchOK(G, R, N, Front(q), P, Lowered(L, top, low), F, Append(Q, top), best)
<1>. DEFINE D == DOMAIN P
            O == Opened(q, P)
            W == Range(Q)
            q2 == Front(q)
            Q2 == Append(Q, top)
            L2 == Lowered(L, top, low)
            O2 == Opened(q2, P)
            W2 == Range(Q2)
<1>1. /\ NumbersOK(P) /\ PathOK(G, q, P) /\ PartsOK(N, q, P, F, Q) /\ FoundOK(G, F)
      /\ LowOK(G, R, P, L, F, O, W) /\ BackOK(R, P, O, W) /\ ParentOK(G, P, L, O, W)
      /\ OrderOK(P, O, Q) /\ BestOK(R, N, F, best)
  BY DEF SearchOK
<1>2. /\ O \subseteq D /\ W \subseteq D /\ F \subseteq D /\ D \subseteq N /\ D = F \cup W \cup O
      /\ \A x \in D : P[x] \in Nat
      /\ Q \in Seq(N) /\ F \cap W = {} /\ Range(q) \cap (F \cup W) = {}
  BY <1>1 DEF PartsOK, NumbersOK, Opened
<1>3. /\ top \in N /\ top \in O /\ top \notin F \cup W
      /\ \A z \in O \ {top} : P[z] < P[top]
      /\ \A z \in O : <<z, top>> \in R
      /\ q2 \in Seq(N) /\ O2 = O \ {top} /\ PathOK(G, q2, P)
      /\ Range(q2) \subseteq Range(q) \ {top}
      /\ O \ {top} # {} => \E p \in O \ {top} : <<p, top>> \in G /\ \A z \in O \ {top} : P[z] <= P[p]
  <2>1. TopFacts(G, R, N, q, P, F, Q, top, Opened(q, P), Front(q))
    BY TopNode
  <2>. QED BY <2>1 DEF TopFacts
<1>4. low < P[top]
  BY <1>2 DEF IsLow
<1>5. /\ \A y : <<top, y>> \in G /\ y \notin F /\ P[y] > P[top] => y \in W /\ low <= L[y]
      /\ \A y : <<top, y>> \in G /\ y \notin F => low <= P[y]
      /\ \E y \in W \cup O : P[y] = low /\ <<top, y>> \in R
      /\ \E z \in O \ {top} : P[z] < P[top] /\ <<top, z>> \in R
  <2>1. LowFacts(G, R, P, L, F, top, low, Opened(q, P), Range(Q))
    BY LowNode
  <2>. QED BY <1>4, <2>1 DEF LowFacts
<1>6. /\ Q2 \in Seq(N) /\ W2 = W \cup {top} /\ Len(Q2) = Len(Q) + 1 /\ Len(Q) \in Nat
      /\ DOMAIN Q = 1..Len(Q) /\ DOMAIN Q2 = 1..Len(Q) + 1
      /\ Q2[Len(Q) + 1] = top /\ \A i \in 1..Len(Q) : Q2[i] = Q[i]
  BY <1>2, <1>3, AppendRange
<1>7. /\ DOMAIN L2 = DOMAIN L \cup {top} /\ L2[top] = low
      /\ \A x \in DOMAIN L : x # top => L2[x] = L[x]
  BY DEF Lowered
<1>8. PartsOK(N, q2, P, F, Q2)
  BY <1>2, <1>3, <1>6 DEF PartsOK, O2, W2, D
<1>. HIDE DEF D, O, W, q2, Q2, L2, O2, W2
<1>9. W2 \cup O2 = W \cup O /\ \A x \in W : x # top /\ x \in D /\ P[x] \in Nat
  BY <1>2, <1>3, <1>6
<1>10. P[top] \in Nat /\ \A y : <<top, y>> \in G => y \in D
  BY <1>2, <1>3 DEF D
<1>11. LowOK(G, R, P, L2, F, O2, W2)
  <2>. SUFFICES ASSUME NEW x \in W2
                PROVE  /\ x \in DOMAIN L2 /\ L2[x] \in Nat /\ L2[x] < P[x]
                       /\ \A y : <<x, y>> \in G => y \in DOMAIN P /\ (y \notin F => L2[x] <= P[y])
                       /\ \E y \in W2 \cup O2 : P[y] = L2[x] /\ <<x, y>> \in R
    BY DEF LowOK
  <2>1. CASE x = top
    BY <1>4, <1>5, <1>7, <1>9, <1>10, <2>1 DEF D
  <2>2. CASE x \in W
    <3>1. /\ x \in DOMAIN L /\ L[x] \in Nat /\ L[x] < P[x]
          /\ \A y : <<x, y>> \in G => y \in DOMAIN P /\ (y \notin F => L[x] <= P[y])
          /\ \E y \in W \cup O : P[y] = L[x] /\ <<x, y>> \in R
      BY <1>1, <2>2 DEF LowOK
    <3>2. L2[x] = L[x]
      BY <1>7, <1>9, <2>2, <3>1
    <3>. QED BY <1>7, <1>9, <3>1, <3>2
  <2>. QED BY <1>6, <2>1, <2>2
<1>12. BackOK(R, P, O2, W2)
  <2>. SUFFICES ASSUME NEW x \in W2
                PROVE  /\ \E z \in O2 : P[z] < P[x] /\ <<x, z>> \in R
                       /\ \A z \in O2 : P[z] < P[x] => <<z, x>> \in R
    BY DEF BackOK
  <2>1. CASE x = top
    BY <1>3, <1>5, <2>1
  <2>2. CASE x \in W
    <3>1. \A z \in O : P[z] < P[x] => <<z, x>> \in R
      BY <1>1, <2>2 DEF BackOK
    <3>2. PICK z \in O : P[z] < P[x] /\ <<x, z>> \in R
      BY <1>1, <2>2 DEF BackOK
    <3>3. CASE z # top
      BY <1>3, <3>1, <3>2, <3>3
    <3>4. CASE z = top
      <4>1. PICK y \in O \ {top} : P[y] < P[top] /\ <<top, y>> \in R
        BY <1>5
      <4>2. P[y] < P[x]
        <5>1. P[y] \in Nat /\ P[x] \in Nat
          BY <1>2, <1>9, <2>2, <4>1
        <5>. QED BY <1>10, <3>2, <3>4, <4>1, <5>1
      <4>3. <<x, y>> \in R
        BY <3>2, <3>4, <4>1 DEF ReachOK
      <4>. QED BY <1>3, <3>1, <4>1, <4>2, <4>3
    <3>. QED BY <3>3, <3>4
  <2>. QED BY <1>6, <2>1, <2>2
<1>13. ParentOK(G, P, L2, O2, W2)
  <2>. SUFFICES ASSUME NEW x \in W2
                PROVE  \E p \in W2 \cup O2 :
                          /\ <<p, x>> \in G /\ P[p] < P[x]
                          /\ p \in W2 => L2[p] <= L2[x]
                          /\ \A z \in O2 : P[z] < P[x] => P[z] <= P[p]
    BY DEF ParentOK
  <2>1. CASE x = top
    <3>1. PICK p \in O \ {top} : <<p, top>> \in G /\ \A z \in O \ {top} : P[z] <= P[p]
      BY <1>3, <1>5
    <3>2. p \notin W2
      <4>1. p \notin W
        BY <1>2, <3>1 DEF O, Opened
      <4>. QED BY <1>6, <3>1, <4>1
    <3>. QED BY <1>3, <1>9, <2>1, <3>1, <3>2
  <2>2. CASE x \in W
    <3>1. PICK p \in W \cup O : /\ <<p, x>> \in G /\ P[p] < P[x]
                                /\ p \in W => L[p] <= L[x]
                                /\ \A z \in O : P[z] < P[x] => P[z] <= P[p]
      BY <1>1, <2>2 DEF ParentOK
    <3>2. x \in DOMAIN L /\ L2[x] = L[x] /\ x \notin F
      BY <1>1, <1>2, <1>7, <1>9, <2>2 DEF LowOK
    <3>3. p \in W2 => L2[p] <= L2[x]
      <4>1. CASE p = top
        <5>1. P[x] > P[top]
          BY <1>9, <1>10, <2>2, <3>1, <4>1
        <5>. QED BY <1>5, <1>7, <3>1, <3>2, <4>1, <5>1
      <4>2. CASE p # top /\ p \in W
        <5>1. p \in DOMAIN L
          BY <1>1, <4>2 DEF LowOK
        <5>. QED BY <1>7, <3>1, <3>2, <4>2, <5>1
      <4>. QED BY <1>6, <4>1, <4>2
    <3>. QED BY <1>3, <1>9, <3>1, <3>3
  <2>. QED BY <1>6, <2>1, <2>2
<1>14. OrderOK(P, O2, Q2)
  <2>. SUFFICES ASSUME NEW z \in O2, NEW i \in DOMAIN Q2, NEW j \in DOMAIN Q2, i < j, P[Q2[i]] > P[z]
                PROVE  P[Q2[j]] > P[z]
    BY DEF OrderOK
  <2>1. CASE j = Len(Q) + 1
    <3>1. z \in O \ {top} /\ P[z] \in Nat
      BY <1>2, <1>3
    <3>. QED BY <1>3, <1>6, <1>10, <2>1, <3>1
  <2>2. CASE j # Len(Q) + 1
    <3>1. i \in 1..Len(Q) /\ j \in 1..Len(Q)
      BY <1>6, <2>2
    <3>2. z \in O /\ Q2[i] = Q[i] /\ Q2[j] = Q[j] /\ i \in DOMAIN Q /\ j \in DOMAIN Q
      BY <1>3, <1>6, <3>1
    <3>. QED BY <1>1, <3>2 DEF OrderOK
  <2>. QED BY <2>1, <2>2
<1>. QED BY <1>1, <1>3, <1>8, <1>11, <1>12, <1>13, <1>14 DEF SearchOK, q2, Q2, L2, O2, W2

-----------------------------------------------------------------------------
\* The nodes that wait and were numbered after the node in hand.
Above(P, top, W) == {x \in W : P[x] > P[top]}
\* What Remaining keeps: the places up to k.
CutsAt(P, Q, top, k) ==
    /\ k \in 0..Len(Q) /\ (k = 0 \/ P[Q[k]] <= P[top])
    /\ \A i \in DOMAIN Q : i > k => P[Q[i]] > P[top]
Taken(Q, top, k) == {top} \cup {Q[i] : i \in DOMAIN Q \ DOMAIN SubSeq(Q, 1, k)}

\* The nodes taken are those numbered after the node in hand.
CutFacts(N, P, Q, top, k) ==
    LET Rem == SubSeq(Q, 1, k)
        A == Above(P, top, Range(Q))
    IN  /\ Rem \in Seq(N) /\ DOMAIN Rem = 1..k /\ 1..k \subseteq DOMAIN Q
        /\ \A i \in 1..k : Rem[i] = Q[i]
        /\ Range(Rem) = Range(Q) \ A
        /\ Taken(Q, top, k) = {top} \cup A

LEMMA CutNode ==
    ASSUME NEW N, NEW P, NEW O, NEW Q \in Seq(N), NEW top \in O, NEW k, CutsAt(P, Q, top, k),
           OrderOK(P, O, Q), P[top] \in Nat, \A x \in Range(Q) : P[x] \in Nat
    PROVE  CutFacts(N, P, Q, top, k)
<1>. DEFINE Rem == SubSeq(Q, 1, k)
            A == Above(P, top, Range(Q))
            n == Len(Q)
<1>1. /\ k \in 0..n /\ (k = 0 \/ P[Q[k]] <= P[top])
      /\ \A i \in DOMAIN Q : i > k => P[Q[i]] > P[top]
  BY DEF CutsAt
<1>2. n \in Nat /\ DOMAIN Q = 1..n /\ k \in Nat /\ k <= n /\ \A i \in 1..n : Q[i] \in N
  BY <1>1
<1>3. /\ \A i \in 1..n : Q[i] \in Range(Q) /\ P[Q[i]] \in Nat
      /\ \A x \in Range(Q) : \E i \in 1..n : x = Q[i]
  BY <1>2 DEF Range
<1>4. Rem \in Seq(N) /\ DOMAIN Rem = 1..k /\ 1..k \subseteq DOMAIN Q /\ \A i \in 1..k : Rem[i] = Q[i]
  <2>1. Len(Rem) = k /\ \A i \in 1..k : Rem[i] = Q[i] /\ i \in 1..n
    BY <1>2
  <2>. QED BY <1>2, <2>1
<1>5. ASSUME NEW i \in 1..k PROVE ~ (P[Q[i]] > P[top])
  <2>1. k \in 1..n /\ i \in 1..n /\ P[Q[k]] <= P[top] /\ P[Q[k]] \in Nat /\ P[Q[i]] \in Nat
    BY <1>1, <1>2, <1>3
  <2>2. CASE i = k
    BY <2>1, <2>2
  <2>3. CASE i < k
    <3>1. P[Q[i]] > P[top] => P[Q[k]] > P[top]
      BY <1>2, <2>1, <2>3 DEF OrderOK
    <3>. QED BY <2>1, <3>1
  <2>. QED BY <1>2, <2>2, <2>3
<1>. HIDE DEF Rem
<1>6. Range(Rem) = {Q[i] : i \in 1..k}
  BY <1>4 DEF Range
<1>7. \A i \in 1..n : i \in 1..k \/ i > k
  BY <1>2
<1>8. \A i \in 1..n : Q[i] \in A <=> i \notin 1..k
  <2>. SUFFICES ASSUME NEW i \in 1..n PROVE Q[i] \in A <=> i \notin 1..k
    OBVIOUS
  <2>1. CASE i \in 1..k
    BY <1>5, <2>1 DEF Above
  <2>2. CASE i \notin 1..k
    BY <1>1, <1>2, <1>3, <1>7, <2>2 DEF Above
  <2>. QED BY <2>1, <2>2
<1>9. A \subseteq Range(Q)
  BY DEF Above
<1>. HIDE DEF A
<1>10. Range(Rem) = Range(Q) \ A
  <2>1. ASSUME NEW x \in Range(Rem) PROVE x \in Range(Q) \ A
    <3>1. PICK i \in 1..k : x = Q[i]
      BY <1>6
    <3>. QED BY <1>2, <1>3, <1>4, <1>8, <3>1
  <2>2. ASSUME NEW x \in Range(Q) \ A PROVE x \in Range(Rem)
    BY <1>3, <1>6, <1>8
  <2>. QED BY <2>1, <2>2
<1>11. {Q[i] : i \in DOMAIN Q \ DOMAIN Rem} = A
  <2>1. ASSUME NEW i \in DOMAIN Q \ DOMAIN Rem PROVE Q[i] \in A
    BY <1>2, <1>4, <1>8
  <2>2. ASSUME NEW x \in A PROVE \E i \in DOMAIN Q \ DOMAIN Rem : x = Q[i]
    BY <1>2, <1>3, <1>4, <1>8, <1>9
  <2>. QED BY <2>1, <2>2
<1>12. Taken(Q, top, k) = {top} \cup A
  BY <1>11 DEF Taken, Rem
<1>. QED BY <1>4, <1>10, <1>12 DEF CutFacts, Rem, A

\* What the closing of a component starts from.
Closing(G, R, N, q, P, L, F, Q, best, top) ==
    /\ SearchOK(G, R, N, q, P, L, F, Q, best) /\ ReachOK(G, R, N)
    /\ q # <<>> /\ top = Last(q) /\ top \in DOMAIN P
    /\ \A y : <<top, y>> \in G => y \in DOMAIN P
    /\ IsLow(G, P, L, F, top, P[top])

ClosingFacts(G, R, N, P, L, F, top, O, W) ==
    /\ O \subseteq DOMAIN P /\ W \subseteq DOMAIN P /\ F \subseteq DOMAIN P /\ DOMAIN P \subseteq N
    /\ DOMAIN P = F \cup W \cup O /\ \A x \in DOMAIN P : P[x] \in Nat
    /\ \A x, y \in DOMAIN P : P[x] = P[y] => x = y
    /\ F \cap W = {} /\ O \cap (F \cup W) = {}
    /\ top \in N /\ top \in O /\ top \notin F \cup W
    /\ \A z \in O \ {top} : P[z] < P[top]
    /\ \A z \in O : <<z, top>> \in R
    /\ \A y : <<top, y>> \in G /\ y \notin F /\ P[y] > P[top] => y \in W /\ P[top] <= L[y]
    /\ \A y : <<top, y>> \in G /\ y \notin F => P[top] <= P[y]
    /\ \A y : <<top, y>> \in G => y \in DOMAIN P
    /\ LowOK(G, R, P, L, F, O, W) /\ BackOK(R, P, O, W) /\ ParentOK(G, P, L, O, W)
    /\ FoundOK(G, F)

LEMMA ClosingNode ==
    ASSUME NEW G, NEW R, NEW N, NEW q, NEW P, NEW L, NEW F, NEW Q, NEW best, NEW top,
           Closing(G, R, N, q, P, L, F, Q, best, top)
    PROVE  ClosingFacts(G, R, N, P, L, F, top, Opened(q, P), Range(Q))
<1>1. /\ SearchOK(G, R, N, q, P, L, F, Q, best) /\ ReachOK(G, R, N)
      /\ q # <<>> /\ top = Last(q) /\ top \in DOMAIN P
      /\ \A y : <<top, y>> \in G => y \in DOMAIN P
      /\ IsLow(G, P, L, F, top, P[top])
  BY DEF Closing
<1>2. /\ NumbersOK(P) /\ PartsOK(N, q, P, F, Q) /\ FoundOK(G, F)
      /\ LowOK(G, R, P, L, F, Opened(q, P), Range(Q)) /\ BackOK(R, P, Opened(q, P), Range(Q))
      /\ ParentOK(G, P, L, Opened(q, P), Range(Q))
  BY <1>1 DEF SearchOK
<1>3. P[top] \in Nat
  BY <1>1, <1>2 DEF NumbersOK
<1>4. LowFacts(G, R, P, L, F, top, P[top], Opened(q, P), Range(Q))
  BY <1>1, <1>3, LowNode
<1>5. TopFacts(G, R, N, q, P, F, Q, top, Opened(q, P), Front(q))
  BY <1>1, TopNode
<1>6. /\ Opened(q, P) \subseteq DOMAIN P /\ Range(Q) \subseteq DOMAIN P /\ F \subseteq DOMAIN P
      /\ DOMAIN P \subseteq N
      /\ DOMAIN P = F \cup Range(Q) \cup Opened(q, P) /\ \A x \in DOMAIN P : P[x] \in Nat
      /\ F \cap Range(Q) = {} /\ Opened(q, P) \cap (F \cup Range(Q)) = {}
  BY <1>2 DEF PartsOK, NumbersOK, Opened
<1>7. \A x, y \in DOMAIN P : P[x] = P[y] => x = y
  BY <1>2 DEF NumbersOK
<1>8. /\ top \in N /\ top \in Opened(q, P) /\ top \notin F \cup Range(Q)
      /\ \A z \in Opened(q, P) \ {top} : P[z] < P[top]
      /\ \A z \in Opened(q, P) : <<z, top>> \in R
  BY <1>5 DEF TopFacts
<1>9. /\ \A y : <<top, y>> \in G /\ y \notin F /\ P[y] > P[top] => y \in Range(Q) /\ P[top] <= L[y]
      /\ \A y : <<top, y>> \in G /\ y \notin F => P[top] <= P[y]
  BY <1>4 DEF LowFacts
<1>. QED BY <1>1, <1>2, <1>6, <1>7, <1>8, <1>9 DEF ClosingFacts

\* None of them has an edge to a node numbered before the node in hand.
LEMMA NoneBelow ==
    ASSUME NEW G, NEW R, NEW N, NEW P, NEW L, NEW F, NEW top, NEW O, NEW W,
           ClosingFacts(G, R, N, P, L, F, top, O, W)
    PROVE  \A x \in Above(P, top, W) : P[top] <= L[x]
<1>. DEFINE A == Above(P, top, W)
            Bad == {x \in A : L[x] < P[top]}
<1>1. /\ O \subseteq DOMAIN P /\ W \subseteq DOMAIN P /\ F \cap W = {}
      /\ \A x \in DOMAIN P : P[x] \in Nat
      /\ \A x, y \in DOMAIN P : P[x] = P[y] => x = y
      /\ top \in O /\ top \notin W /\ \A z \in O \ {top} : P[z] < P[top]
      /\ \A y : <<top, y>> \in G /\ y \notin F /\ P[y] > P[top] => P[top] <= L[y]
      /\ LowOK(G, R, P, L, F, O, W) /\ ParentOK(G, P, L, O, W)
  BY DEF ClosingFacts
<1>2. A \subseteq W /\ \A x \in W : x \in A <=> P[x] > P[top]
  BY DEF Above
<1>3. \A x \in W : L[x] \in Nat /\ P[x] \in Nat
  BY <1>1 DEF LowOK
<1>4. P[top] \in Nat
  BY <1>1
<1>. HIDE DEF A
<1>5. SUFFICES ASSUME Bad # {} PROVE FALSE
  BY <1>2, <1>3, <1>4 DEF A
<1>6. PICK x \in Bad : \A y \in Bad : P[x] <= P[y]
  <2>. DEFINE T == {P[y] : y \in Bad}
  <2>1. T \in SUBSET Nat /\ T # {}
    BY <1>2, <1>3, <1>5
  <2>2. PICK n \in T : \A m \in T : n <= m
    BY <2>1, LeastNat
  <2>. QED BY <2>2
<1>7. x \in W /\ P[x] > P[top] /\ L[x] < P[top]
  BY <1>2, <1>6
<1>8. PICK p \in W \cup O : /\ <<p, x>> \in G /\ P[p] < P[x]
                            /\ p \in W => L[p] <= L[x]
                            /\ \A z \in O : P[z] < P[x] => P[z] <= P[p]
  BY <1>1, <1>7 DEF ParentOK
<1>9. P[top] <= P[p] /\ P[p] \in Nat
  BY <1>1, <1>3, <1>4, <1>7, <1>8
<1>10. CASE p \in O
  <2>1. p = top
    BY <1>1, <1>4, <1>9, <1>10
  <2>2. x \notin F
    BY <1>1, <1>7
  <2>. QED BY <1>1, <1>3, <1>4, <1>7, <1>8, <2>1, <2>2
<1>11. CASE p \in W
  <2>1. p # top
    BY <1>1, <1>11
  <2>2. P[p] # P[top]
    BY <1>1, <1>11, <2>1
  <2>3. p \in A
    BY <1>2, <1>4, <1>9, <1>11, <2>2
  <2>4. L[p] < P[top]
    BY <1>3, <1>4, <1>7, <1>8, <1>11
  <2>5. P[x] <= P[p]
    BY <1>6, <2>3, <2>4
  <2>. QED BY <1>3, <1>7, <1>8, <1>9, <2>5
<1>. QED BY <1>8, <1>10, <1>11

\* With the node in hand they are a component, and no edge leads out of it.
LEMMA TakenNode ==
    ASSUME NEW G, NEW R, NEW N, NEW P, NEW L, NEW F, NEW top, NEW O, NEW W, NEW C,
           ClosingFacts(G, R, N, P, L, F, top, O, W), ReachOK(G, R, N),
           C = {top} \cup Above(P, top, W)
    PROVE  /\ FoundOK(G, F \cup C)
           /\ C = Mutual(R, N, top)
           /\ \A x \in C : Mutual(R, N, x) = C
<1>. DEFINE A == Above(P, top, W)
<1>1. /\ O \subseteq DOMAIN P /\ W \subseteq DOMAIN P /\ F \subseteq DOMAIN P /\ DOMAIN P \subseteq N
      /\ DOMAIN P = F \cup W \cup O
      /\ \A x \in DOMAIN P : P[x] \in Nat
      /\ F \cap W = {}
      /\ top \in N /\ top \in O /\ top \notin F \cup W /\ \A z \in O \ {top} : P[z] < P[top]
      /\ \A z \in O : <<z, top>> \in R
  BY DEF ClosingFacts
<1>2. /\ \A y : <<top, y>> \in G /\ y \notin F => P[top] <= P[y]
      /\ \A y : <<top, y>> \in G => y \in DOMAIN P
      /\ \A x, y \in DOMAIN P : P[x] = P[y] => x = y
      /\ LowOK(G, R, P, L, F, O, W) /\ BackOK(R, P, O, W) /\ FoundOK(G, F)
  BY DEF ClosingFacts
<1>3. A \subseteq W /\ \A x \in W : x \in A <=> P[x] > P[top]
  BY DEF Above
<1>4. \A x \in A : P[top] <= L[x]
  BY NoneBelow
<1>5. C = {top} \cup A
  OBVIOUS
<1>. HIDE DEF A
<1>6. P[top] \in Nat
  BY <1>1
  \* A node numbered no earlier than the node in hand belongs to the component.
<1>7. ASSUME NEW y \in DOMAIN P, y \notin F, P[top] <= P[y] PROVE y \in C
  <2>1. CASE y \in O
    BY <1>1, <1>5, <1>6, <1>7, <2>1
  <2>2. CASE y \in W
    <3>1. P[y] # P[top] /\ P[y] \in Nat
      BY <1>1, <1>2, <2>2
    <3>. QED BY <1>3, <1>5, <1>6, <1>7, <2>2, <3>1
  <2>. QED BY <1>1, <1>7, <2>1, <2>2
<1>8. FoundOK(G, F \cup C)
  <2>. SUFFICES ASSUME NEW x \in F \cup C, NEW y, <<x, y>> \in G, y \notin F PROVE y \in C
    BY DEF FoundOK
  <2>1. CASE x \in F
    BY <1>2, <2>1 DEF FoundOK
  <2>2. CASE x = top
    BY <1>2, <1>7, <2>2
  <2>3. CASE x \in A
    <3>1. x \in W /\ L[x] \in Nat /\ P[top] <= L[x] /\ y \in DOMAIN P /\ L[x] <= P[y]
      BY <1>2, <1>3, <1>4, <2>3 DEF LowOK
    <3>2. P[y] \in Nat
      BY <1>1, <3>1
    <3>3. P[top] <= P[y]
      BY <1>6, <3>1, <3>2
    <3>. QED BY <1>7, <3>1, <3>3
  <2>. QED BY <1>5, <2>1, <2>2, <2>3
<1>9. C \subseteq N
  BY <1>1, <1>3, <1>5
<1>10. ASSUME NEW x \in C PROVE <<x, top>> \in R /\ <<top, x>> \in R
  <2>1. CASE x = top
    BY <1>1, <2>1
  <2>2. CASE x \in A
    <3>1. x \in W /\ P[top] < P[x]
      BY <1>1, <1>3, <1>6, <2>2
    <3>2. /\ \E z \in O : P[z] < P[x] /\ <<x, z>> \in R
          /\ \A z \in O : P[z] < P[x] => <<z, x>> \in R
      BY <1>2, <3>1 DEF BackOK
    <3>3. PICK z \in O : P[z] < P[x] /\ <<x, z>> \in R
      BY <3>2
    <3>4. <<z, top>> \in R
      BY <1>1
    <3>5. <<x, top>> \in R
      BY <3>3, <3>4 DEF ReachOK
    <3>. QED BY <1>1, <3>1, <3>2, <3>5
  <2>. QED BY <1>5, <2>1, <2>2
<1>11. ASSUME NEW m \in N, <<m, top>> \in R, <<top, m>> \in R PROVE m \in C
  <2>1. F \cup C \in SUBSET N /\ F \in SUBSET N /\ top \in F \cup C
    BY <1>1, <1>5, <1>9
  <2>2. m \in F \cup C
    BY <1>8, <1>11, <2>1 DEF ReachOK
  <2>3. m \notin F
    BY <1>1, <1>2, <1>11, <2>1 DEF ReachOK
  <2>. QED BY <2>2, <2>3
<1>12. C = Mutual(R, N, top)
  BY <1>9, <1>10, <1>11 DEF Mutual
<1>13. ASSUME NEW x \in C PROVE Mutual(R, N, x) = C
  <2>1. ASSUME NEW m \in Mutual(R, N, x) PROVE m \in C
    <3>1. m \in N /\ <<m, x>> \in R /\ <<x, m>> \in R /\ <<x, top>> \in R /\ <<top, x>> \in R
      BY <1>10, <2>1 DEF Mutual
    <3>2. <<m, top>> \in R /\ <<top, m>> \in R
      BY <3>1 DEF ReachOK
    <3>. QED BY <1>11, <3>1, <3>2
  <2>2. ASSUME NEW m \in C PROVE m \in Mutual(R, N, x)
    <3>1. /\ m \in N /\ <<m, top>> \in R /\ <<top, m>> \in R
          /\ <<x, top>> \in R /\ <<top, x>> \in R
      BY <1>9, <1>10, <2>2
    <3>2. <<m, x>> \in R /\ <<x, m>> \in R
      BY <3>1 DEF ReachOK
    <3>. QED BY <3>1, <3>2 DEF Mutual
  <2>. QED BY <2>1, <2>2
<1>. QED BY <1>8, <1>12, <1>13

-----------------------------------------------------------------------------
Largest(C, best) == IF Cardinality(C) > Cardinality(best) THEN C ELSE best

LEMMA BestNode ==
    ASSUME NEW R, NEW N, IsFiniteSet(N), NEW F, NEW best, BestOK(R, N, F, best),
           NEW C, NEW top \in C, C = Mutual(R, N, top), \A x \in C : Mutual(R, N, x) = C
    PROVE  BestOK(R, N, F \cup C, Largest(C, best))
<1>1. \A x : Mutual(R, N, x) \subseteq N
  BY DEF Mutual
<1>2. \A x : IsFiniteSet(Mutual(R, N, x)) /\ Cardinality(Mutual(R, N, x)) \in Nat
  BY <1>1, FS_Subset, FS_CardinalityType
<1>3. Cardinality(C) \in Nat /\ Cardinality(C) # 0
  <2>1. IsFiniteSet(C) /\ Cardinality(C) \in Nat
    BY <1>2
  <2>. QED BY <2>1, FS_EmptySet
<1>4. /\ F = {} => best = {}
      /\ F # {} => \E n \in F : best = Mutual(R, N, n)
      /\ \A n \in F : Cardinality(Mutual(R, N, n)) <= Cardinality(best)
  BY DEF BestOK
<1>5. Cardinality({}) = 0
  BY FS_EmptySet
<1>6. Cardinality(best) \in Nat
  BY <1>2, <1>4, <1>5
<1>. DEFINE new == Largest(C, best)
<1>7. CASE Cardinality(C) > Cardinality(best)
  <2>1. new = C
    BY <1>7 DEF Largest
  <2>2. \A n \in F : Cardinality(Mutual(R, N, n)) <= Cardinality(C)
    BY <1>2, <1>3, <1>4, <1>6, <1>7
  <2>3. \A n \in C : Cardinality(Mutual(R, N, n)) <= Cardinality(C)
    BY <1>3
  <2>. HIDE DEF new
  <2>4. BestOK(R, N, F \cup C, new)
    BY <2>1, <2>2, <2>3 DEF BestOK
  <2>. QED BY <2>4 DEF new
<1>8. CASE ~ (Cardinality(C) > Cardinality(best))
  <2>1. new = best
    BY <1>8 DEF Largest
  <2>2. F # {}
    BY <1>3, <1>4, <1>5, <1>8
  <2>3. \A n \in C : Cardinality(Mutual(R, N, n)) <= Cardinality(best)
    BY <1>3, <1>6, <1>8
  <2>. HIDE DEF new
  <2>4. BestOK(R, N, F \cup C, new)
    BY <1>4, <2>1, <2>2, <2>3 DEF BestOK
  <2>. QED BY <2>4 DEF new
<1>. QED BY <1>7, <1>8

\* A node that reaches none before it closes a component.
LEMMA CloseNode ==
    ASSUME NEW G, NEW R, NEW N, IsFiniteSet(N),
           NEW q, NEW P, NEW L, NEW F, NEW Q, NEW best, NEW top, NEW k,
           Closing(G, R, N, q, P, L, F, Q, best, top), CutsAt(P, Q, top, k)
    PROVE  SearchOK(G, R, N, Front(q), P, Lowered(L, top, P[top]), F \cup Taken(Q, top, k),
                    SubSeq(Q, 1, k), Largest(Taken(Q, top, k), best))
<1>. DEFINE D == DOMAIN P
            O == Opened(q, P)
            W == Range(Q)
            q2 == Front(q)
            Q2 == SubSeq(Q, 1, k)
            L2 == Lowered(L, top, P[top])
            O2 == Opened(q2, P)
            W2 == Range(Q2)
            A == Above(P, top, W)
            C == Taken(Q, top, k)
            F2 == F \cup C
<1>1. SearchOK(G, R, N, q, P, L, F, Q, best) /\ ReachOK(G, R, N) /\ q # <<>> /\ top = Last(q) /\ top \in D
  BY DEF Closing
<1>2. /\ NumbersOK(P) /\ PathOK(G, q, P) /\ PartsOK(N, q, P, F, Q) /\ FoundOK(G, F)
      /\ LowOK(G, R, P, L, F, O, W) /\ BackOK(R, P, O, W) /\ ParentOK(G, P, L, O, W)
      /\ OrderOK(P, O, Q) /\ BestOK(R, N, F, best)
  BY <1>1 DEF SearchOK
<1>3. ClosingFacts(G, R, N, P, L, F, top, O, W)
  BY ClosingNode
<1>4. /\ top \in N /\ top \in O /\ top \notin F \cup W
      /\ q2 \in Seq(N) /\ O2 = O \ {top} /\ PathOK(G, q2, P)
      /\ Range(q2) \subseteq Range(q) \ {top}
      /\ \A z \in O \ {top} : P[z] < P[top]
  <2>1. TopFacts(G, R, N, q, P, F, Q, top, O, q2)
    BY <1>1, TopNode
  <2>. QED BY <2>1 DEF TopFacts
<1>5. /\ O \subseteq D /\ W \subseteq D /\ D \subseteq N /\ D = F \cup W \cup O
      /\ \A x \in D : P[x] \in Nat
      /\ Q \in Seq(N) /\ F \cap W = {} /\ Range(q) \cap (F \cup W) = {}
      /\ O \cap (F \cup W) = {}
  BY <1>2 DEF PartsOK, NumbersOK, Opened
<1>6. P[top] \in Nat
  BY <1>1, <1>5
<1>7. CutFacts(N, P, Q, top, k)
  <2>1. \A x \in Range(Q) : P[x] \in Nat
    BY <1>5
  <2>2. Q \in Seq(N) /\ top \in O /\ OrderOK(P, O, Q)
    BY <1>2, <1>4, <1>5
  <2>. HIDE DEF O
  <2>. QED BY <1>6, <2>1, <2>2, CutNode
<1>8. /\ Q2 \in Seq(N) /\ DOMAIN Q2 = 1..k /\ 1..k \subseteq DOMAIN Q /\ \A i \in 1..k : Q2[i] = Q[i]
      /\ W2 = W \ A /\ C = {top} \cup A
  BY <1>7 DEF CutFacts
<1>9. FoundOK(G, F2) /\ C = Mutual(R, N, top) /\ \A x \in C : Mutual(R, N, x) = C
  BY <1>1, <1>3, <1>8, TakenNode
<1>10. A \subseteq W /\ \A x \in W2 : x \in W /\ x \in D /\ P[x] \in Nat /\ P[x] <= P[top] /\ x # top
  <2>1. \A x \in W : P[x] \in Nat /\ x \in D
    BY <1>5
  <2>. QED BY <1>4, <1>6, <1>8, <2>1 DEF Above
<1>. HIDE DEF A, C
<1>11. PartsOK(N, q2, P, F2, Q2)
  BY <1>4, <1>5, <1>8, <1>10 DEF PartsOK, O2, W2, D
<1>12. BestOK(R, N, F2, Largest(C, best))
  BY <1>2, <1>8, <1>9, BestNode
<1>13. /\ DOMAIN L2 = DOMAIN L \cup {top}
       /\ \A x \in DOMAIN L : x # top => L2[x] = L[x]
  BY DEF Lowered
<1>14. /\ \A y \in W \cup O : P[y] \in Nat /\ (P[y] < P[top] => y \in W2 \cup O2)
       /\ W2 \cup O2 \subseteq W \cup O
  <2>1. ASSUME NEW y \in W \cup O, P[y] < P[top] PROVE y \in W2 \cup O2
    <3>1. y # top
      BY <1>6, <2>1
    <3>2. y \notin A
      BY <1>5, <1>6, <2>1 DEF A, Above
    <3>. QED BY <1>4, <1>8, <3>1, <3>2
  <2>. QED BY <1>4, <1>5, <1>8, <2>1
<1>15. F \subseteq F2 /\ O2 \subseteq O
  BY <1>4
<1>. HIDE DEF D, O, W, q2, Q2, L2, O2, W2, F2
<1>16. LowOK(G, R, P, L2, F2, O2, W2)
  <2>. SUFFICES ASSUME NEW x \in W2
                PROVE  /\ x \in DOMAIN L2 /\ L2[x] \in Nat /\ L2[x] < P[x]
                       /\ \A y : <<x, y>> \in G => y \in DOMAIN P /\ (y \notin F2 => L2[x] <= P[y])
                       /\ \E y \in W2 \cup O2 : P[y] = L2[x] /\ <<x, y>> \in R
    BY DEF LowOK
  <2>1. x \in W /\ P[x] \in Nat /\ P[x] <= P[top] /\ x # top
    BY <1>10
  <2>2. /\ x \in DOMAIN L /\ L[x] \in Nat /\ L[x] < P[x]
        /\ \A y : <<x, y>> \in G => y \in DOMAIN P /\ (y \notin F => L[x] <= P[y])
        /\ \E y \in W \cup O : P[y] = L[x] /\ <<x, y>> \in R
    BY <1>2, <2>1 DEF LowOK
  <2>3. L2[x] = L[x] /\ x \in DOMAIN L2
    BY <1>13, <2>1, <2>2
  <2>4. PICK y \in W \cup O : P[y] = L[x] /\ <<x, y>> \in R
    BY <2>2
  <2>5. P[y] < P[top]
    BY <1>6, <2>1, <2>2, <2>4
  <2>6. y \in W2 \cup O2
    BY <1>14, <2>5
  <2>. QED BY <1>15, <2>2, <2>3, <2>4, <2>6
<1>17. BackOK(R, P, O2, W2)
  <2>. SUFFICES ASSUME NEW x \in W2
                PROVE  /\ \E z \in O2 : P[z] < P[x] /\ <<x, z>> \in R
                       /\ \A z \in O2 : P[z] < P[x] => <<z, x>> \in R
    BY DEF BackOK
  <2>1. x \in W /\ P[x] \in Nat /\ P[x] <= P[top] /\ x # top
    BY <1>10
  <2>2. /\ \E z \in O : P[z] < P[x] /\ <<x, z>> \in R
        /\ \A z \in O : P[z] < P[x] => <<z, x>> \in R
    BY <1>2, <2>1 DEF BackOK
  <2>3. PICK z \in O : P[z] < P[x] /\ <<x, z>> \in R
    BY <2>2
  <2>4. z # top
    BY <1>6, <2>1, <2>3
  <2>. QED BY <1>4, <1>15, <2>2, <2>3, <2>4
<1>18. ParentOK(G, P, L2, O2, W2)
  <2>. SUFFICES ASSUME NEW x \in W2
                PROVE  \E p \in W2 \cup O2 :
                          /\ <<p, x>> \in G /\ P[p] < P[x]
                          /\ p \in W2 => L2[p] <= L2[x]
                          /\ \A z \in O2 : P[z] < P[x] => P[z] <= P[p]
    BY DEF ParentOK
  <2>1. x \in W /\ P[x] \in Nat /\ P[x] <= P[top] /\ x # top
    BY <1>10
  <2>2. PICK p \in W \cup O : /\ <<p, x>> \in G /\ P[p] < P[x]
                              /\ p \in W => L[p] <= L[x]
                              /\ \A z \in O : P[z] < P[x] => P[z] <= P[p]
    BY <1>2, <2>1 DEF ParentOK
  <2>3. P[p] < P[top] /\ p \in W2 \cup O2
    BY <1>6, <1>14, <2>1, <2>2
  <2>4. p \in W2 => L2[p] <= L2[x]
    <3>1. ASSUME NEW w \in W2 PROVE w \in W /\ L2[w] = L[w]
      <4>1. w \in W /\ w # top
        BY <1>10
      <4>2. w \in DOMAIN L
        BY <1>2, <4>1 DEF LowOK
      <4>. QED BY <1>13, <4>1, <4>2
    <3>. QED BY <2>2, <3>1
  <2>. QED BY <1>15, <2>2, <2>3, <2>4
<1>19. OrderOK(P, O2, Q2)
  BY <1>2, <1>8, <1>15 DEF OrderOK
<1>20. NumbersOK(P) /\ PathOK(G, q2, P) /\ FoundOK(G, F2)
  BY <1>2, <1>4, <1>9
<1>21. SearchOK(G, R, N, q2, P, L2, F2, Q2, Largest(C, best))
  BY <1>11, <1>12, <1>16, <1>17, <1>18, <1>19, <1>20 DEF SearchOK, O2, W2
<1>. QED BY <1>21 DEF q2, L2, F2, Q2, C

-----------------------------------------------------------------------------
\* The steps of the search in the model's own terms.
Pairs == Joined(exported)
Reach == Reaches(exported)
\* What a step of the search starts from.
Searching ==
    /\ pc = "connect" /\ nodes \in SUBSET Nodes /\ IsFiniteSet(nodes)
    /\ exported \in Seq(Range(exported)) /\ Ends(exported) \subseteq nodes
    /\ SearchOK(Pairs, Reach, nodes, queue, preorder, lowlink, scc_found, scc_queue, scc)
    /\ ReachOK(Pairs, Reach, nodes)

LEMMA JoinedFacts ==
    ASSUME NEW e, NEW N, Ends(e) \subseteq N
    PROVE  Joined(e) \in SUBSET (N \X N)
  BY DEF Joined, Ends

LEMMA MinOfNats ==
    ASSUME NEW S \in SUBSET Nat, S # {}
    PROVE  Min(S) \in S /\ \A m \in S : Min(S) <= m
<1>1. \E n \in S : \A m \in S : n <= m
  BY LeastNat
<1>. QED BY <1>1 DEF Min

\* The node in hand is numbered.
LEMMA NumberedFacts ==
    ASSUME Searching, queue # <<>>
    PROVE  /\ SearchOK(Pairs, Reach, nodes, queue, Numbered, lowlink, scc_found, scc_queue, scc)
           /\ v \in DOMAIN Numbered /\ v = Last(queue)
<1>1. Numbering(preorder, Last(queue), Numbered)
  BY DEF Numbering, Numbered, v
<1>2. SearchOK(Pairs, Reach, nodes, queue, preorder, lowlink, scc_found, scc_queue, scc)
  BY DEF Searching
<1>. HIDE DEF Pairs, Reach, Numbered
<1>3. /\ SearchOK(Pairs, Reach, nodes, queue, Numbered, lowlink, scc_found, scc_queue, scc)
      /\ DOMAIN Numbered = DOMAIN preorder \cup {Last(queue)}
  <2>1. queue # <<>>
    OBVIOUS
  <2>2. SearchOK(Pairs, Reach, nodes, queue, Numbered, lowlink, scc_found, scc_queue, scc)
    BY <1>1, <1>2, <2>1, NumberNode
  <2>3. DOMAIN Numbered = DOMAIN preorder \cup {Last(queue)}
    BY <1>1 DEF Numbering
  <2>. QED BY <2>2, <2>3
<1>. QED BY <1>3 DEF v

LEMMA DescendSearches ==
    ASSUME Searching, Descend
    PROVE  SearchOK(Pairs, Reach, nodes, queue', preorder', lowlink', scc_found', scc_queue', scc')
<1>1. /\ queue # <<>> /\ Unseen # {} /\ queue' = Append(queue, exported[First(Unseen)].v)
      /\ preorder' = Numbered /\ lowlink' = lowlink /\ scc_found' = scc_found
      /\ scc_queue' = scc_queue /\ scc' = scc
  BY DEF Descend
<1>. DEFINE w == exported[First(Unseen)].v
<1>2. /\ SearchOK(Pairs, Reach, nodes, queue, Numbered, lowlink, scc_found, scc_queue, scc)
      /\ v \in DOMAIN Numbered /\ v = Last(queue)
  BY <1>1, NumberedFacts
<1>3. First(Unseen) \in Unseen
  <2>1. Unseen \in SUBSET Nat
    BY DEF Unseen, Searching
  <2>2. \E r \in Unseen : \A s \in Unseen : r <= s
    BY <1>1, <2>1, LeastNat
  <2>. QED BY <2>2 DEF First
<1>4. <<v, w>> \in Pairs /\ w \in nodes /\ w \notin DOMAIN Numbered
  BY <1>3 DEF Unseen, Pairs, Joined, Searching, Ends
<1>. HIDE DEF w
<1>5. SearchOK(Pairs, Reach, nodes, Append(queue, w), Numbered, lowlink, scc_found, scc_queue, scc)
  BY <1>2, <1>4, DescendNode
<1>. QED BY <1>1, <1>5 DEF w

\* Low is the least number that the node in hand reaches.
LEMMA LowFound ==
    ASSUME Searching, queue # <<>>, Unseen = {}
    PROVE  /\ Low \in Nat /\ IsLow(Pairs, Numbered, lowlink, scc_found, v, Low)
           /\ \A y : <<v, y>> \in Pairs => y \in DOMAIN Numbered
           /\ \A x \in DOMAIN Numbered : Numbered[x] \in Nat
<1>1. /\ SearchOK(Pairs, Reach, nodes, queue, Numbered, lowlink, scc_found, scc_queue, scc)
      /\ v \in DOMAIN Numbered /\ v = Last(queue)
  BY NumberedFacts
<1>2. \A y : <<v, y>> \in Pairs <=> y \in node_successors(v)
  <2>1. ASSUME NEW y, <<v, y>> \in Pairs PROVE y \in node_successors(v)
    BY <2>1 DEF Pairs, Joined, node_successors
  <2>2. ASSUME NEW y \in node_successors(v) PROVE <<v, y>> \in Pairs
    BY <2>2 DEF Pairs, Joined, node_successors
  <2>. QED BY <2>1, <2>2
<1>3. \A y \in node_successors(v) : y \in DOMAIN Numbered
  BY DEF Unseen, node_successors
<1>. DEFINE P == Numbered
            N == nodes
            O == Opened(queue, P)
            W == Range(scc_queue)
            top == v
<1>4. /\ NumbersOK(P) /\ PartsOK(N, queue, P, scc_found, scc_queue)
      /\ LowOK(Pairs, Reach, P, lowlink, scc_found, O, W)
  BY <1>1 DEF SearchOK
<1>5. TopFacts(Pairs, Reach, N, queue, P, scc_found, scc_queue, top, O, Front(queue))
  <2>1. ReachOK(Pairs, Reach, nodes)
    BY DEF Searching
  <2>. HIDE DEF P
  <2>. QED BY <1>1, <2>1, TopNode DEF P
<1>6. \A z \in O \ {top} : P[z] < P[top]
  BY <1>5 DEF TopFacts
<1>7. \A x \in DOMAIN P : P[x] \in Nat
  BY <1>4 DEF NumbersOK
<1>8. DOMAIN P = scc_found \cup W \cup O
  BY <1>4 DEF PartsOK
<1>. DEFINE S == node_successors(v) \ scc_found
            T == {P[top]} \cup {Level(P, lowlink, top, w) : w \in S}
<1>9. Low = Min(T)
  BY DEF Low, Level
<1>. HIDE DEF P, O, W, top, N
<1>10. \A w \in S : Level(P, lowlink, top, w) \in Nat
  <2>. SUFFICES ASSUME NEW w \in S PROVE Level(P, lowlink, top, w) \in Nat
    OBVIOUS
  <2>1. w \in DOMAIN P /\ P[w] \in Nat
    BY <1>3, <1>7 DEF P
  <2>2. CASE P[w] > P[top]
    <3>1. P[top] \in Nat
      BY <1>1, <1>7 DEF P, top
    <3>2. w \notin O
      <4>1. w # top /\ ~ (P[w] < P[top])
        BY <2>1, <2>2, <3>1
      <4>. QED BY <1>6, <4>1
    <3>3. w \in W
      BY <1>8, <2>1, <3>2
    <3>. QED BY <1>4, <2>2, <3>3 DEF LowOK, Level
  <2>3. CASE ~ (P[w] > P[top])
    BY <2>1, <2>3 DEF Level
  <2>. QED BY <2>2, <2>3
<1>11. P[top] \in Nat
  BY <1>1, <1>7 DEF P, top
<1>. HIDE DEF S
<1>12. T \in SUBSET Nat /\ T # {}
  BY <1>10, <1>11
<1>13. Low \in T /\ \A m \in T : Low <= m
  <2>. HIDE DEF T
  <2>. QED BY <1>9, <1>12, MinOfNats
<1>14. \A y : <<top, y>> \in Pairs /\ y \notin scc_found <=> y \in S
  BY <1>2 DEF S, top
<1>15. IsLow(Pairs, P, lowlink, scc_found, top, Low)
  BY <1>13, <1>14 DEF IsLow
<1>. QED BY <1>2, <1>3, <1>7, <1>12, <1>13, <1>15 DEF P, top

LEMMA PostponeSearches ==
    ASSUME Searching, Postpone
    PROVE  SearchOK(Pairs, Reach, nodes, queue', preorder', lowlink', scc_found', scc_queue', scc')
<1>1. /\ queue # <<>> /\ Unseen = {} /\ queue' = Front(queue) /\ preorder' = Numbered
      /\ lowlink' = Lowered(lowlink, v, Low) /\ scc_found' = scc_found
      /\ scc_queue' = Append(scc_queue, v) /\ scc' = scc /\ Low # Numbered[v]
  BY DEF Postpone, Ascend, Lowered
<1>2. /\ SearchOK(Pairs, Reach, nodes, queue, Numbered, lowlink, scc_found, scc_queue, scc)
      /\ v \in DOMAIN Numbered /\ v = Last(queue)
  BY <1>1, NumberedFacts
<1>3. /\ Low \in Nat /\ IsLow(Pairs, Numbered, lowlink, scc_found, v, Low)
      /\ \A y : <<v, y>> \in Pairs => y \in DOMAIN Numbered
  BY <1>1, LowFound
<1>4. ReachOK(Pairs, Reach, nodes)
  BY DEF Searching
<1>5. SearchOK(Pairs, Reach, nodes, Front(queue), Numbered, Lowered(lowlink, v, Low), scc_found,
               Append(scc_queue, v), scc)
  BY <1>1, <1>2, <1>3, <1>4, PostponeNode
<1>. QED BY <1>1, <1>5

LEMMA CloseSearches ==
    ASSUME Searching, CloseComponent
    PROVE  SearchOK(Pairs, Reach, nodes, queue', preorder', lowlink', scc_found', scc_queue', scc')
<1>. DEFINE older == {i \in DOMAIN scc_queue : Numbered[scc_queue[i]] <= Numbered[v]}
            k == Max(older \cup {0})
<1>1. /\ queue # <<>> /\ Unseen = {} /\ queue' = Front(queue) /\ preorder' = Numbered
      /\ lowlink' = Lowered(lowlink, v, Numbered[v]) /\ Low = Numbered[v]
      /\ scc_queue' = SubSeq(scc_queue, 1, k)
      /\ scc_found' = scc_found \cup Component
      /\ scc' = Largest(Component, scc)
  BY DEF CloseComponent, Ascend, Lowered, Largest, Remaining
<1>2. Component = Taken(scc_queue, v, k)
  BY DEF Component, Taken, Remaining
<1>3. /\ SearchOK(Pairs, Reach, nodes, queue, Numbered, lowlink, scc_found, scc_queue, scc)
      /\ v \in DOMAIN Numbered /\ v = Last(queue)
  BY <1>1, NumberedFacts
<1>4. /\ IsLow(Pairs, Numbered, lowlink, scc_found, v, Low)
      /\ \A y : <<v, y>> \in Pairs => y \in DOMAIN Numbered
      /\ \A x \in DOMAIN Numbered : Numbered[x] \in Nat
  BY <1>1, LowFound
<1>5. Closing(Pairs, Reach, nodes, queue, Numbered, lowlink, scc_found, scc_queue, scc, v)
  BY <1>1, <1>3, <1>4 DEF Closing, Searching
<1>6. CutsAt(Numbered, scc_queue, v, k)
  <2>1. scc_queue \in Seq(nodes) /\ Range(scc_queue) \subseteq DOMAIN Numbered
    BY <1>3 DEF SearchOK, PartsOK
  <2>. DEFINE n == Len(scc_queue)
  <2>2. /\ n \in Nat /\ DOMAIN scc_queue = 1..n
        /\ \A i \in 1..n : Numbered[scc_queue[i]] \in Nat
    BY <1>4, <2>1 DEF Range
  <2>3. Numbered[v] \in Nat
    BY <1>3, <1>4
  <2>4. older \cup {0} \in SUBSET (0..n) /\ older \cup {0} # {}
    BY <2>2
  <2>5. k \in older \cup {0} /\ k \in 0..n /\ \A i \in older \cup {0} : i <= k
    <3>. DEFINE S == older \cup {0}
    <3>. HIDE DEF S
    <3>1. S \in SUBSET (0..n) /\ S # {}
      BY <2>4 DEF S
    <3>2. Max(S) \in S /\ Max(S) \in 0..n /\ \A i \in S : i <= Max(S)
      BY <2>2, <3>1, MaxOfPlaces
    <3>. QED BY <3>2 DEF S
  <2>. HIDE DEF k
  <2>6. ASSUME NEW i \in DOMAIN scc_queue, i > k PROVE Numbered[scc_queue[i]] > Numbered[v]
    <3>1. i \notin older
      BY <2>2, <2>5, <2>6
    <3>. QED BY <2>2, <2>3, <3>1
  <2>. QED BY <2>2, <2>5, <2>6 DEF CutsAt
<1>7. IsFiniteSet(nodes)
  BY DEF Searching
<1>. HIDE DEF k
<1>8. SearchOK(Pairs, Reach, nodes, Front(queue), Numbered, Lowered(lowlink, v, Numbered[v]),
               scc_found \cup Taken(scc_queue, v, k), SubSeq(scc_queue, 1, k),
               Largest(Taken(scc_queue, v, k), scc))
  BY <1>5, <1>6, <1>7, CloseNode
<1>. QED BY <1>1, <1>2, <1>8 DEF k

LEMMA SourceSearches ==
    ASSUME Searching, NEW n \in Nodes, Source(n)
    PROVE  SearchOK(Pairs, Reach, nodes, queue', preorder', lowlink', scc_found', scc_queue', scc')
<1>1. /\ queue = <<>> /\ n \in nodes \ scc_found /\ queue' = <<n>>
      /\ preorder' = preorder /\ lowlink' = lowlink /\ scc_found' = scc_found
      /\ scc_queue' = scc_queue /\ scc' = scc
  BY DEF Source
<1>2. SearchOK(Pairs, Reach, nodes, <<>>, preorder, lowlink, scc_found, scc_queue, scc)
  BY <1>1 DEF Searching
<1>3. SearchOK(Pairs, Reach, nodes, <<n>>, preorder, lowlink, scc_found, scc_queue, scc)
  BY <1>1, <1>2, SourceNode
<1>. QED BY <1>1, <1>3

-----------------------------------------------------------------------------
SearchInv ==
    /\ pc = "connect" =>
         /\ nodes \in SUBSET Nodes
         /\ SearchOK(Pairs, Reach, nodes, queue, preorder, lowlink, scc_found, scc_queue, scc)
    /\ pc \in Reading \cup AllNodesThere =>
         queue = <<>> /\ preorder = <<>> /\ lowlink = <<>> /\ scc_found = {} /\ scc_queue = <<>> /\ scc = {}

\* Nothing is found when the search begins.
LEMMA BeginsOK ==
    ASSUME NEW G, NEW R, NEW N
    PROVE  SearchOK(G, R, N, <<>>, <<>>, <<>>, {}, <<>>, {})
<1>1. DOMAIN <<>> = {} /\ Range(<<>>) = {} /\ <<>> \in Seq(N) /\ Len(<<>>) = 0
  BY DEF Range
<1>2. Opened(<<>>, <<>>) = {}
  BY <1>1 DEF Opened
<1>3. NumbersOK(<<>>)
  BY <1>1, FS_EmptySet DEF NumbersOK
<1>4. PathOK(G, <<>>, <<>>)
  BY <1>1 DEF PathOK
<1>5. PartsOK(N, <<>>, <<>>, {}, <<>>)
  BY <1>1, <1>2 DEF PartsOK
<1>6. FoundOK(G, {}) /\ BestOK(R, N, {}, {})
  BY DEF FoundOK, BestOK
<1>7. LowOK(G, R, <<>>, <<>>, {}, {}, {}) /\ BackOK(R, <<>>, {}, {}) /\ ParentOK(G, <<>>, <<>>, {}, {})
  BY DEF LowOK, BackOK, ParentOK
<1>8. OrderOK(<<>>, {}, <<>>)
  BY DEF OrderOK
<1>. QED BY <1>1, <1>2, <1>3, <1>4, <1>5, <1>6, <1>7, <1>8 DEF SearchOK

LEMMA SearchBegins ==
    ASSUME SearchInv, ReadInv, pc \in AllNodesThere, pc' = "connect", nodes' \subseteq nodes,
           UNCHANGED search
    PROVE  SearchInv'
<1>1. nodes' \in SUBSET Nodes
  <2>1. NetworkGiven /\ streets = CutStreets /\ nodes = Ends(streets)
    BY DEF ReadInv, Reading, AllNodesThere
  <2>2. streets \in Seq(Street)
    BY <2>1, StreetsTyped
  <2>3. \A i \in DOMAIN streets : streets[i].u \in Nodes /\ streets[i].v \in Nodes
    <3>1. \A i \in DOMAIN streets : streets[i] \in Street
      BY <2>2
    <3>2. \A s \in Street : s.u \in Nodes /\ s.v \in Nodes
      BY DEF Street
    <3>. QED BY <3>1, <3>2
  <2>4. nodes \subseteq Nodes
    BY <2>1, <2>3 DEF Ends
  <2>. QED BY <2>4
<1>2. /\ queue' = <<>> /\ preorder' = <<>> /\ lowlink' = <<>> /\ scc_found' = {}
      /\ scc_queue' = <<>> /\ scc' = {}
  BY DEF SearchInv, search
<1>3. SearchOK(Pairs', Reach', nodes', queue', preorder', lowlink', scc_found', scc_queue', scc')
  BY <1>2, BeginsOK
<1>4. SearchOK(Pairs, Reach, nodes, queue, preorder, lowlink, scc_found, scc_queue, scc)'
  BY <1>3
<1>. QED BY <1>1, <1>4 DEF SearchInv, Reading, AllNodesThere

LEMMA SearchGoesOn ==
    ASSUME Searching, UNCHANGED <<pc, nodes, exported>>,
           SearchOK(Pairs, Reach, nodes, queue', preorder', lowlink', scc_found', scc_queue', scc')
    PROVE  SearchInv'
<1>1. Pairs' = Pairs
  BY DEF Pairs, Joined, Searching
<1>2. Reach' = Reach
  BY DEF Reach, Searching
<1>3. SearchOK(Pairs', Reach', nodes', queue', preorder', lowlink', scc_found', scc_queue', scc')
  BY <1>1, <1>2
<1>4. SearchOK(Pairs, Reach, nodes, queue, preorder, lowlink, scc_found, scc_queue, scc)'
  BY <1>3
<1>5. (nodes \in SUBSET Nodes)'
  BY DEF Searching
<1>. QED BY <1>4, <1>5 DEF SearchInv, Searching, Reading, AllNodesThere

LEMMA SearchingFacts ==
    ASSUME SearchInv, FrameInv, pc = "connect"
    PROVE  Searching
<1>1. /\ nodes \in SUBSET Nodes
      /\ SearchOK(Pairs, Reach, nodes, queue, preorder, lowlink, scc_found, scc_queue, scc)
  BY DEF SearchInv
<1>2. exported \in Seq(Range(exported)) /\ Ends(exported) \subseteq nodes
  BY DEF FrameInv
<1>3. IsFiniteSet(Nodes)
  BY NetworkAssumption
<1>4. IsFiniteSet(nodes)
  BY <1>1, <1>3, FS_Subset
<1>5. ReachOK(Pairs, Reach, nodes)
  <2>1. Joined(exported) \in SUBSET (nodes \X nodes)
    BY <1>2, JoinedFacts
  <2>. QED BY <1>1, <1>3, <2>1, ReachesOK DEF Pairs, Reach
<1>. QED BY <1>1, <1>2, <1>4, <1>5 DEF Searching

\* The invariant of the search holds in every state, for every network.
THEOREM SearchInvariant == ExportSpec => []SearchInv
<1>1. ExportInit => SearchInv
  BY DEF ExportInit, SimplifyInit, ReadInit, SearchInv
<1>2. SearchInv /\ FrameInv /\ ReadInv /\ [ExportNext]_vars => SearchInv'
  <2>. SUFFICES ASSUME SearchInv, FrameInv, ReadInv, [ExportNext]_vars PROVE SearchInv'
    OBVIOUS
  <2>1. CASE Read /\ UNCHANGED <<search, graph>>
    <3>1. pc \in Reading /\ pc' # "connect"
      BY <2>1 DEF Read, ReadNext, CreateWayGeometries, SliceToSegments, SliceFails, FilterByBox,
                  WholeFile, Reading
    <3>. QED BY <2>1, <3>1 DEF SearchInv, search
  <2>2. CASE (DirectEdges \/ DetectEndpoints \/ Extend \/ WalkEnds \/ RingsEnd) /\ UNCHANGED <<search, graph>>
    <3>1. pc \in AllNodesThere /\ pc' # "connect"
      BY <2>2 DEF DirectEdges, DetectEndpoints, Extend, WalkEnds, RingsEnd, AllNodesThere
    <3>. QED BY <2>2, <3>1 DEF SearchInv, search
  <2>3. ASSUME NEW r \in Rows, StartAtEndpoint(r) \/ StartRing(r), UNCHANGED <<search, graph>>
        PROVE  SearchInv'
    <3>1. pc \in AllNodesThere /\ pc' # "connect"
      BY <2>3 DEF StartAtEndpoint, StartRing, Start, AllNodesThere
    <3>. QED BY <2>3, <3>1 DEF SearchInv, search
  <2>4. CASE (SkipSimplify \/ Collapse) /\ UNCHANGED <<search, graph>>
    <3>1. pc \in AllNodesThere /\ pc' = "connect" /\ nodes' \subseteq nodes
      BY <2>4 DEF SkipSimplify, Collapse, AllNodesThere
    <3>. QED BY <2>4, <3>1, SearchBegins
  <2>5. CASE RetainAll \/ KeepLargest \/ ConnectFails \/ create_igraph \/ create_nxgraph
    <3>1. pc' \in {"export", "failed", "done"}
      BY <2>5 DEF RetainAll, KeepLargest, ConnectFails, create_igraph, create_nxgraph
    <3>. QED BY <3>1 DEF SearchInv, Reading, AllNodesThere
  <2>6. ASSUME NEW n \in Nodes, Source(n) PROVE SearchInv'
    <3>1. pc = "connect" /\ UNCHANGED <<pc, nodes, exported>>
      BY <2>6 DEF Source, simplify_vars, frames
    <3>. QED BY <2>6, <3>1, SearchingFacts, SourceSearches, SearchGoesOn
  <2>7. CASE Descend
    <3>1. pc = "connect" /\ UNCHANGED <<pc, nodes, exported>>
      BY <2>7 DEF Descend, simplify_vars, frames
    <3>. QED BY <2>7, <3>1, SearchingFacts, DescendSearches, SearchGoesOn
  <2>8. CASE Postpone
    <3>1. pc = "connect" /\ UNCHANGED <<pc, nodes, exported>>
      BY <2>8 DEF Postpone, Ascend, simplify_vars, frames
    <3>. QED BY <2>8, <3>1, SearchingFacts, PostponeSearches, SearchGoesOn
  <2>9. CASE CloseComponent
    <3>1. pc = "connect" /\ UNCHANGED <<pc, nodes, exported>>
      BY <2>9 DEF CloseComponent, Ascend, simplify_vars, frames
    <3>. QED BY <2>9, <3>1, SearchingFacts, CloseSearches, SearchGoesOn
  <2>10. CASE UNCHANGED vars
    <3>1. UNCHANGED <<pc, nodes, exported, search>>
      BY <2>10 DEF vars, simplify_vars, frames
    <3>2. CASE pc = "connect"
      <4>1. Searching
        BY <3>2, SearchingFacts
      <4>2. SearchOK(Pairs, Reach, nodes, queue', preorder', lowlink', scc_found', scc_queue', scc')
        BY <3>1, <4>1 DEF Searching, search
      <4>. QED BY <3>1, <4>1, <4>2, SearchGoesOn
    <3>3. CASE pc # "connect"
      BY <3>1, <3>3 DEF SearchInv, search
    <3>. QED BY <3>2, <3>3
  <2>. QED BY <2>1, <2>2, <2>3, <2>4, <2>5, <2>6, <2>7, <2>8, <2>9, <2>10
           DEF ExportNext, Simplify, SimplifyNext
<1>. QED BY <1>1, <1>2, FrameInvariant, ReadInvariant, PTL DEF ExportSpec

\* When the search ends, the component it kept is strongly connected, and no set of
\* nodes of the frames that reach each other has more nodes, whatever the streets are
\* and wherever the search began (graph_connectivity.py:29-80).
THEOREM LargestIsKept == ExportSpec => []LargestComponent
<1>1. SearchInv /\ FrameInv => LargestComponent
  <2>. SUFFICES ASSUME SearchInv, FrameInv, SearchEnds PROVE LargestComponent
    BY DEF LargestComponent
  <2>1. Searching /\ nodes \subseteq scc_found
    BY SearchingFacts DEF SearchEnds
  <2>2. BestOK(Reach, nodes, scc_found, scc) /\ scc_found \subseteq nodes
    <3>1. /\ BestOK(Reach, nodes, scc_found, scc)
          /\ PartsOK(nodes, queue, preorder, scc_found, scc_queue)
      BY <2>1 DEF Searching, SearchOK
    <3>. QED BY <3>1 DEF PartsOK
  <2>3. \A n \in nodes : Cardinality(Mutual(Reach, nodes, n)) <= Cardinality(scc)
    BY <2>1, <2>2 DEF BestOK
  <2>4. nodes # {} => \E n \in nodes : scc = Mutual(Reach, nodes, n)
    BY <2>1, <2>2 DEF BestOK
  <2>5. \A n : Mutual(Reach, nodes, n) = {m \in nodes : <<m, n>> \in Reach /\ <<n, m>> \in Reach}
    BY DEF Mutual
  <2>6. Reach = Reaches(exported)
    BY DEF Reach
  <2>. HIDE DEF Reach
  <2>. QED BY <2>3, <2>4, <2>5, <2>6 DEF LargestComponent
<1>. QED BY <1>1, SearchInvariant, FrameInvariant, PTL

-----------------------------------------------------------------------------
(***************************************************************************)
(* What simplification keeps of the ways between nodes, where no two       *)
(* streets lie between the same two nodes in one direction.                *)
(***************************************************************************)
Rowed == edges \in Seq(Street)
\* A walk that comes on row l goes on with row s; row f is row s in the other direction.
Follows(l, s) == edges[l].v = edges[s].u /\ edges[s].v # edges[l].u
Back(f, s) == edges[f].u = edges[s].v /\ edges[f].v = edges[s].u

\* At a node that is dropped every walk goes on in one way, and comes from one.
Goes ==
    /\ \A l \in Rows : edges[l].v \notin is_endpoint => \E s \in Rows : Follows(l, s)
    /\ \A s \in Rows : edges[s].u \notin is_endpoint => \E l \in Rows : Follows(l, s)
Passes ==
    \A l, s, r \in Rows :
        edges[l].v \notin is_endpoint /\ Follows(l, s) =>
            /\ edges[r].u = edges[l].v => edges[r].v = edges[s].v \/ edges[r].v = edges[l].u
            /\ edges[r].v = edges[l].v => edges[r].u = edges[s].v \/ edges[r].u = edges[l].u

LEMMA TwoOnly ==
    ASSUME NEW S, IsFiniteSet(S), Cardinality(S) = 2
    PROVE  /\ \A a, b, c \in S : a = b \/ b = c \/ a = c
           /\ \A a \in S : \E b \in S : b # a
<1>1. ASSUME NEW a \in S PROVE \E b \in S \ {a} : S \ {a} = {b}
  <2>1. IsFiniteSet(S \ {a}) /\ Cardinality(S \ {a}) = 1
    BY FS_RemoveElement
  <2>2. PICK b : S \ {a} = {b}
    BY <2>1, FS_Singleton
  <2>. QED BY <2>2
<1>2. \A a, b, c \in S : a = b \/ b = c \/ a = c
  <2>. SUFFICES ASSUME NEW a \in S, NEW b \in S, NEW c \in S, a # b, a # c PROVE b = c
    OBVIOUS
  <2>1. PICK d \in S \ {a} : S \ {a} = {d}
    BY <1>1
  <2>. QED BY <2>1
<1>3. \A a \in S : \E b \in S : b # a
  BY <1>1
<1>. QED BY <1>2, <1>3

LEMMA PairOf ==
    ASSUME NEW a, NEW b, a # b
    PROVE  Cardinality({a, b}) = 2
<1>1. IsFiniteSet({a}) /\ Cardinality({a}) = 1
  BY FS_Singleton
<1>2. {a, b} = {a} \cup {b} /\ b \notin {a}
  OBVIOUS
<1>. QED BY <1>1, <1>2, FS_AddElement

\* A node that is dropped has two neighbours, and an edge to one of them only if
\* it has one from the other.
LEMMA DroppedNode ==
    ASSUME Rowed, IsFiniteSet(Nodes), Apart, NEW x \in GraphNodes, x \notin detect_endpoints
    PROVE  /\ \A a, b, c \in Neighbours(x) : a = b \/ b = c \/ a = c
           /\ \A l \in In(x) : \E s \in Out(x) : edges[s].v # edges[l].u
           /\ \A s \in Out(x) : \E l \in In(x) : edges[l].u # edges[s].v
<1>1. ~ DeadEnd(x) /\ PassThrough(x)
  BY DEF detect_endpoints
<1>2. \A r \in Rows : edges[r].u \in Nodes /\ edges[r].v \in Nodes
  <2>1. \A r \in Rows : edges[r] \in Street
    BY DEF Rowed, Rows
  <2>2. \A s \in Street : s.u \in Nodes /\ s.v \in Nodes
    BY DEF Street
  <2>. QED BY <2>1, <2>2
<1>3. Neighbours(x) \subseteq Nodes
  BY <1>2 DEF Neighbours, In, Out
<1>4. IsFiniteSet(Neighbours(x)) /\ Cardinality(Neighbours(x)) = 2
  BY <1>1, <1>3, FS_Subset DEF PassThrough
<1>5. /\ \A a, b, c \in Neighbours(x) : a = b \/ b = c \/ a = c
      /\ \A a \in Neighbours(x) : \E b \in Neighbours(x) : b # a
  <2>. DEFINE S == Neighbours(x)
  <2>. HIDE DEF S
  <2>1. IsFiniteSet(S) /\ Cardinality(S) = 2
    BY <1>4 DEF S
  <2>2. /\ \A a, b, c \in S : a = b \/ b = c \/ a = c
        /\ \A a \in S : \E b \in S : b # a
    BY <2>1, TwoOnly
  <2>. QED BY <2>2 DEF S
<1>6. Cardinality(In(x)) + Cardinality(Out(x)) \in {2, 4}
  BY <1>1 DEF PassThrough
<1>7. In(x) # {} /\ Out(x) # {}
  BY <1>1 DEF DeadEnd
<1>8. /\ \A r \in Out(x) : r \in Rows /\ edges[r].u = x /\ edges[r].v \in Neighbours(x)
      /\ \A r \in In(x) : r \in Rows /\ edges[r].v = x /\ edges[r].u \in Neighbours(x)
      /\ \A n \in Neighbours(x) : \/ \E r \in Out(x) : n = edges[r].v
                                  \/ \E r \in In(x) : n = edges[r].u
  BY DEF In, Out, Neighbours
<1>9. /\ \A r, s \in Out(x) : edges[r].v = edges[s].v => r = s
      /\ \A r, s \in In(x) : edges[r].u = edges[s].u => r = s
  BY <1>8 DEF Apart
<1>10. ASSUME NEW l \in In(x), \A s \in Out(x) : edges[s].v = edges[l].u PROVE FALSE
  <2>1. PICK s \in Out(x) : TRUE
    BY <1>7
  <2>2. Out(x) = {s}
    BY <1>9, <1>10, <2>1
  <2>3. PICK z \in Neighbours(x) : z # edges[l].u
    BY <1>5, <1>8
  <2>4. PICK p \in In(x) : z = edges[p].u
    BY <1>8, <1>10, <2>3
  <2>5. In(x) = {l, p} /\ l # p
    BY <1>5, <1>8, <1>9, <2>3, <2>4
  <2>6. Cardinality(Out(x)) = 1
    BY <2>2, FS_Singleton
  <2>7. Cardinality({l, p}) = 2
    BY <2>5, PairOf
  <2>. QED BY <1>6, <2>5, <2>6, <2>7
<1>11. ASSUME NEW s \in Out(x), \A l \in In(x) : edges[l].u = edges[s].v PROVE FALSE
  <2>1. PICK l \in In(x) : TRUE
    BY <1>7
  <2>2. In(x) = {l}
    BY <1>9, <1>11, <2>1
  <2>3. PICK z \in Neighbours(x) : z # edges[s].v
    BY <1>5, <1>8
  <2>4. PICK p \in Out(x) : z = edges[p].v
    BY <1>8, <1>11, <2>3
  <2>5. Out(x) = {s, p} /\ s # p
    BY <1>5, <1>8, <1>9, <2>3, <2>4
  <2>6. Cardinality(In(x)) = 1
    BY <2>2, FS_Singleton
  <2>7. Cardinality({s, p}) = 2
    BY <2>5, PairOf
  <2>. QED BY <1>6, <2>5, <2>6, <2>7
<1>. QED BY <1>5, <1>10, <1>11

LEMMA PassesOK ==
    ASSUME Rowed, IsFiniteSet(Nodes), Apart, is_endpoint = detect_endpoints
    PROVE  Goes /\ Passes
<1>1. \A r \in Rows : edges[r].u \in GraphNodes /\ edges[r].v \in GraphNodes
  BY DEF GraphNodes
<1>2. ASSUME NEW l \in Rows, edges[l].v \notin is_endpoint PROVE \E s \in Rows : Follows(l, s)
  <2>. DEFINE x == edges[l].v
  <2>1. l \in In(x) /\ x \in GraphNodes /\ x \notin detect_endpoints
    BY <1>1, <1>2 DEF In
  <2>. HIDE DEF x
  <2>2. PICK s \in Out(x) : edges[s].v # edges[l].u
    BY <2>1, DroppedNode
  <2>. QED BY <2>2 DEF x, Out, Follows
<1>3. ASSUME NEW s \in Rows, edges[s].u \notin is_endpoint PROVE \E l \in Rows : Follows(l, s)
  <2>. DEFINE x == edges[s].u
  <2>1. s \in Out(x) /\ x \in GraphNodes /\ x \notin detect_endpoints
    BY <1>1, <1>3 DEF Out
  <2>. HIDE DEF x
  <2>2. PICK l \in In(x) : edges[l].u # edges[s].v
    BY <2>1, DroppedNode
  <2>. QED BY <2>2 DEF x, In, Follows
<1>4. ASSUME NEW l \in Rows, NEW s \in Rows, NEW r \in Rows, edges[l].v \notin is_endpoint, Follows(l, s)
      PROVE  /\ edges[r].u = edges[l].v => edges[r].v = edges[s].v \/ edges[r].v = edges[l].u
             /\ edges[r].v = edges[l].v => edges[r].u = edges[s].v \/ edges[r].u = edges[l].u
  <2>. DEFINE x == edges[l].v
  <2>1. x \in GraphNodes /\ x \notin detect_endpoints
    BY <1>1, <1>4
  <2>2. /\ edges[l].u \in Neighbours(x) /\ edges[s].v \in Neighbours(x) /\ edges[s].v # edges[l].u
        /\ edges[r].u = x => edges[r].v \in Neighbours(x)
        /\ edges[r].v = x => edges[r].u \in Neighbours(x)
    BY <1>4 DEF Neighbours, In, Out, Follows
  <2>. HIDE DEF x
  <2>3. \A a, b, c \in Neighbours(x) : a = b \/ b = c \/ a = c
    BY <2>1, DroppedNode
  <2>. QED BY <2>2, <2>3 DEF x
<1>. QED BY <1>2, <1>3, <1>4 DEF Goes, Passes

\* So no two rows are followed by one, no row is followed by two, and on the way back
\* a walk meets the same nodes.
LEMMA FollowsOne ==
    ASSUME Apart, Passes, NEW l \in Rows, NEW s \in Rows, Follows(l, s), edges[l].v \notin is_endpoint
    PROVE  /\ \A t \in Rows : Follows(l, t) => t = s
           /\ \A m \in Rows : Follows(m, s) => m = l
           /\ \A f, g \in Rows : Back(f, s) /\ Follows(f, g) => Back(g, l)
<1>1. \A r \in Rows : /\ edges[r].u = edges[l].v => edges[r].v = edges[s].v \/ edges[r].v = edges[l].u
                      /\ edges[r].v = edges[l].v => edges[r].u = edges[s].v \/ edges[r].u = edges[l].u
  BY DEF Passes
<1>. QED BY <1>1 DEF Apart, Follows, Back
-----------------------------------------------------------------------------
\* A chain of ch that starts at a dropped node is a ring: the row at its end leads on
\* to its first.  Any other chain ends at a node that is kept.
StartOf(ch, k) == edges[ch[k][1]].u
EndRow(ch, k) == ch[k][Len(ch[k])]
Ring(ch, k) == StartOf(ch, k) \notin is_endpoint
Ended(ch, k) ==
    IF Ring(ch, k) THEN Follows(EndRow(ch, k), ch[k][1])
    ELSE edges[EndRow(ch, k)].v \in is_endpoint
\* No ring comes to a node that is kept.
RingRows(ch) ==
    \A k \in DOMAIN ch : Ring(ch, k) => \A a \in DOMAIN ch[k] : edges[ch[k][a]].v \notin is_endpoint
\* A ring starts at the node of it that comes first in u.
Rank(n) == First(Out(n))
OwnRank(ch) ==
    \A k \in DOMAIN ch : Ring(ch, k) =>
        \A a \in DOMAIN ch[k] : Rank(StartOf(ch, k)) <= Rank(edges[ch[k][a]].u)
LastRank(ch, rest) ==
    ch # <<>> /\ Ring(ch, Len(ch)) => \A r \in rest : Rank(StartOf(ch, Len(ch))) <= Rank(edges[r].u)
\* No row that is left comes to a node that is kept.
RestRings(rest) == \A r \in rest : edges[r].v \notin is_endpoint
NoRings(ch) == \A k \in DOMAIN ch : ~ Ring(ch, k)
AllEnded(ch) == \A k \in DOMAIN ch : Ended(ch, k)

\* The rows in chains, with what WalkInv says of them.
Chained(ch, rest) ==
    /\ ch \in Seq(Seq(Rows)) /\ rest \subseteq Rows
    /\ \A k \in DOMAIN ch : ch[k] # <<>>
    /\ \A j, k \in DOMAIN ch : \A a \in DOMAIN ch[j], b \in DOMAIN ch[k] :
         ch[j][a] = ch[k][b] => (j = k /\ a = b)
    /\ \A r \in Rows : r \notin rest <=> \E k \in DOMAIN ch : \E a \in DOMAIN ch[k] : ch[k][a] = r
    /\ \A k \in DOMAIN ch : \A a \in 1..Len(ch[k]) - 1 :
         Follows(ch[k][a], ch[k][a + 1]) /\ edges[ch[k][a]].v \notin is_endpoint

LEMMA ChainedFacts ==
    ASSUME NEW ch, NEW rest, Chained(ch, rest)
    PROVE  /\ Len(ch) \in Nat /\ DOMAIN ch = 1..Len(ch)
           /\ \A k \in DOMAIN ch :
                /\ Len(ch[k]) \in Nat \ {0} /\ DOMAIN ch[k] = 1..Len(ch[k])
                /\ 1 \in DOMAIN ch[k] /\ Len(ch[k]) \in DOMAIN ch[k]
                /\ \A a \in DOMAIN ch[k] : ch[k][a] \in Rows
<1>1. ch \in Seq(Seq(Rows)) /\ \A k \in DOMAIN ch : ch[k] # <<>>
  BY DEF Chained
<1>2. Len(ch) \in Nat /\ DOMAIN ch = 1..Len(ch)
  BY <1>1
<1>3. ASSUME NEW k \in DOMAIN ch
      PROVE  /\ Len(ch[k]) \in Nat \ {0} /\ DOMAIN ch[k] = 1..Len(ch[k])
             /\ 1 \in DOMAIN ch[k] /\ Len(ch[k]) \in DOMAIN ch[k]
             /\ \A a \in DOMAIN ch[k] : ch[k][a] \in Rows
  <2>. DEFINE c == ch[k]
  <2>1. c \in Seq(Rows) /\ c # <<>>
    BY <1>1, <1>2
  <2>. HIDE DEF c
  <2>2. /\ Len(c) \in Nat \ {0} /\ DOMAIN c = 1..Len(c)
        /\ 1 \in DOMAIN c /\ Len(c) \in DOMAIN c
        /\ \A a \in DOMAIN c : c[a] \in Rows
    BY <2>1
  <2>. QED BY <2>2 DEF c
<1>. QED BY <1>2, <1>3

\* What follows the end of a chain, and is in a chain, is the first row of that chain.
LEMMA EndMeetsStart ==
    ASSUME Apart, Passes, NEW ch, NEW rest, Chained(ch, rest),
           NEW k \in DOMAIN ch, NEW s \in Rows \ rest,
           Follows(EndRow(ch, k), s), edges[EndRow(ch, k)].v \notin is_endpoint,
           \A j \in DOMAIN ch \ {k} : Ended(ch, j)
    PROVE  s = ch[k][1] /\ Ring(ch, k)
<1>. DEFINE l == EndRow(ch, k)
<1>1. /\ \A j, i \in DOMAIN ch : \A a \in DOMAIN ch[j], b \in DOMAIN ch[i] :
           ch[j][a] = ch[i][b] => (j = i /\ a = b)
      /\ \A j \in DOMAIN ch : \A a \in 1..Len(ch[j]) - 1 :
           Follows(ch[j][a], ch[j][a + 1]) /\ edges[ch[j][a]].v \notin is_endpoint
  BY DEF Chained
<1>2. \A j \in DOMAIN ch :
        /\ Len(ch[j]) \in Nat \ {0} /\ DOMAIN ch[j] = 1..Len(ch[j])
        /\ 1 \in DOMAIN ch[j] /\ Len(ch[j]) \in DOMAIN ch[j]
        /\ \A a \in DOMAIN ch[j] : ch[j][a] \in Rows
  BY ChainedFacts
<1>3. l \in Rows
  BY <1>2 DEF EndRow
<1>4. \A m \in Rows : Follows(m, s) => m = l
  BY <1>3, FollowsOne
<1>5. PICK j \in DOMAIN ch : \E b \in DOMAIN ch[j] : ch[j][b] = s
  BY DEF Chained
<1>6. PICK b \in DOMAIN ch[j] : ch[j][b] = s
  BY <1>5
<1>7. b = 1
  <2>. SUFFICES ASSUME b # 1 PROVE FALSE
    OBVIOUS
  <2>. DEFINE a == b - 1
  <2>1. a \in 1..Len(ch[j]) - 1 /\ a + 1 = b /\ a \in DOMAIN ch[j] /\ a # Len(ch[j])
    BY <1>2
  <2>. HIDE DEF a
  <2>2. Follows(ch[j][a], s) /\ ch[j][a] \in Rows
    BY <1>1, <1>2, <1>6, <2>1
  <2>3. ch[j][a] = l
    BY <1>4, <2>2
  <2>. QED BY <1>1, <1>2, <2>1, <2>3 DEF EndRow
<1>8. Ring(ch, j)
  BY <1>6, <1>7 DEF Ring, StartOf, Follows
<1>9. j = k
  <2>. SUFFICES ASSUME j # k PROVE FALSE
    OBVIOUS
  <2>1. Follows(EndRow(ch, j), s)
    BY <1>6, <1>7, <1>8 DEF Ended
  <2>2. EndRow(ch, j) = l
    BY <1>2, <1>4, <2>1 DEF EndRow
  <2>. QED BY <1>1, <1>2, <2>2 DEF EndRow
<1>. QED BY <1>6, <1>7, <1>8, <1>9

\* A walk that cannot go on has come to a node that is kept or back to its start.
LEMMA WalkStops ==
    ASSUME Apart, Goes, Passes, NEW ch, NEW rest, Chained(ch, rest), ch # <<>>,
           RingRows(ch), \A j \in 1..Len(ch) - 1 : Ended(ch, j),
           \/ edges[EndRow(ch, Len(ch))].v \in is_endpoint
           \/ \A s \in rest : ~ Follows(EndRow(ch, Len(ch)), s)
    PROVE  AllEnded(ch)
<1>. DEFINE k == Len(ch)
            l == EndRow(ch, k)
<1>1. k \in Nat /\ DOMAIN ch = 1..k /\ k \in DOMAIN ch /\ Len(ch[k]) \in DOMAIN ch[k] /\ l \in Rows
  <2>1. Len(ch) \in Nat /\ DOMAIN ch = 1..Len(ch)
    BY ChainedFacts
  <2>2. Len(ch) # 0
    BY DEF Chained
  <2>3. k \in DOMAIN ch
    BY <2>1, <2>2
  <2>4. Len(ch[k]) \in DOMAIN ch[k] /\ \A a \in DOMAIN ch[k] : ch[k][a] \in Rows
    BY <2>3, ChainedFacts
  <2>. QED BY <2>1, <2>3, <2>4 DEF EndRow
<1>2. \A j \in DOMAIN ch : j = k \/ Ended(ch, j)
  <2>1. \A j \in 1..k : j = k \/ j \in 1..k - 1
    <3>1. k \in Nat
      BY <1>1
    <3>. HIDE DEF k
    <3>. QED BY <3>1
  <2>. QED BY <1>1, <2>1
<1>3. Ring(ch, k) => edges[l].v \notin is_endpoint
  BY <1>1 DEF RingRows, EndRow
<1>. HIDE DEF k, l
<1>4. CASE edges[l].v \in is_endpoint
  <2>1. Ended(ch, k)
    BY <1>3, <1>4 DEF Ended, l
  <2>. QED BY <1>2, <2>1 DEF AllEnded
<1>5. CASE edges[l].v \notin is_endpoint
  <2>1. PICK s \in Rows : Follows(l, s)
    BY <1>1, <1>5 DEF Goes
  <2>2. s \notin rest
    BY <1>5, <2>1 DEF k, l
  <2>3. s = ch[k][1] /\ Ring(ch, k)
    BY <1>1, <1>2, <1>5, <2>1, <2>2, EndMeetsStart DEF l
  <2>4. Ended(ch, k)
    BY <2>1, <2>3 DEF Ended, l
  <2>. QED BY <1>2, <2>4 DEF AllEnded
<1>. QED BY <1>4, <1>5

\* When all rows from kept nodes are walked, those that are left lie on rings: each is
\* followed by one that is left.
LEMMA RestIsRings ==
    ASSUME Apart, Goes, Passes, NEW ch, NEW rest, Chained(ch, rest), IsFiniteSet(rest),
           NoRings(ch), AllEnded(ch), \A r \in rest : edges[r].u \notin is_endpoint
    PROVE  RestRings(rest)
<1>0. /\ rest \subseteq Rows
      /\ \A r \in Rows : r \notin rest <=> \E k \in DOMAIN ch : \E a \in DOMAIN ch[k] : ch[k][a] = r
      /\ \A j \in DOMAIN ch : \A a \in 1..Len(ch[j]) - 1 :
           Follows(ch[j][a], ch[j][a + 1]) /\ edges[ch[j][a]].v \notin is_endpoint
  BY DEF Chained
<1>1. ASSUME NEW r \in rest PROVE \E p \in rest : Follows(p, r)
  <2>1. PICK p \in Rows : Follows(p, r)
    BY <1>0 DEF Goes
  <2>2. edges[p].v \notin is_endpoint
    BY <2>1 DEF Follows
  <2>3. p \in rest
    <3>. SUFFICES ASSUME p \notin rest PROVE FALSE
      OBVIOUS
    <3>1. PICK k \in DOMAIN ch : \E a \in DOMAIN ch[k] : ch[k][a] = p
      BY <1>0
    <3>2. PICK a \in DOMAIN ch[k] : ch[k][a] = p
      BY <3>1
    <3>3. Len(ch[k]) \in Nat /\ DOMAIN ch[k] = 1..Len(ch[k]) /\ \A b \in DOMAIN ch[k] : ch[k][b] \in Rows
      BY ChainedFacts
    <3>4. a # Len(ch[k])
      BY <2>2, <3>2 DEF NoRings, AllEnded, Ended, EndRow
    <3>5. a \in 1..Len(ch[k]) - 1 /\ a + 1 \in DOMAIN ch[k]
      BY <3>3, <3>4
    <3>6. Follows(p, ch[k][a + 1]) /\ ch[k][a + 1] \in Rows /\ ch[k][a + 1] \notin rest
      BY <1>0, <3>2, <3>3, <3>5
    <3>7. ch[k][a + 1] = r
      BY <1>0, <2>1, <2>2, <3>6, FollowsOne
    <3>. QED BY <3>6, <3>7
  <2>. QED BY <2>1, <2>3
<1>. DEFINE before == [r \in rest |-> CHOOSE p \in rest : Follows(p, r)]
<1>2. \A r \in rest : before[r] \in rest /\ Follows(before[r], r)
  BY <1>1
<1>3. before \in [rest -> rest]
  BY <1>2
<1>. HIDE DEF before
<1>4. \A r, s \in rest : before[r] = before[s] => r = s
  <2>. SUFFICES ASSUME NEW r \in rest, NEW s \in rest, before[r] = before[s] PROVE r = s
    OBVIOUS
  <2>1. before[r] \in Rows /\ r \in Rows /\ s \in Rows /\ Follows(before[r], r) /\ Follows(before[r], s)
    BY <1>0, <1>2
  <2>2. edges[before[r]].v \notin is_endpoint
    BY <2>1 DEF Follows
  <2>. QED BY <2>1, <2>2, FollowsOne
<1>5. before \in Surjection(rest, rest)
  <2>1. before \in Injection(rest, rest)
    BY <1>3, <1>4 DEF Injection, IsInjective
  <2>. QED BY <2>1, FS_Injection
<1>6. ASSUME NEW p \in rest PROVE edges[p].v \notin is_endpoint
  <2>1. PICK r \in rest : before[r] = p
    BY <1>5 DEF Surjection
  <2>. QED BY <1>2, <2>1 DEF Follows
<1>. QED BY <1>6 DEF RestRings
-----------------------------------------------------------------------------
LEMMA RankFacts ==
    ASSUME NEW r \in Rows, Rowed
    PROVE  LET n == edges[r].u IN Rank(n) \in Nat /\ Rank(n) \in Rows /\ edges[Rank(n)].u = n
<1>. DEFINE n == edges[r].u
<1>1. Out(n) \in SUBSET Nat /\ Out(n) # {}
  BY DEF Out, Rows, Rowed
<1>2. \E s \in Out(n) : \A t \in Out(n) : s <= t
  BY <1>1, LeastNat
<1>3. First(Out(n)) \in Out(n)
  BY <1>2 DEF First
<1>. QED BY <1>1, <1>3 DEF Rank, Out

\* What the chains are while the walk goes on, but for the one in hand.
Ringed(ch, rest) == RingRows(ch) /\ OwnRank(ch) /\ \A j \in 1..Len(ch) - 1 : Ended(ch, j)

LEMMA AddChain ==
    ASSUME Rowed, NEW ch, NEW rest, Chained(ch, rest), Ringed(ch, rest), AllEnded(ch), NEW r \in rest,
           edges[r].u \notin is_endpoint => edges[r].v \notin is_endpoint
    PROVE  Ringed(Append(ch, <<r>>), rest \ {r})
<1>. DEFINE n == Len(ch)
            ch2 == Append(ch, <<r>>)
<1>1. ch \in Seq(Seq(Rows)) /\ r \in Rows
  BY DEF Chained
<1>2. n \in Nat /\ DOMAIN ch = 1..n
  BY <1>1
<1>3. /\ Len(ch2) = n + 1 /\ DOMAIN ch2 = 1..n + 1 /\ ch2[n + 1] = <<r>>
      /\ \A k \in 1..n : ch2[k] = ch[k]
  BY <1>1
<1>4. DOMAIN <<r>> = {1} /\ <<r>>[1] = r
  OBVIOUS
<1>5. \A k \in 1..n + 1 : k \in 1..n \/ k = n + 1
  BY <1>2
<1>. HIDE DEF ch2, n
<1>6. \A k \in 1..n : /\ StartOf(ch2, k) = StartOf(ch, k) /\ (Ring(ch2, k) <=> Ring(ch, k))
                      /\ (Ended(ch2, k) <=> Ended(ch, k))
  BY <1>3 DEF StartOf, Ring, Ended, EndRow
<1>7. StartOf(ch2, n + 1) = edges[r].u
  BY <1>3, <1>4 DEF StartOf
<1>8. RingRows(ch2)
  <2>. SUFFICES ASSUME NEW k \in 1..n + 1, Ring(ch2, k), NEW a \in DOMAIN ch2[k]
                PROVE  edges[ch2[k][a]].v \notin is_endpoint
    BY <1>3 DEF RingRows
  <2>1. CASE k \in 1..n
    BY <1>2, <1>3, <1>6, <2>1 DEF Ringed, RingRows
  <2>2. CASE k = n + 1
    <3>1. ch2[k][a] = r
      BY <1>3, <1>4, <2>2
    <3>. QED BY <1>7, <2>2, <3>1 DEF Ring
  <2>. QED BY <1>5, <2>1, <2>2
<1>9. OwnRank(ch2)
  <2>. SUFFICES ASSUME NEW k \in 1..n + 1, Ring(ch2, k), NEW a \in DOMAIN ch2[k]
                PROVE  Rank(StartOf(ch2, k)) <= Rank(edges[ch2[k][a]].u)
    BY <1>3 DEF OwnRank
  <2>1. CASE k \in 1..n
    BY <1>2, <1>3, <1>6, <2>1 DEF Ringed, OwnRank
  <2>2. CASE k = n + 1
    <3>1. ch2[k][a] = r
      BY <1>3, <1>4, <2>2
    <3>2. Rank(edges[r].u) \in Nat
      BY <1>1, RankFacts
    <3>. QED BY <1>7, <2>2, <3>1, <3>2
  <2>. QED BY <1>5, <2>1, <2>2
<1>10. \A j \in 1..Len(ch2) - 1 : Ended(ch2, j)
  <2>1. Len(ch2) - 1 = n
    BY <1>2, <1>3
  <2>. QED BY <1>2, <1>6, <2>1 DEF AllEnded
<1>. QED BY <1>8, <1>9, <1>10 DEF Ringed, ch2

\* The last chain goes on with a row that is left.
Longer(ch, r) == [ch EXCEPT ![Len(ch)] = Append(@, r)]
LEMMA GrowChain ==
    ASSUME Rowed, NEW ch, NEW rest, Chained(ch, rest), ch # <<>>, Ringed(ch, rest), LastRank(ch, rest),
           NEW r \in rest, Ring(ch, Len(ch)) => edges[r].v \notin is_endpoint
    PROVE  /\ Ringed(Longer(ch, r), rest \ {r})
           /\ Len(Longer(ch, r)) = Len(ch) /\ Longer(ch, r) # <<>>
           /\ \A k \in DOMAIN Longer(ch, r) : k \in DOMAIN ch /\ StartOf(Longer(ch, r), k) = StartOf(ch, k)
<1>. DEFINE n == Len(ch)
            c == ch[n]
            l == Len(c)
            d == Append(c, r)
            ch2 == Longer(ch, r)
<1>1. ch \in Seq(Seq(Rows)) /\ r \in Rows
  BY DEF Chained
<1>2. n \in Nat \ {0} /\ DOMAIN ch = 1..n /\ n \in DOMAIN ch
  BY <1>1
<1>3. c \in Seq(Rows) /\ l \in Nat \ {0} /\ DOMAIN c = 1..l
  <2>1. c \in Seq(Rows)
    BY <1>1, <1>2
  <2>2. \A k \in DOMAIN ch : ch[k] # <<>>
    BY DEF Chained
  <2>3. c # <<>>
    BY <1>2, <2>2
  <2>. HIDE DEF c
  <2>. QED BY <2>1, <2>3
<1>. HIDE DEF c, l, n
<1>4. /\ DOMAIN d = 1..l + 1 /\ d[l + 1] = r /\ \A a \in 1..l : d[a] = c[a]
  BY <1>1, <1>3 DEF l
<1>. HIDE DEF d
<1>5. /\ DOMAIN ch2 = 1..n /\ ch2[n] = d /\ \A k \in 1..n : k # n => ch2[k] = ch[k]
  <2>1. ch2 = [ch EXCEPT ![n] = d]
    BY DEF d, c, n, Longer
  <2>. QED BY <1>2, <2>1
<1>6. Len(ch2) = n /\ ch2 # <<>>
  <2>1. ch2 \in [1..n -> Seq(Rows)]
    <3>1. d \in Seq(Rows)
      BY <1>1, <1>3 DEF d
    <3>2. ch2 = [ch EXCEPT ![n] = d] /\ ch \in [1..n -> Seq(Rows)]
      BY <1>1, <1>2 DEF d, c, n, Longer
    <3>. QED BY <3>1, <3>2
  <2>2. ch2 \in Seq(Seq(Rows)) /\ Len(ch2) = n
    BY <1>2, <2>1
  <2>. QED BY <1>2, <2>2
<1>. HIDE DEF ch2
<1>7. 1 \in 1..l /\ d[1] = c[1] /\ c = ch[n] /\ n \in 1..n
  BY <1>2, <1>3, <1>4 DEF c
<1>8. \A k \in 1..n : StartOf(ch2, k) = StartOf(ch, k) /\ (Ring(ch2, k) <=> Ring(ch, k))
  <2>. SUFFICES ASSUME NEW k \in 1..n PROVE ch2[k][1] = ch[k][1]
    BY DEF StartOf, Ring
  <2>. QED BY <1>5, <1>7
<1>9. RingRows(ch2)
  <2>. SUFFICES ASSUME NEW k \in 1..n, Ring(ch2, k), NEW a \in DOMAIN ch2[k]
                PROVE  edges[ch2[k][a]].v \notin is_endpoint
    BY <1>5 DEF RingRows
  <2>0. \A b \in DOMAIN ch[k] : edges[ch[k][b]].v \notin is_endpoint
    BY <1>2, <1>8 DEF Ringed, RingRows
  <2>1. CASE k # n
    BY <1>5, <2>0, <2>1
  <2>2. CASE k = n
    <3>1. a = l + 1 \/ a \in 1..l
      BY <1>3, <1>4, <1>5, <2>2
    <3>2. CASE a = l + 1
      BY <1>4, <1>5, <1>8, <2>2, <3>2 DEF n
    <3>3. CASE a \in 1..l
      BY <1>3, <1>4, <1>5, <1>7, <2>0, <2>2, <3>3
    <3>. QED BY <3>1, <3>2, <3>3
  <2>. QED BY <2>1, <2>2
<1>10. OwnRank(ch2)
  <2>. SUFFICES ASSUME NEW k \in 1..n, Ring(ch2, k), NEW a \in DOMAIN ch2[k]
                PROVE  Rank(StartOf(ch2, k)) <= Rank(edges[ch2[k][a]].u)
    BY <1>5 DEF OwnRank
  <2>0. \A b \in DOMAIN ch[k] : Rank(StartOf(ch, k)) <= Rank(edges[ch[k][b]].u)
    BY <1>2, <1>8 DEF Ringed, OwnRank
  <2>1. CASE k # n
    BY <1>5, <1>8, <2>0, <2>1
  <2>2. CASE k = n
    <3>1. a = l + 1 \/ a \in 1..l
      BY <1>3, <1>4, <1>5, <2>2
    <3>2. CASE a = l + 1
      <4>1. ch2[k][a] = r
        BY <1>4, <1>5, <2>2, <3>2
      <4>2. Ring(ch, Len(ch)) /\ StartOf(ch2, k) = StartOf(ch, Len(ch))
        BY <1>8, <2>2 DEF n
      <4>. QED BY <4>1, <4>2 DEF LastRank
    <3>3. CASE a \in 1..l
      <4>1. ch2[k][a] = ch[k][a] /\ a \in DOMAIN ch[k] /\ StartOf(ch2, k) = StartOf(ch, k)
        BY <1>3, <1>4, <1>5, <1>7, <1>8, <2>2, <3>3
      <4>. QED BY <2>0, <4>1
    <3>. QED BY <3>1, <3>2, <3>3
  <2>. QED BY <2>1, <2>2
<1>11. \A j \in 1..Len(ch2) - 1 : Ended(ch2, j)
  <2>. SUFFICES ASSUME NEW j \in 1..n - 1 PROVE Ended(ch2, j)
    BY <1>6
  <2>1. j \in 1..n /\ j # n
    BY <1>2
  <2>2. Ended(ch, j)
    BY DEF Ringed, n
  <2>. QED BY <1>5, <1>8, <2>1, <2>2 DEF Ended, EndRow
<1>. QED BY <1>2, <1>5, <1>6, <1>8, <1>9, <1>10, <1>11 DEF Ringed, n, ch2
-----------------------------------------------------------------------------
(***************************************************************************)
(* What the walk knows of its chains.                                      *)
(***************************************************************************)
Unwalked == Rows \ visited
RingsWalked == RingRows(chains) /\ OwnRank(chains) /\ AllEnded(chains) /\ FromEndpoints = {}
ChainsExported ==
    /\ Rowed /\ is_endpoint = detect_endpoints
    /\ DOMAIN exported = DOMAIN chains
    /\ \A k \in DOMAIN chains : exported[k].u = StartOf(chains, k) /\ exported[k].v = edges[EndRow(chains, k)].v
    /\ nodes \subseteq Ends(exported)
RingInv ==
    Apart =>
        /\ pc = "walk" => Ringed(chains, Unwalked) /\ NoRings(chains)
        /\ pc = "rings" => /\ Ringed(chains, Unwalked) /\ RestRings(Unwalked) /\ LastRank(chains, Unwalked)
                           /\ FromEndpoints = {}
        /\ pc = "collapse" => RingsWalked
        /\ pc = "connect" /\ chains # <<>> => RingsWalked /\ ChainsExported

LEMMA ChainedNow ==
    ASSUME WalkInv
    PROVE  Chained(chains, Unwalked)
<1>1. /\ visited \subseteq Rows /\ chains \in Seq(Seq(Rows))
      /\ \A k \in DOMAIN chains : chains[k] # <<>>
  BY DEF WalkInv, ChainsTyped
<1>2. \A j, k \in DOMAIN chains : \A a \in DOMAIN chains[j], b \in DOMAIN chains[k] :
         chains[j][a] = chains[k][b] => (j = k /\ a = b)
  BY DEF WalkInv, OnePlace
<1>3. \A r \in Rows : r \notin Unwalked <=> \E k \in DOMAIN chains : \E a \in DOMAIN chains[k] : chains[k][a] = r
  BY DEF WalkInv, Marked, Unwalked
<1>4. \A k \in DOMAIN chains : \A a \in 1..Len(chains[k]) - 1 :
         Follows(chains[k][a], chains[k][a + 1]) /\ edges[chains[k][a]].v \notin is_endpoint
  BY DEF WalkInv, ChainsPassThrough, Follows
<1>5. Unwalked \subseteq Rows
  BY DEF Unwalked
<1>. QED BY <1>1, <1>2, <1>3, <1>4, <1>5 DEF Chained

LEMMA RowsNow ==
    ASSUME FrameInv, pc \in Walking
    PROVE  Rowed /\ is_endpoint = detect_endpoints
<1>1. edges \in Seq(Directed) /\ is_endpoint = detect_endpoints
  BY DEF FrameInv, WithRows, Walking
<1>2. Directed \subseteq Street
  BY DEF Directed
<1>3. edges \in Seq(Street)
  BY <1>1, <1>2
<1>. QED BY <1>1, <1>3 DEF Rowed

\* Where no chain grows, all have come to their end.
LEMMA EndedNow ==
    ASSUME WalkInv, FrameInv, Apart, pc \in Walking, Ringed(chains, Unwalked), ~ Growing
    PROVE  Goes /\ Passes /\ AllEnded(chains)
<1>1. Rowed /\ is_endpoint = detect_endpoints
  BY RowsNow
<1>2. Goes /\ Passes
  BY <1>1, PassesOK, NetworkAssumption
<1>3. Chained(chains, Unwalked)
  BY ChainedNow
<1>4. CASE chains = <<>>
  BY <1>2, <1>4 DEF AllEnded
<1>5. CASE chains # <<>>
  <2>. DEFINE l == EndRow(chains, Len(chains))
  <2>1. prev = edges[l].u /\ cur = edges[l].v
    BY <1>5 DEF WalkInv, AtItsEnd, EndRow
  <2>. HIDE DEF l
  <2>2. \/ edges[l].v \in is_endpoint
        \/ \A s \in Unwalked : ~ Follows(l, s)
    BY <1>5, <2>1 DEF Growing, Onward, Follows, Unwalked, Out
  <2>3. RingRows(chains) /\ \A j \in 1..Len(chains) - 1 : Ended(chains, j)
    BY DEF Ringed
  <2>. QED BY <1>2, <1>3, <1>5, <2>2, <2>3, WalkStops DEF l
<1>. QED BY <1>4, <1>5

LEMMA RingTerms ==
    ASSUME UNCHANGED <<network, edges, is_endpoint>>
    PROVE  /\ Apart' = Apart /\ Rowed' = Rowed /\ detect_endpoints' = detect_endpoints
           /\ Unwalked' = Rows \ visited'
           /\ FromEndpoints' = {r \in Rows \ visited' : edges[r].u \in is_endpoint}
           /\ RingRows(chains)' = RingRows(chains') /\ OwnRank(chains)' = OwnRank(chains')
           /\ AllEnded(chains)' = AllEnded(chains') /\ NoRings(chains)' = NoRings(chains')
           /\ Ringed(chains, Unwalked)' = Ringed(chains', Unwalked')
           /\ LastRank(chains, Unwalked)' = LastRank(chains', Unwalked')
           /\ RestRings(Unwalked)' = RestRings(Unwalked')
<1>1. Apart' = Apart /\ Rowed' = Rowed /\ Unwalked' = Rows \ visited'
  BY DEF Apart, Rowed, Rows, Unwalked
<1>2. detect_endpoints' = detect_endpoints
  BY DEF detect_endpoints, SelfLoop, DeadEnd, PassThrough, Disagree, Neighbours, In, Out, GraphNodes, Rows
<1>3. FromEndpoints' = {r \in Rows \ visited' : edges[r].u \in is_endpoint}
  BY DEF FromEndpoints, Rows
<1>4. \A n : Rank(n)' = Rank(n)
  BY DEF Rank, First, Out, Rows
<1>5. RingRows(chains)' = RingRows(chains') /\ NoRings(chains)' = NoRings(chains')
      /\ RestRings(Unwalked)' = RestRings(Unwalked')
  BY DEF RingRows, NoRings, RestRings, Ring, StartOf
<1>6. OwnRank(chains)' = OwnRank(chains') /\ LastRank(chains, Unwalked)' = LastRank(chains', Unwalked')
  BY <1>4 DEF OwnRank, LastRank, Ring, StartOf
<1>7. \A k : Ended(chains, k)' = Ended(chains', k)
  BY DEF Ended, Ring, StartOf, EndRow, Follows
<1>8. AllEnded(chains)' = AllEnded(chains')
  BY <1>7 DEF AllEnded
<1>9. Ringed(chains, Unwalked)' = Ringed(chains', Unwalked')
  BY <1>5, <1>6, <1>7 DEF Ringed
<1>. QED BY <1>1, <1>2, <1>3, <1>5, <1>6, <1>8, <1>9

\* Most steps leave the chains as they are.
LEMMA RingStays ==
    ASSUME RingInv, UNCHANGED <<network, edges, is_endpoint, chains, visited>>,
           pc' \in Walking \cup {"connect"} => pc' = pc,
           pc' = "connect" => UNCHANGED <<nodes, exported>>
    PROVE  RingInv'
<1>1. Unwalked' = Unwalked /\ FromEndpoints' = FromEndpoints
  BY DEF Unwalked, Rows, FromEndpoints
<1>2. RingsWalked' = RingsWalked
  BY <1>1, RingTerms DEF RingsWalked
<1>3. pc' = "connect" => ChainsExported' = ChainsExported
  <2>. SUFFICES ASSUME pc' = "connect" PROVE ChainsExported' = ChainsExported
    OBVIOUS
  <2>1. Ends(exported)' = Ends(exported)
    BY DEF Ends
  <2>2. Rowed' = Rowed /\ detect_endpoints' = detect_endpoints
    BY RingTerms
  <2>. QED BY <2>1, <2>2 DEF ChainsExported, StartOf, EndRow
<1>. QED BY <1>1, <1>2, <1>3, RingTerms DEF RingInv, Walking

LEMMA DetectRings ==
    ASSUME WalkInv, DetectEndpoints
    PROVE  RingInv'
<1>1. pc = "detect" /\ pc' = "walk" /\ chains' = chains /\ chains = <<>>
  BY DEF DetectEndpoints, walked, WalkInv, NotBegun, BeforeWalk
<1>2. DOMAIN chains' = {} /\ Len(chains') = 0
  BY <1>1
<1>3. (RingRows(chains) /\ OwnRank(chains) /\ NoRings(chains))'
  BY <1>2 DEF RingRows, OwnRank, NoRings
<1>4. (\A j \in 1..Len(chains) - 1 : Ended(chains, j))'
  BY <1>2
<1>. QED BY <1>1, <1>3, <1>4 DEF RingInv, Ringed

\* A chain that starts at a node that is kept is no ring.
LEMMA EndpointRings ==
    ASSUME WalkInv, FrameInv, RingInv, NEW r, StartAtEndpoint(r)
    PROVE  RingInv'
<1>1. /\ pc = "walk" /\ pc' = "walk" /\ ~ Growing /\ r \in Unwalked /\ edges[r].u \in is_endpoint
      /\ visited' = visited \cup {r} /\ chains' = Append(chains, <<r>>)
      /\ UNCHANGED <<network, edges, is_endpoint>>
  BY DEF StartAtEndpoint, Start, given, FromEndpoints, IsNext, Unwalked
<1>. SUFFICES ASSUME Apart PROVE Ringed(chains, Unwalked)' /\ NoRings(chains)'
  BY <1>1, RingTerms DEF RingInv
<1>2. Ringed(chains, Unwalked) /\ NoRings(chains)
  BY <1>1 DEF RingInv
<1>3. AllEnded(chains) /\ Rowed /\ Chained(chains, Unwalked)
  BY <1>1, <1>2, EndedNow, RowsNow, ChainedNow DEF Walking
<1>4. Unwalked' = Unwalked \ {r}
  BY <1>1, RingTerms DEF Unwalked
<1>5. Ringed(chains', Unwalked \ {r})
  BY <1>1, <1>2, <1>3, AddChain
<1>6. NoRings(chains')
  <2>1. chains \in Seq(Seq(Rows)) /\ r \in Rows
    BY <1>1, <1>3 DEF Chained, Unwalked
  <2>2. \A k \in DOMAIN chains' : chains'[k] = <<r>> \/ (k \in DOMAIN chains /\ chains'[k] = chains[k])
    <3>. DEFINE n == Len(chains)
    <3>1. n \in Nat /\ DOMAIN chains = 1..n /\ \A k \in 1..n + 1 : k \in 1..n \/ k = n + 1
      BY <2>1
    <3>2. DOMAIN chains' = 1..n + 1 /\ chains'[n + 1] = <<r>> /\ \A k \in 1..n : chains'[k] = chains[k]
      BY <1>1, <2>1
    <3>. HIDE DEF n
    <3>. QED BY <3>1, <3>2
  <2>3. \A k \in DOMAIN chains' : StartOf(chains', k) \in is_endpoint
    BY <1>1, <1>2, <2>2 DEF NoRings, Ring, StartOf
  <2>. QED BY <2>3 DEF NoRings, Ring
<1>. QED BY <1>1, <1>4, <1>5, <1>6, RingTerms

\* A ring is started at the node that comes first of those whose rows are left.
LEMMA StartsRing ==
    ASSUME WalkInv, FrameInv, RingInv, NEW r, StartRing(r)
    PROVE  RingInv'
<1>1. /\ pc = "rings" /\ pc' = "rings" /\ ~ Growing /\ IsNext(r, Unwalked) /\ r \in Unwalked
      /\ visited' = visited \cup {r} /\ chains' = Append(chains, <<r>>)
      /\ UNCHANGED <<network, edges, is_endpoint>>
  BY DEF StartRing, Start, given, IsNext, Unwalked
<1>. SUFFICES ASSUME Apart
              PROVE  /\ Ringed(chains, Unwalked)' /\ RestRings(Unwalked)' /\ LastRank(chains, Unwalked)'
                     /\ FromEndpoints' = {}
  BY <1>1, RingTerms DEF RingInv
<1>2. Ringed(chains, Unwalked) /\ RestRings(Unwalked) /\ FromEndpoints = {}
  BY <1>1 DEF RingInv
<1>3. AllEnded(chains) /\ Rowed /\ Chained(chains, Unwalked)
  BY <1>1, <1>2, EndedNow, RowsNow, ChainedNow DEF Walking
<1>4. Unwalked' = Unwalked \ {r}
  BY <1>1, RingTerms DEF Unwalked
<1>5. Ringed(chains', Unwalked \ {r})
  BY <1>1, <1>2, <1>3, AddChain DEF RestRings
<1>6. RestRings(Unwalked \ {r})
  BY <1>2 DEF RestRings
<1>7. LastRank(chains', Unwalked \ {r})
  <2>1. chains \in Seq(Seq(Rows)) /\ r \in Rows /\ Unwalked \subseteq Rows
    BY <1>1, <1>3 DEF Chained, Unwalked
  <2>2. StartOf(chains', Len(chains')) = edges[r].u
    BY <1>1, <2>1 DEF StartOf
  <2>3. ASSUME NEW s \in Unwalked \ {r} PROVE Rank(edges[r].u) <= Rank(edges[s].u)
    <3>1. Before(r, s)
      BY <1>1 DEF IsNext
    <3>2. Rank(edges[r].u) < Rank(edges[s].u) \/ Rank(edges[r].u) = Rank(edges[s].u)
      BY <3>1 DEF Before, Rank
    <3>3. Rank(edges[r].u) \in Nat /\ Rank(edges[s].u) \in Nat
      BY <1>3, <2>1, RankFacts
    <3>. QED BY <3>2, <3>3
  <2>. QED BY <2>2, <2>3 DEF LastRank
<1>8. FromEndpoints' = {}
  BY <1>1, <1>2, RingTerms DEF FromEndpoints
<1>. QED BY <1>1, <1>4, <1>5, <1>6, <1>7, <1>8, RingTerms

LEMMA ExtendRings ==
    ASSUME WalkInv, FrameInv, RingInv, Extend
    PROVE  RingInv'
<1>1. /\ pc \in {"walk", "rings"} /\ pc' = pc /\ chains # <<>>
      /\ UNCHANGED <<network, edges, is_endpoint>>
  BY DEF Extend, Growing, given
<1>2. PICK r \in Unwalked : /\ visited' = visited \cup {r}
                            /\ chains' = [chains EXCEPT ![Len(chains)] = Append(@, r)]
  BY DEF Extend, Onward, Unwalked, Out
<1>. SUFFICES ASSUME Apart
              PROVE  /\ Ringed(chains, Unwalked)'
                     /\ pc = "walk" => NoRings(chains)'
                     /\ pc = "rings" => RestRings(Unwalked)' /\ LastRank(chains, Unwalked)' /\ FromEndpoints' = {}
  BY <1>1, RingTerms DEF RingInv
<1>3. /\ Ringed(chains, Unwalked)
      /\ pc = "walk" => NoRings(chains)
      /\ pc = "rings" => RestRings(Unwalked) /\ LastRank(chains, Unwalked) /\ FromEndpoints = {}
  BY <1>1 DEF RingInv
<1>4. Rowed /\ Chained(chains, Unwalked)
  BY <1>1, RowsNow, ChainedNow DEF Walking
<1>5. Unwalked' = Unwalked \ {r}
  BY <1>1, <1>2, RingTerms DEF Unwalked
<1>6. Len(chains) \in DOMAIN chains /\ DOMAIN chains' = DOMAIN chains
  <2>1. chains \in Seq(Seq(Rows))
    BY <1>4 DEF Chained
  <2>2. Len(chains) \in DOMAIN chains
    BY <1>1, <2>1
  <2>. QED BY <1>2, <2>2
<1>7. LastRank(chains, Unwalked) /\ (Ring(chains, Len(chains)) => edges[r].v \notin is_endpoint)
  BY <1>1, <1>3, <1>6 DEF NoRings, LastRank, RestRings
<1>8. /\ Ringed(chains', Unwalked \ {r})
      /\ Len(chains') = Len(chains)
      /\ \A k \in DOMAIN chains' : k \in DOMAIN chains /\ StartOf(chains', k) = StartOf(chains, k)
  <2>1. chains' = Longer(chains, r)
    BY <1>2 DEF Longer
  <2>. QED BY <1>1, <1>3, <1>4, <1>7, <2>1, GrowChain
<1>9. NoRings(chains) => NoRings(chains')
  BY <1>8 DEF NoRings, Ring
<1>10. LastRank(chains', Unwalked \ {r})
  BY <1>1, <1>6, <1>7, <1>8 DEF LastRank, Ring
<1>11. RestRings(Unwalked) => RestRings(Unwalked \ {r})
  BY DEF RestRings
<1>12. FromEndpoints = {} => FromEndpoints' = {}
  BY <1>1, <1>2, RingTerms DEF FromEndpoints
<1>. QED BY <1>1, <1>3, <1>5, <1>8, <1>9, <1>10, <1>11, <1>12, RingTerms

LEMMA WalkEndsRings ==
    ASSUME WalkInv, FrameInv, RingInv, WalkEnds \/ RingsEnd
    PROVE  RingInv'
<1>1. /\ pc \in {"walk", "rings"} /\ pc' \in {"rings", "collapse"} /\ ~ Growing
      /\ pc = "rings" => pc' = "collapse"
      /\ UNCHANGED <<network, edges, is_endpoint, chains, visited>>
  BY DEF WalkEnds, RingsEnd, given, walked
<1>. SUFFICES ASSUME Apart
              PROVE  /\ RingsWalked'
                     /\ pc' = "rings" => Ringed(chains, Unwalked)' /\ RestRings(Unwalked)' /\ LastRank(chains, Unwalked)'
  BY <1>1, RingTerms DEF RingInv, RingsWalked
<1>2. /\ Ringed(chains, Unwalked)
      /\ pc = "walk" => NoRings(chains)
      /\ FromEndpoints = {}
  BY <1>1 DEF RingInv, WalkEnds, RingsEnd
<1>3. Unwalked' = Unwalked /\ FromEndpoints' = {}
  BY <1>1, <1>2, RingTerms DEF Unwalked, FromEndpoints
<1>4. /\ Goes /\ Passes /\ AllEnded(chains)
      /\ Rowed /\ Chained(chains, Unwalked)
  BY <1>1, <1>2, EndedNow, RowsNow, ChainedNow DEF Walking
<1>5. RingsWalked'
  BY <1>1, <1>2, <1>3, <1>4, RingTerms DEF RingsWalked, Ringed
<1>6. ASSUME pc' = "rings" PROVE RestRings(Unwalked) /\ LastRank(chains, Unwalked)
  <2>1. pc = "walk" /\ NoRings(chains)
    BY <1>1, <1>2, <1>6
  <2>2. IsFiniteSet(Unwalked)
    <3>1. Rows = 1..Len(edges) /\ Len(edges) \in Nat
      BY <1>4 DEF Rows, Rowed
    <3>2. IsFiniteSet(1..Len(edges))
      BY <3>1, FS_Interval
    <3>. QED BY <3>1, <3>2, FS_Subset DEF Unwalked
  <2>3. \A r \in Unwalked : edges[r].u \notin is_endpoint
    BY <1>2 DEF FromEndpoints, Unwalked
  <2>4. RestRings(Unwalked)
    BY <1>4, <2>1, <2>2, <2>3, RestIsRings
  <2>5. chains # <<>> => Len(chains) \in DOMAIN chains
    <3>1. chains \in Seq(Seq(Rows))
      BY <1>4 DEF Chained
    <3>. QED BY <3>1
  <2>6. LastRank(chains, Unwalked)
    BY <2>1, <2>5 DEF LastRank, NoRings
  <2>. QED BY <2>4, <2>6
<1>. QED BY <1>1, <1>2, <1>3, <1>5, <1>6, RingTerms

LEMMA CollapseRings ==
    ASSUME WalkInv, FrameInv, RingInv, Collapse
    PROVE  RingInv'
<1>1. /\ pc = "collapse" /\ pc' = "connect"
      /\ exported' = [k \in DOMAIN chains |-> Merged(chains[k])]
      /\ nodes' = nodes \cap Ends(exported')
      /\ UNCHANGED <<network, edges, is_endpoint, chains, visited>>
  BY DEF Collapse, given, walked
<1>. SUFFICES ASSUME Apart PROVE RingsWalked' /\ ChainsExported'
  BY <1>1, RingTerms DEF RingInv
<1>2. RingsWalked
  BY <1>1 DEF RingInv
<1>3. FromEndpoints' = {}
  BY <1>1, <1>2, RingTerms DEF RingsWalked, FromEndpoints
<1>4. RingsWalked'
  BY <1>1, <1>2, <1>3, RingTerms DEF RingsWalked
<1>5. Rowed /\ is_endpoint = detect_endpoints
  BY <1>1, RowsNow DEF Walking
<1>6. DOMAIN exported' = DOMAIN chains
  BY <1>1
<1>7. \A k \in DOMAIN chains : /\ exported'[k].u = StartOf(chains, k)
                               /\ exported'[k].v = edges[EndRow(chains, k)].v
  BY <1>1 DEF Merged, StartOf, EndRow
<1>8. \A k : StartOf(chains, k)' = StartOf(chains, k) /\ EndRow(chains, k)' = EndRow(chains, k)
  BY <1>1 DEF StartOf, EndRow
<1>9. Ends(exported)' = Ends(exported')
  BY DEF Ends
<1>10. ChainsExported'
  BY <1>1, <1>5, <1>6, <1>7, <1>8, <1>9, RingTerms DEF ChainsExported
<1>. QED BY <1>4, <1>10
-----------------------------------------------------------------------------
\* Who goes along a chain gets from its start to its end.
LEMMA AlongChain ==
    ASSUME NEW ch, NEW rest, Chained(ch, rest), NEW k \in DOMAIN ch,
           NEW Y, FoundOK(Joined(edges), Y), StartOf(ch, k) \in Y
    PROVE  edges[EndRow(ch, k)].v \in Y
<1>. DEFINE c == ch[k]
            n == Len(c)
            T == {a \in 1..n : edges[c[a]].v \notin Y}
<1>1. /\ n \in Nat \ {0} /\ DOMAIN c = 1..n
      /\ \A a \in 1..n : c[a] \in Rows
      /\ \A a \in 1..n - 1 : edges[c[a]].v = edges[c[a + 1]].u
  BY ChainedFacts DEF Chained, Follows
<1>2. edges[c[1]].u \in Y /\ EndRow(ch, k) = c[n]
  BY DEF StartOf, EndRow
<1>3. \A r \in Rows : edges[r].u \in Y => edges[r].v \in Y
  BY DEF FoundOK, Joined, Rows
<1>. HIDE DEF c, n
<1>4. T = {}
  <2>. SUFFICES ASSUME T # {} PROVE FALSE
    OBVIOUS
  <2>1. PICK a \in T : \A b \in T : a <= b
    <3>1. T \in SUBSET Nat
      BY <1>1
    <3>. QED BY <3>1, LeastNat
  <2>2. a \in 1..n /\ edges[c[a]].u \notin Y
    BY <1>1, <1>3
  <2>3. a # 1
    BY <1>2, <2>2
  <2>4. a - 1 \in 1..n - 1 /\ a - 1 \in 1..n /\ (a - 1) + 1 = a
    BY <1>1, <2>2, <2>3
  <2>5. edges[c[a - 1]].v = edges[c[a]].u
    BY <1>1, <2>4
  <2>6. a - 1 \in T
    BY <2>2, <2>4, <2>5
  <2>. QED BY <1>1, <2>1, <2>2, <2>6
<1>. QED BY <1>1, <1>2, <1>4

\* On a ring every row leads on to another.
LEMMA RingGoesOn ==
    ASSUME NEW ch, NEW rest, Chained(ch, rest), RingRows(ch), AllEnded(ch),
           NEW j \in DOMAIN ch, Ring(ch, j), NEW q \in DOMAIN ch[j]
    PROVE  /\ edges[ch[j][q]].v \notin is_endpoint
           /\ \E p \in DOMAIN ch[j] : Follows(ch[j][q], ch[j][p])
<1>1. edges[ch[j][q]].v \notin is_endpoint
  BY DEF RingRows
<1>. DEFINE n == Len(ch[j])
<1>2. /\ n \in Nat \ {0} /\ DOMAIN ch[j] = 1..n
      /\ \A a \in 1..n - 1 : Follows(ch[j][a], ch[j][a + 1])
  BY ChainedFacts DEF Chained
<1>3. Follows(ch[j][n], ch[j][1])
  BY DEF AllEnded, Ended, EndRow
<1>. HIDE DEF n
<1>4. CASE q = n
  BY <1>1, <1>2, <1>3, <1>4
<1>5. CASE q # n
  <2>1. q \in 1..n - 1 /\ q + 1 \in 1..n
    BY <1>2, <1>5
  <2>. QED BY <1>1, <1>2, <2>1
<1>. QED BY <1>4, <1>5

\* A ring that goes back along a chain goes back to its start.
LEMMA BackAlong ==
    ASSUME Apart, Passes, NEW ch, NEW rest, Chained(ch, rest), RingRows(ch), AllEnded(ch),
           NEW k \in DOMAIN ch, NEW j \in DOMAIN ch, Ring(ch, j),
           NEW a \in DOMAIN ch[k], NEW p \in DOMAIN ch[j], Back(ch[j][p], ch[k][a])
    PROVE  \E q \in DOMAIN ch[j] : Back(ch[j][q], ch[k][1])
<1>. DEFINE c == ch[k]
            n == Len(c)
            T == {b \in 1..n : \E q \in DOMAIN ch[j] : Back(ch[j][q], c[b])}
<1>1. /\ n \in Nat \ {0} /\ DOMAIN c = 1..n
      /\ \A b \in 1..n : c[b] \in Rows
      /\ \A b \in 1..n - 1 : Follows(c[b], c[b + 1]) /\ edges[c[b]].v \notin is_endpoint
  BY ChainedFacts DEF Chained
<1>2. \A q \in DOMAIN ch[j] : ch[j][q] \in Rows
  BY ChainedFacts
<1>3. a \in T
  BY <1>1
<1>. HIDE DEF c, n
<1>4. PICK b \in T : \A d \in T : b <= d
  <2>1. T \in SUBSET Nat
    BY <1>1
  <2>. QED BY <1>3, <2>1, LeastNat
<1>5. PICK q \in DOMAIN ch[j] : Back(ch[j][q], c[b])
  OBVIOUS
<1>6. CASE b = 1
  BY <1>5, <1>6 DEF c
<1>7. CASE b # 1
  <2>1. b - 1 \in 1..n - 1 /\ b - 1 \in 1..n /\ (b - 1) + 1 = b /\ b \in 1..n
    BY <1>1, <1>7
  <2>2. Follows(c[b - 1], c[b]) /\ edges[c[b - 1]].v \notin is_endpoint /\ c[b - 1] \in Rows /\ c[b] \in Rows
    BY <1>1, <2>1
  <2>3. PICK g \in DOMAIN ch[j] : Follows(ch[j][q], ch[j][g])
    BY RingGoesOn
  <2>4. Back(ch[j][g], c[b - 1])
    BY <1>2, <1>5, <2>2, <2>3, FollowsOne
  <2>5. b - 1 \in T
    BY <2>1, <2>4
  <2>. QED BY <1>1, <1>4, <2>1, <2>5
<1>. QED BY <1>6, <1>7

\* A chain does not pass through the start of another: that would be the same ring in
\* the other direction, and a ring is started at the node that comes first.
LEMMA NoStartInside ==
    ASSUME Rowed, Apart, Passes, NEW ch, NEW rest, Chained(ch, rest),
           RingRows(ch), OwnRank(ch), AllEnded(ch),
           NEW k \in DOMAIN ch, NEW j \in DOMAIN ch, Ring(ch, j),
           NEW a \in 1..Len(ch[k]) - 1, edges[ch[k][a]].v = StartOf(ch, j)
    PROVE  StartOf(ch, k) = StartOf(ch, j)
<1>. SUFFICES ASSUME j # k PROVE StartOf(ch, k) = StartOf(ch, j)
  OBVIOUS
<1>. DEFINE l == ch[k][a]
            s == ch[k][a + 1]
            f == ch[j][1]
<1>1. /\ a \in DOMAIN ch[k] /\ a + 1 \in DOMAIN ch[k] /\ 1 \in DOMAIN ch[k] /\ 1 \in DOMAIN ch[j]
      /\ l \in Rows /\ s \in Rows /\ f \in Rows /\ ch[k][1] \in Rows
      /\ \A q \in DOMAIN ch[j] : ch[j][q] \in Rows
  <2>1. Len(ch[k]) \in Nat \ {0} /\ DOMAIN ch[k] = 1..Len(ch[k])
    BY ChainedFacts
  <2>2. a \in DOMAIN ch[k] /\ a + 1 \in DOMAIN ch[k]
    BY <2>1
  <2>. QED BY <2>2, ChainedFacts
<1>2. Follows(l, s) /\ edges[l].v \notin is_endpoint
  BY DEF Chained
<1>3. f # s
  BY <1>1 DEF Chained
<1>4. edges[f].u = edges[l].v
  BY DEF StartOf
<1>5. edges[f].v # edges[s].v
  BY <1>1, <1>2, <1>3, <1>4 DEF Apart, Follows
<1>6. edges[f].v = edges[l].u
  BY <1>1, <1>2, <1>4, <1>5 DEF Passes
<1>7. PICK q \in DOMAIN ch[j] : Back(ch[j][q], ch[k][1])
  <2>1. Back(ch[j][1], ch[k][a])
    BY <1>4, <1>6 DEF Back
  <2>. QED BY <1>1, <2>1, BackAlong
<1>8. edges[ch[j][q]].v = StartOf(ch, k)
  BY <1>7 DEF Back, StartOf
<1>9. Ring(ch, k)
  BY <1>8, RingGoesOn DEF Ring
<1>10. PICK p \in DOMAIN ch[j] : edges[ch[j][p]].u = StartOf(ch, k)
  BY <1>8, RingGoesOn DEF Follows
<1>11. Rank(StartOf(ch, j)) <= Rank(StartOf(ch, k))
  BY <1>10 DEF OwnRank
<1>12. Rank(StartOf(ch, k)) <= Rank(StartOf(ch, j))
  <2>1. edges[s].u = StartOf(ch, j)
    BY <1>2 DEF Follows
  <2>. QED BY <1>1, <1>9, <2>1 DEF OwnRank
<1>13. /\ Rank(StartOf(ch, k)) \in Nat /\ edges[Rank(StartOf(ch, k))].u = StartOf(ch, k)
       /\ Rank(StartOf(ch, j)) \in Nat /\ edges[Rank(StartOf(ch, j))].u = StartOf(ch, j)
  BY <1>1, RankFacts DEF StartOf
<1>14. Rank(StartOf(ch, k)) = Rank(StartOf(ch, j))
  BY <1>11, <1>12, <1>13
<1>. QED BY <1>13, <1>14
-----------------------------------------------------------------------------
\* What is known of the chains once they are exported.
Simple ==
    /\ Apart /\ Goes /\ Passes /\ Chained(chains, Unwalked) /\ RingsWalked /\ ChainsExported
    /\ nodes \in SUBSET Nodes /\ Ends(exported) \subseteq nodes
    /\ ReachOK(Joined(edges), Reaches(edges), Nodes)
    /\ ReachOK(Joined(exported), Reaches(exported), Nodes)

LEMMA ToNodes ==
    ASSUME Rowed
    PROVE  \A r \in Rows : edges[r].u \in Nodes /\ edges[r].v \in Nodes
<1>1. \A r \in Rows : edges[r] \in Street
  BY DEF Rowed, Rows
<1>2. \A s \in Street : s.u \in Nodes /\ s.v \in Nodes
  BY DEF Street
<1>. QED BY <1>1, <1>2

\* No way is opened.
LEMMA NoneOpened ==
    ASSUME Simple, NEW m \in nodes, NEW n, <<m, n>> \in Reaches(exported)
    PROVE  <<m, n>> \in Reaches(edges)
<1>. DEFINE Y == {b \in Nodes : <<m, b>> \in Reaches(edges)}
<1>1. m \in Nodes /\ m \in Y
  BY DEF Simple, ReachOK
<1>2. FoundOK(Joined(edges), Y)
  <2>. SUFFICES ASSUME NEW x \in Y, NEW y, <<x, y>> \in Joined(edges) PROVE y \in Y
    BY DEF FoundOK
  <2>1. y \in Nodes /\ <<x, y>> \in Reaches(edges)
    BY DEF Simple, ReachOK
  <2>. QED BY <2>1 DEF Simple, ReachOK
<1>. HIDE DEF Y
<1>3. FoundOK(Joined(exported), Y)
  <2>. SUFFICES ASSUME NEW k \in DOMAIN exported, exported[k].u \in Y PROVE exported[k].v \in Y
    BY DEF FoundOK, Joined
  <2>1. k \in DOMAIN chains /\ exported[k].u = StartOf(chains, k) /\ exported[k].v = edges[EndRow(chains, k)].v
    BY DEF Simple, ChainsExported
  <2>2. Chained(chains, Unwalked)
    BY DEF Simple
  <2>. QED BY <1>2, <2>1, <2>2, AlongChain
<1>4. Y \in SUBSET Nodes
  BY DEF Y
<1>5. n \in Y
  BY <1>1, <1>3, <1>4 DEF Simple, ReachOK
<1>. QED BY <1>5 DEF Y

\* A node that is kept though it was to be dropped is the start of a ring.
LEMMA KeptIsStart ==
    ASSUME Simple, NEW x \in nodes, x \notin is_endpoint
    PROVE  \E k \in DOMAIN chains : x = StartOf(chains, k) /\ Ring(chains, k)
<1>1. PICK k \in DOMAIN chains : x = StartOf(chains, k) \/ x = edges[EndRow(chains, k)].v
  <2>1. x \in Ends(exported) /\ DOMAIN exported = DOMAIN chains
    BY DEF Simple, ChainsExported
  <2>2. PICK k \in DOMAIN exported : x = exported[k].u \/ x = exported[k].v
    BY <2>1 DEF Ends
  <2>. QED BY <2>1, <2>2 DEF Simple, ChainsExported
<1>2. Ended(chains, k)
  BY DEF Simple, RingsWalked, AllEnded
<1>3. x = StartOf(chains, k)
  BY <1>1, <1>2 DEF Ended, Follows, StartOf
<1>. QED BY <1>3 DEF Ring

\* No way is cut.
LEMMA NoneCut ==
    ASSUME Simple, NEW m \in nodes, NEW n \in nodes, <<m, n>> \in Reaches(edges)
    PROVE  <<m, n>> \in Reaches(exported)
<1>. DEFINE K == {b \in nodes : <<m, b>> \in Reaches(exported)}
            On(k) == {edges[chains[k][a]].v : a \in DOMAIN chains[k]}
            X == K \cup UNION {On(k) : k \in {j \in DOMAIN chains : StartOf(chains, j) \in K}}
<1>1. m \in K /\ K \subseteq nodes /\ K \subseteq X
  BY DEF Simple, ReachOK
<1>2. \A k \in DOMAIN chains : StartOf(chains, k) \in K => edges[EndRow(chains, k)].v \in K
  <2>. SUFFICES ASSUME NEW k \in DOMAIN chains, StartOf(chains, k) \in K
                PROVE  edges[EndRow(chains, k)].v \in K
    OBVIOUS
  <2>1. /\ k \in DOMAIN exported /\ exported[k].u = StartOf(chains, k)
        /\ exported[k].v = edges[EndRow(chains, k)].v
    BY DEF Simple, ChainsExported
  <2>2. <<exported[k].u, exported[k].v>> \in Reaches(exported) /\ exported[k].v \in nodes
    BY <2>1 DEF Simple, ReachOK, Joined, Ends
  <2>3. <<m, exported[k].u>> \in Reaches(exported)
    BY <2>1
  <2>4. <<m, exported[k].v>> \in Reaches(exported)
    BY <2>2, <2>3 DEF Simple, ReachOK
  <2>. QED BY <2>1, <2>2, <2>4
<1>. HIDE DEF K
<1>3. \A k \in DOMAIN chains : StartOf(chains, k) \in K =>
         \A a \in DOMAIN chains[k] : edges[chains[k][a]].v \in X
  OBVIOUS
<1>4. \A x \in X : x \in K \/ \E k \in DOMAIN chains : StartOf(chains, k) \in K /\ \E a \in DOMAIN chains[k] :
                                  x = edges[chains[k][a]].v
  OBVIOUS
<1>5. X \in SUBSET Nodes
  <2>1. \A k \in DOMAIN chains : \A a \in DOMAIN chains[k] : edges[chains[k][a]].v \in Nodes
    BY ChainedFacts, ToNodes DEF Simple, ChainsExported
  <2>. QED BY <1>1, <2>1 DEF Simple
<1>. HIDE DEF X
<1>6. ASSUME NEW k \in DOMAIN chains
      PROVE  /\ Len(chains[k]) \in Nat \ {0} /\ DOMAIN chains[k] = 1..Len(chains[k])
             /\ \A a \in DOMAIN chains[k] : chains[k][a] \in Rows
             /\ \A a \in 1..Len(chains[k]) - 1 :
                  /\ Follows(chains[k][a], chains[k][a + 1]) /\ edges[chains[k][a]].v \notin is_endpoint
                  /\ a \in DOMAIN chains[k] /\ a + 1 \in DOMAIN chains[k]
             /\ \A a \in DOMAIN chains[k] : a # 1 => a - 1 \in 1..Len(chains[k]) - 1 /\ (a - 1) + 1 = a
             /\ \A a \in DOMAIN chains[k] : a # Len(chains[k]) => a \in 1..Len(chains[k]) - 1
  <2>1. Len(chains[k]) \in Nat \ {0} /\ DOMAIN chains[k] = 1..Len(chains[k])
        /\ \A a \in DOMAIN chains[k] : chains[k][a] \in Rows
    BY ChainedFacts DEF Simple
  <2>2. \A a \in 1..Len(chains[k]) - 1 :
           Follows(chains[k][a], chains[k][a + 1]) /\ edges[chains[k][a]].v \notin is_endpoint
    BY DEF Simple, Chained
  <2>. QED BY <2>1, <2>2
  \* Whoever is on a chain has come from a node on it.
<1>7. ASSUME NEW k \in DOMAIN chains, StartOf(chains, k) \in K, NEW a \in DOMAIN chains[k]
      PROVE  edges[chains[k][a]].u \in X
  <2>1. CASE a = 1
    BY <1>1, <1>7, <2>1 DEF StartOf
  <2>2. CASE a # 1
    <3>1. edges[chains[k][a - 1]].v = edges[chains[k][a]].u /\ a - 1 \in DOMAIN chains[k]
      BY <1>6, <2>2 DEF Follows
    <3>. QED BY <1>3, <1>7, <3>1
  <2>. QED BY <2>1, <2>2
<1>8. ASSUME NEW x \in K, NEW r \in Rows, edges[r].u = x PROVE edges[r].v \in X
  <2>1. CASE x \in is_endpoint
    <3>1. r \notin Unwalked
      BY <1>8, <2>1 DEF Simple, RingsWalked, FromEndpoints, Unwalked
    <3>2. PICK k \in DOMAIN chains : \E a \in DOMAIN chains[k] : chains[k][a] = r
      BY <3>1 DEF Simple, Chained
    <3>3. PICK a \in DOMAIN chains[k] : chains[k][a] = r
      BY <3>2
    <3>4. a = 1
      <4>. SUFFICES ASSUME a # 1 PROVE FALSE
        OBVIOUS
      <4>. DEFINE b == a - 1
      <4>1. b \in 1..Len(chains[k]) - 1 /\ b + 1 = a
        BY <1>6
      <4>. HIDE DEF b
      <4>2. Follows(chains[k][b], chains[k][a]) /\ edges[chains[k][b]].v \notin is_endpoint
        BY <1>6, <4>1
      <4>. QED BY <1>8, <2>1, <3>3, <4>2 DEF Follows
    <3>5. StartOf(chains, k) = x
      BY <1>8, <3>3, <3>4 DEF StartOf
    <3>. QED BY <1>3, <3>3, <3>5
  <2>2. CASE x \notin is_endpoint
    <3>1. PICK k \in DOMAIN chains : x = StartOf(chains, k) /\ Ring(chains, k)
      BY <1>1, <2>2, KeptIsStart
    <3>2. Follows(EndRow(chains, k), chains[k][1])
      BY <3>1 DEF Simple, RingsWalked, AllEnded, Ended
    <3>3. Len(chains[k]) \in DOMAIN chains[k] /\ 1 \in DOMAIN chains[k]
      BY <1>6
    <3>4. EndRow(chains, k) \in Rows /\ chains[k][1] \in Rows /\ EndRow(chains, k) = chains[k][Len(chains[k])]
      BY <1>6, <3>3 DEF EndRow
    <3>5. edges[EndRow(chains, k)].v = x
      BY <3>1, <3>2 DEF Follows, StartOf
    <3>6. edges[r].v = edges[chains[k][1]].v \/ edges[r].v = edges[EndRow(chains, k)].u
      BY <1>8, <2>2, <3>2, <3>4, <3>5 DEF Simple, Passes
    <3>. QED BY <1>3, <1>7, <3>1, <3>3, <3>4, <3>6
  <2>. QED BY <2>1, <2>2
<1>9. FoundOK(Joined(edges), X)
  <2>. SUFFICES ASSUME NEW r \in Rows, edges[r].u \in X PROVE edges[r].v \in X
    BY DEF FoundOK, Joined, Rows
  <2>. DEFINE x == edges[r].u
  <2>1. CASE x \in K
    BY <1>8, <2>1
  <2>2. CASE x \notin K
    <3>1. PICK k \in DOMAIN chains : /\ StartOf(chains, k) \in K
                                     /\ \E a \in DOMAIN chains[k] : x = edges[chains[k][a]].v
      BY <1>4, <2>2
    <3>2. PICK a \in DOMAIN chains[k] : x = edges[chains[k][a]].v
      BY <3>1
    <3>3. a # Len(chains[k])
      BY <1>2, <2>2, <3>1, <3>2 DEF EndRow
    <3>4. /\ Follows(chains[k][a], chains[k][a + 1]) /\ x \notin is_endpoint
          /\ a + 1 \in DOMAIN chains[k] /\ chains[k][a] \in Rows /\ chains[k][a + 1] \in Rows
      BY <1>6, <3>2, <3>3
    <3>5. edges[r].v = edges[chains[k][a + 1]].v \/ edges[r].v = edges[chains[k][a]].u
      BY <3>2, <3>4 DEF Simple, Passes
    <3>. QED BY <1>3, <1>7, <3>1, <3>4, <3>5
  <2>. QED BY <2>1, <2>2
<1>10. n \in X
  BY <1>1, <1>5, <1>9 DEF Simple, ReachOK
<1>11. n \in K
  <2>. SUFFICES ASSUME n \notin K PROVE FALSE
    OBVIOUS
  <2>1. PICK k \in DOMAIN chains : /\ StartOf(chains, k) \in K
                                   /\ \E a \in DOMAIN chains[k] : n = edges[chains[k][a]].v
    BY <1>4, <1>10
  <2>2. PICK a \in DOMAIN chains[k] : n = edges[chains[k][a]].v
    BY <2>1
  <2>3. a # Len(chains[k])
    BY <1>2, <2>1, <2>2 DEF EndRow
  <2>4. a \in 1..Len(chains[k]) - 1 /\ n \notin is_endpoint
    BY <1>6, <2>2, <2>3
  <2>5. PICK j \in DOMAIN chains : n = StartOf(chains, j) /\ Ring(chains, j)
    BY <2>4, KeptIsStart
  <2>6. StartOf(chains, k) = n
    <3>1. Rowed /\ Apart /\ Passes /\ Chained(chains, Unwalked)
          /\ RingRows(chains) /\ OwnRank(chains) /\ AllEnded(chains)
      BY DEF Simple, RingsWalked, ChainsExported
    <3>2. edges[chains[k][a]].v = StartOf(chains, j)
      BY <2>2, <2>5
    <3>3. StartOf(chains, k) = StartOf(chains, j)
      BY <2>4, <2>5, <3>1, <3>2, NoStartInside
    <3>. QED BY <2>5, <3>3
  <2>. QED BY <2>1, <2>6
<1>. QED BY <1>11 DEF K

\* The invariant of rings holds in every state, for every network.
THEOREM RingInvariant == ExportSpec => []RingInv
<1>1. ExportInit => RingInv
  BY DEF ExportInit, SimplifyInit, ReadInit, RingInv
<1>2. RingInv /\ WalkInv /\ FrameInv /\ [ExportNext]_vars => RingInv'
  <2>. SUFFICES ASSUME RingInv, WalkInv, FrameInv, [ExportNext]_vars PROVE RingInv'
    OBVIOUS
  <2>1. CASE Read
    <3>1. pc' \in {"slice", "box", "failed", "nothing", "directed"}
      BY <2>1 DEF Read, ReadNext, CreateWayGeometries, SliceToSegments, SliceFails, FilterByBox, WholeFile
    <3>. QED BY <3>1 DEF RingInv
  <2>2. CASE DirectEdges
    BY <2>2 DEF DirectEdges, RingInv
  <2>3. CASE SkipSimplify
    BY <2>3 DEF SkipSimplify, RingInv, walked, WalkInv, NotBegun, BeforeWalk
  <2>4. CASE DetectEndpoints
    BY <2>4, DetectRings
  <2>5. CASE Extend
    BY <2>5, ExtendRings
  <2>6. ASSUME NEW r \in Rows, StartAtEndpoint(r) \/ StartRing(r) PROVE RingInv'
    BY <2>6, EndpointRings, StartsRing
  <2>7. CASE WalkEnds \/ RingsEnd
    BY <2>7, WalkEndsRings
  <2>8. CASE Collapse
    BY <2>8, CollapseRings
  <2>9. CASE RetainAll
    BY <2>9, RingStays DEF RetainAll, frames, given, walked, Walking
  <2>10. ASSUME NEW n \in Nodes, Source(n) PROVE RingInv'
    BY <2>10, RingStays DEF Source, simplify_vars, frames, walked, given, Walking
  <2>11. CASE Descend
    BY <2>11, RingStays DEF Descend, simplify_vars, frames, walked, given, Walking
  <2>12. CASE Postpone \/ CloseComponent
    BY <2>12, RingStays DEF Postpone, CloseComponent, Ascend, simplify_vars, frames, walked, given, Walking
  <2>13. CASE KeepLargest
    BY <2>13, RingStays DEF KeepLargest, given, walked, Walking
  <2>14. CASE ConnectFails
    BY <2>14, RingStays DEF ConnectFails, frames, given, walked, Walking
  <2>15. CASE create_igraph \/ create_nxgraph
    BY <2>15, RingStays DEF create_igraph, create_nxgraph, frames, given, walked, Walking
  <2>16. CASE UNCHANGED vars
    BY <2>16, RingStays DEF vars, simplify_vars, frames, walked, given
  <2>. QED BY <2>1, <2>2, <2>3, <2>4, <2>5, <2>6, <2>7, <2>8, <2>9, <2>10, <2>11, <2>12, <2>13,
              <2>14, <2>15, <2>16 DEF ExportNext, Simplify, SimplifyNext
<1>. QED BY <1>1, <1>2, WalkInvariant, FrameInvariant, PTL DEF ExportSpec

\* Where no two streets lie between the same two nodes in one direction, simplifying
\* neither cuts nor opens a way between two nodes it keeps (graph_simplify.py:60-97,
\* _simplify_walk.pyx:41-82).
THEOREM WaysSurvive == ExportSpec => []SameReach
<1>1. RingInv /\ WalkInv /\ FrameInv /\ SearchInv => SameReach
  <2>. SUFFICES ASSUME RingInv, WalkInv, FrameInv, SearchInv, Simplified, Apart, NEW m \in nodes, NEW n \in nodes
                PROVE  <<m, n>> \in Reaches(edges) <=> <<m, n>> \in Reaches(exported)
    BY DEF SameReach
  <2>1. pc = "connect" /\ chains # <<>>
    BY DEF Simplified
  <2>2. RingsWalked /\ ChainsExported /\ Chained(chains, Unwalked)
    BY <2>1, ChainedNow DEF RingInv
  <2>3. IsFiniteSet(Nodes)
    BY NetworkAssumption
  <2>4. Goes /\ Passes
    BY <2>2, <2>3, PassesOK DEF ChainsExported
  <2>5. nodes \in SUBSET Nodes /\ Ends(exported) \subseteq nodes
    BY <2>1 DEF SearchInv, FrameInv
  <2>6. Ends(edges) \subseteq Nodes
    BY <2>2, ToNodes DEF ChainsExported, Ends, Rows
  <2>7. Nodes \in SUBSET Nodes
    OBVIOUS
  <2>8. ReachOK(Joined(edges), Reaches(edges), Nodes)
    BY <2>3, <2>6, <2>7, JoinedFacts, ReachesOK
  <2>9. ReachOK(Joined(exported), Reaches(exported), Nodes)
    <3>1. Ends(exported) \subseteq Nodes
      BY <2>5
    <3>. QED BY <2>3, <2>7, <3>1, JoinedFacts, ReachesOK
  <2>10. Simple
    BY <2>2, <2>4, <2>5, <2>8, <2>9 DEF Simple
  <2>. QED BY <2>10, NoneOpened, NoneCut
<1>. QED BY <1>1, RingInvariant, WalkInvariant, FrameInvariant, SearchInvariant, PTL
=============================================================================
