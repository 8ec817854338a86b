---------------------------- MODULE MidiInProofs ----------------------------
(***************************************************************************)
(* Proofs about the two threads on the lists of profimidi.c, for any       *)
(* number of devices, messages and blocks of memory.                       *)
(***************************************************************************)
EXTENDS MidiIn, FiniteSetTheorems, NaturalLemmas, TLAPS

(* Lists in memory                                                         *)

\* The blocks s of heap h are the list that begins at b and ends with NULL.
Path(h, b, s) ==
  /\ s \in Seq(DOMAIN h)
  /\ \A j, k \in 1 .. Len(s) : j # k => s[j] # s[k]
  /\ \A k \in 1 .. Len(s) - 1 : h[s[k]].next = s[k + 1]
  /\ IF Len(s) = 0 THEN b = NULL ELSE b = s[1] /\ h[s[Len(s)]].next = NULL

\* One round of ListFrom
Round(h, b, list) ==
  LET x == After(h, b, list)
  IN IF x \in DOMAIN h /\ ~Contains(list, x) THEN Append(list, x) ELSE list

Prefix(s, k) == SubSeq(s, 1, k)

LEMMA PrefixFacts ==
  ASSUME NEW S, NEW s \in Seq(S), NEW k \in 0 .. Len(s)
  PROVE  /\ Prefix(s, k) \in Seq(S) /\ Len(Prefix(s, k)) = k
         /\ \A j \in 1 .. k : Prefix(s, k)[j] = s[j]
  BY DEF Prefix

LEMMA WholePrefix ==
  ASSUME NEW S, NEW s \in Seq(S)
  PROVE  Prefix(s, 0) = <<>> /\ Prefix(s, Len(s)) = s
  BY DEF Prefix

\* Along a path each round finds the next block, and after the last one nothing more.
LEMMA RoundOnPath ==
  ASSUME NEW h, NEW b, NEW s, NULL \notin DOMAIN h, Path(h, b, s)
  PROVE  /\ \A k \in 1 .. Len(s) : Round(h, b, Prefix(s, k - 1)) = Prefix(s, k)
         /\ After(h, b, s) = NULL /\ Round(h, b, s) = s
  <1>1. s \in Seq(DOMAIN h) /\ Len(s) \in Nat
    BY DEF Path
  <1>2. ASSUME NEW k \in 1 .. Len(s) PROVE Round(h, b, Prefix(s, k - 1)) = Prefix(s, k)
    <2> DEFINE q == Prefix(s, k - 1)
    <2>1. k - 1 \in 0 .. Len(s) /\ s[k] \in DOMAIN h
      BY <1>1
    <2>2. /\ q \in Seq(DOMAIN h) /\ Len(q) = k - 1
          /\ \A j \in 1 .. k - 1 : q[j] = s[j]
      BY <1>1, <2>1, PrefixFacts
    <2>3. Append(q, s[k]) = Prefix(s, k)
      BY <1>1, <2>1 DEF Prefix
    <2> HIDE DEF q
    <2>4. After(h, b, q) = s[k]
      <3>1. CASE k = 1
        <4>1. q = <<>>
          BY <2>2, <3>1
        <4> QED BY <1>1, <3>1, <4>1 DEF After, Path
      <3>2. CASE k # 1
        <4>1. q # <<>> /\ k - 1 \in 1 .. Len(s) - 1 /\ (k - 1) + 1 = k
          BY <1>1, <2>2, <3>2
        <4>2. Last(q) = s[k - 1]
          BY <2>2, <3>2, <4>1 DEF Last
        <4> QED BY <4>1, <4>2 DEF After, Path
      <3> QED BY <3>1, <3>2
    <2>5. ~Contains(q, s[k])
      <3>1. \A j \in 1 .. k - 1 : j \in 1 .. Len(s) /\ j # k /\ q[j] = s[j]
        BY <1>1, <2>2
      <3>2. \A j \in 1 .. k - 1 : q[j] # s[k]
        BY <3>1 DEF Path
      <3> QED BY <2>2, <3>2 DEF Contains
    <2> QED BY <2>1, <2>3, <2>4, <2>5 DEF Round, q
  <1>3. After(h, b, s) = NULL
    <2>1. CASE s = <<>>
      BY <2>1 DEF After, Path
    <2>2. CASE s # <<>>
      <3>1. Len(s) # 0
        BY <1>1, <2>2
      <3> QED BY <2>2, <3>1 DEF After, Last, Path
    <2> QED BY <2>1, <2>2
  <1>4. Round(h, b, s) = s
    BY <1>3 DEF Round
  <1> QED BY <1>2, <1>3, <1>4

\* A path without a block twice is no longer than the heap.
LEMMA PathFits ==
  ASSUME NEW h, NEW b, NEW s, IsFiniteSet(DOMAIN h), Path(h, b, s)
  PROVE  Len(s) <= Cardinality(DOMAIN h) /\ Cardinality(DOMAIN h) \in Nat
  <1>1. s \in [1 .. Len(s) -> DOMAIN h] /\ Len(s) \in Nat
    BY DEF Path
  <1>2. s \in Injection(1 .. Len(s), DOMAIN h)
    BY <1>1 DEF Path, Injection, IsInjective
  <1>3. Cardinality(1 .. Len(s)) <= Cardinality(DOMAIN h)
    BY <1>2, FS_Injection
  <1>4. Cardinality(1 .. Len(s)) = Len(s)
    <2> DEFINE m == Len(s)
    <2>1. m \in Nat
      BY <1>1
    <2> HIDE DEF m
    <2>2. Cardinality(1 .. m) = m
      BY <2>1, FS_Interval
    <2> QED BY <2>2 DEF m
  <1> QED BY <1>3, <1>4, FS_CardinalityType

\* ListFrom finds every path.
LEMMA PathIsList ==
  ASSUME NEW h, NEW b, NEW s, IsFiniteSet(DOMAIN h), NULL \notin DOMAIN h, Path(h, b, s)
  PROVE  ListFrom(h, b) = s /\ EndOf(h, b) = NULL
  <1> DEFINE n == Cardinality(DOMAIN h)
             longer == [list \in Seq(DOMAIN h) |-> Round(h, b, list)]
             Rounds(f) == f = [k \in 0 .. n |-> IF k = 0 THEN <<>> ELSE longer[f[k - 1]]]
             first == CHOOSE f : Rounds(f)
             upto == [k \in 0 .. n |-> Prefix(s, IF k <= Len(s) THEN k ELSE Len(s))]
  <1>1. ListFrom(h, b) = first[n]
    BY DEF ListFrom, Round
  <1>2. n \in Nat /\ Len(s) \in 0 .. n /\ s \in Seq(DOMAIN h)
    <2>1. Len(s) <= n /\ n \in Nat
      BY PathFits
    <2>2. s \in Seq(DOMAIN h)
      BY DEF Path
    <2> HIDE DEF n
    <2> QED BY <2>1, <2>2
  <1>3. ASSUME NEW k \in 0 .. n
        PROVE  /\ upto[k] = Prefix(s, IF k <= Len(s) THEN k ELSE Len(s))
               /\ upto[k] \in Seq(DOMAIN h)
    <2>1. (IF k <= Len(s) THEN k ELSE Len(s)) \in 0 .. Len(s)
      BY <1>2
    <2> QED BY <1>2, <2>1, PrefixFacts
  <1>4. upto[0] = <<>>
    BY <1>2, <1>3, WholePrefix
  <1>5. ASSUME NEW k \in 1 .. n PROVE longer[upto[k - 1]] = upto[k]
    <2>1. k - 1 \in 0 .. n /\ k \in 0 .. n
      BY <1>2
    <2>2. longer[upto[k - 1]] = Round(h, b, upto[k - 1])
      BY <1>3, <2>1
    <2>3. CASE k <= Len(s)
      <3>1. upto[k - 1] = Prefix(s, k - 1) /\ upto[k] = Prefix(s, k) /\ k \in 1 .. Len(s)
        BY <1>2, <1>3, <2>1, <2>3
      <3> QED BY <2>2, <3>1, RoundOnPath
    <2>4. CASE k > Len(s)
      <3>1. upto[k - 1] = Prefix(s, Len(s)) /\ upto[k] = Prefix(s, Len(s))
        <4>1. CASE k - 1 = Len(s)
          BY <1>2, <1>3, <2>1, <2>4, <4>1
        <4>2. CASE k - 1 > Len(s)
          BY <1>2, <1>3, <2>1, <2>4, <4>2
        <4> QED BY <1>2, <2>4, <4>1, <4>2
      <3>2. Prefix(s, Len(s)) = s
        BY <1>2, WholePrefix
      <3> QED BY <2>2, <3>1, <3>2, RoundOnPath
    <2> QED BY <1>2, <2>3, <2>4
  <1> HIDE DEF longer
  <1>6. Rounds(upto)
    <2> DEFINE again == [k \in 0 .. n |-> IF k = 0 THEN <<>> ELSE longer[upto[k - 1]]]
    <2>1. ASSUME NEW k \in 0 .. n PROVE upto[k] = again[k]
      <3>1. CASE k = 0
        BY <1>4, <3>1
      <3>2. CASE k # 0
        <4>1. k \in 1 .. n
          BY <1>2, <3>2
        <4>2. again[k] = longer[upto[k - 1]]
          BY <3>2
        <4> QED BY <1>5, <4>1, <4>2
      <3> QED BY <3>1, <3>2
    <2>2. upto = [k \in 0 .. n |-> upto[k]] /\ again = [k \in 0 .. n |-> again[k]]
      OBVIOUS
    <2> HIDE DEF upto, again
    <2>3. upto = again
      BY <2>1, <2>2
    <2> QED BY <2>3 DEF again
  <1> HIDE DEF upto
  <1>7. first = [k \in 0 .. n |-> IF k = 0 THEN <<>> ELSE longer[first[k - 1]]]
    BY <1>6
  <1> HIDE DEF first
  <1>8. first[0] = <<>> /\ \A k \in 1 .. n : first[k] = longer[first[k - 1]]
    BY <1>2, <1>7
  <1> DEFINE T == {k \in Nat : k <= n => first[k] = upto[k]}
  <1>9. T = Nat
    <2>1. 0 \in T
      BY <1>4, <1>8
    <2>2. ASSUME NEW k \in T PROVE k + 1 \in T
      <3> SUFFICES ASSUME k + 1 <= n PROVE first[k + 1] = upto[k + 1]
        OBVIOUS
      <3>1. k + 1 \in 1 .. n /\ (k + 1) - 1 = k /\ k <= n
        BY <1>2
      <3>2. first[k] = upto[k]
        BY <3>1
      <3>3. first[k + 1] = longer[first[k]]
        BY <1>8, <3>1
      <3>4. longer[upto[k]] = upto[k + 1]
        BY <1>5, <3>1
      <3> QED BY <3>2, <3>3, <3>4
    <2> HIDE DEF T
    <2>3. T \in SUBSET Nat
      BY DEF T
    <2> QED BY <2>1, <2>2, <2>3, SetInduction
  <1>10. n \in T
    BY <1>2, <1>9
  <1>11. first[n] = upto[n]
    BY <1>2, <1>10
  <1>12. upto[n] = s
    <2>1. (IF n <= Len(s) THEN n ELSE Len(s)) = Len(s) /\ n \in 0 .. n
      BY <1>2
    <2> QED BY <1>2, <1>3, <2>1, WholePrefix
  <1> HIDE DEF n
  <1>13. ListFrom(h, b) = s
    BY <1>1, <1>11, <1>12
  <1> QED BY <1>13, RoundOnPath DEF EndOf

\* Where a path goes on: never to its first block, nor to the one it is at.
LEMMA PathGoesOn ==
  ASSUME NEW h, NEW b, NEW s, Path(h, b, s), NULL \notin DOMAIN h, NEW k \in 1 .. Len(s)
  PROVE  /\ h[s[k]].next = IF k = Len(s) THEN NULL ELSE s[k + 1]
         /\ h[s[k]].next # s[1] /\ h[s[k]].next # s[k]
  <1>1. s \in Seq(DOMAIN h) /\ Len(s) \in Nat
    BY DEF Path
  <1>2. h[s[k]].next = IF k = Len(s) THEN NULL ELSE s[k + 1]
    BY <1>1 DEF Path
  <1>3. s[1] \in DOMAIN h /\ s[k] \in DOMAIN h
    BY <1>1
  <1>4. k # Len(s) => s[k + 1] # s[1] /\ s[k + 1] # s[k]
    <2>1. k # Len(s) => k + 1 \in 1 .. Len(s) /\ k + 1 # 1 /\ k + 1 # k /\ 1 \in 1 .. Len(s)
      BY <1>1
    <2> QED BY <2>1 DEF Path
  <1> QED BY <1>2, <1>3, <1>4

\* What the steps of the two threads do to a path.  It stays as it is,
LEMMA PathKept ==
  ASSUME NEW h, NEW b, NEW s, Path(h, b, s),
         NEW g, \A k \in 1 .. Len(s) : s[k] \in DOMAIN g /\ g[s[k]].next = h[s[k]].next
  PROVE  Path(g, b, s)
  <1>1. s \in Seq(DOMAIN h) /\ Len(s) \in Nat
    BY DEF Path
  <1>2. s \in Seq(DOMAIN g)
    BY <1>1
  <1>3. \A k \in 1 .. Len(s) - 1 : g[s[k]].next = s[k + 1]
    BY <1>1 DEF Path
  <1>4. Len(s) # 0 => g[s[Len(s)]].next = NULL
    BY <1>1 DEF Path
  <1> QED BY <1>2, <1>3, <1>4 DEF Path

\* is empty,
LEMMA PathNone ==
  ASSUME NEW h
  PROVE  Path(h, NULL, <<>>)
  BY DEF Path

LEMMA PathNull ==
  ASSUME NEW h, NEW b, NEW s, Path(h, b, s), NULL \notin DOMAIN h
  PROVE  (b = NULL) <=> (s = <<>>)
  BY DEF Path

\* gets a block at its head,
LEMMA PathPushed ==
  ASSUME NEW h, NEW b, NEW s, Path(h, b, s),
         NEW x, \A k \in 1 .. Len(s) : s[k] # x, h[x].next = b, x \in DOMAIN h
  PROVE  /\ Path(h, x, <<x>> \o s)
         /\ Len(<<x>> \o s) = Len(s) + 1 /\ (<<x>> \o s)[1] = x
         /\ \A k \in 1 .. Len(s) : (<<x>> \o s)[k + 1] = s[k]
  <1> DEFINE q == <<x>> \o s
  <1>1. s \in Seq(DOMAIN h) /\ Len(s) \in Nat
    BY DEF Path
  <1>2. /\ q \in Seq(DOMAIN h) /\ Len(q) = Len(s) + 1 /\ q[1] = x
        /\ \A k \in 1 .. Len(s) : q[k + 1] = s[k]
        /\ \A k \in 2 .. Len(q) : k - 1 \in 1 .. Len(s) /\ q[k] = s[k - 1]
    BY <1>1
  <1> HIDE DEF q
  <1>3. ASSUME NEW j \in 1 .. Len(q), NEW k \in 1 .. Len(q), j # k PROVE q[j] # q[k]
    <2>1. CASE j = 1
      <3>1. k \in 2 .. Len(q)
        BY <1>1, <1>2, <1>3, <2>1
      <3> QED BY <1>2, <2>1, <3>1
    <2>2. CASE k = 1
      <3>1. j \in 2 .. Len(q)
        BY <1>1, <1>2, <1>3, <2>2
      <3> QED BY <1>2, <2>2, <3>1
    <2>3. CASE j # 1 /\ k # 1
      <3>1. j \in 2 .. Len(q) /\ k \in 2 .. Len(q) /\ j - 1 # k - 1
        BY <1>1, <1>2, <1>3, <2>3
      <3>2. s[j - 1] # s[k - 1]
        BY <1>2, <3>1 DEF Path
      <3> QED BY <1>2, <3>1, <3>2
    <2> QED BY <2>1, <2>2, <2>3
  <1>4. ASSUME NEW k \in 1 .. Len(q) - 1 PROVE h[q[k]].next = q[k + 1]
    <2>1. CASE k = 1
      BY <1>1, <1>2, <2>1 DEF Path
    <2>2. CASE k # 1
      <3>1. k \in 2 .. Len(q) /\ k \in 1 .. Len(s) /\ k - 1 \in 1 .. Len(s) - 1 /\ (k - 1) + 1 = k
        BY <1>1, <1>2, <2>2
      <3> QED BY <1>2, <3>1 DEF Path
    <2> QED BY <2>1, <2>2
  <1>5. h[q[Len(q)]].next = NULL
    <2>1. CASE Len(s) = 0
      BY <1>2, <2>1 DEF Path
    <2>2. CASE Len(s) # 0
      <3>1. q[Len(q)] = s[Len(s)]
        BY <1>1, <1>2, <2>2
      <3> QED BY <2>2, <3>1 DEF Path
    <2> QED BY <2>1, <2>2
  <1> QED BY <1>1, <1>2, <1>3, <1>4, <1>5 DEF Path, q

\* loses its last block,
LEMMA PathPopped ==
  ASSUME NEW h, NEW b, NEW s, Path(h, b, s), Len(s) > 1,
         NEW g, DOMAIN g = DOMAIN h, g[s[Len(s) - 1]].next = NULL,
         \A k \in 1 .. Len(s) - 2 : g[s[k]].next = h[s[k]].next
  PROVE  Path(g, b, Prefix(s, Len(s) - 1))
  <1> DEFINE n == Len(s) - 1
             q == Prefix(s, n)
  <1>1. s \in Seq(DOMAIN h) /\ Len(s) \in Nat
    BY DEF Path
  <1>2. /\ q \in Seq(DOMAIN g) /\ Len(q) = n /\ n \in Nat /\ n >= 1
        /\ \A k \in 1 .. n : q[k] = s[k]
    <2>1. n \in 0 .. Len(s)
      BY <1>1
    <2>2. n \in Nat /\ n >= 1
      BY <1>1
    <2> HIDE DEF n
    <2> QED BY <1>1, <2>1, <2>2, PrefixFacts
  <1> HIDE DEF q
  <1>3. ASSUME NEW j \in 1 .. Len(q), NEW k \in 1 .. Len(q), j # k PROVE q[j] # q[k]
    <2>1. j \in 1 .. Len(s) /\ k \in 1 .. Len(s) /\ q[j] = s[j] /\ q[k] = s[k]
      BY <1>1, <1>2
    <2> QED BY <1>3, <2>1 DEF Path
  <1>4. ASSUME NEW k \in 1 .. Len(q) - 1 PROVE g[q[k]].next = q[k + 1]
    <2>1. /\ k \in 1 .. Len(s) - 2 /\ k \in 1 .. Len(s) - 1
          /\ q[k] = s[k] /\ q[k + 1] = s[k + 1]
      BY <1>1, <1>2
    <2>2. h[s[k]].next = s[k + 1]
      BY <2>1 DEF Path
    <2> QED BY <2>1, <2>2
  <1>5. b = q[1] /\ g[q[Len(q)]].next = NULL
    <2>1. b = s[1]
      BY <1>1 DEF Path
    <2> QED BY <1>1, <1>2, <2>1
  <1> QED BY <1>2, <1>3, <1>4, <1>5 DEF Path, q

\* or one in its midst.
Dropped(s, k) == [j \in 1 .. Len(s) - 1 |-> IF j < k THEN s[j] ELSE s[j + 1]]

LEMMA DroppedFacts ==
  ASSUME NEW S, NEW s \in Seq(S), NEW k \in 1 .. Len(s)
  PROVE  /\ Dropped(s, k) \in Seq(S) /\ Len(Dropped(s, k)) = Len(s) - 1
         /\ \A j \in 1 .. Len(s) - 1 : Dropped(s, k)[j] = IF j < k THEN s[j] ELSE s[j + 1]
  BY DEF Dropped

LEMMA PathCut ==
  ASSUME NEW h, NEW b, NEW s, Path(h, b, s), NULL \notin DOMAIN h,
         NEW i \in 1 .. Len(s), NEW x, x = s[i],
         NEW g, \A k \in 1 .. Len(s) : k # i =>
           /\ s[k] \in DOMAIN g
           /\ g[s[k]].next = IF h[s[k]].next = x THEN h[x].next ELSE h[s[k]].next
  PROVE  Path(g, IF b = x THEN h[x].next ELSE b, Dropped(s, i))
  <1> DEFINE q == Dropped(s, i)
             n == Len(s) - 1
  <1>1. s \in Seq(DOMAIN h) /\ Len(s) \in Nat /\ x \in DOMAIN h
    BY DEF Path
  <1>2. /\ q \in Seq(DOMAIN h) /\ Len(q) = n /\ n \in Nat
        /\ \A j \in 1 .. n : q[j] = IF j < i THEN s[j] ELSE s[j + 1]
    BY <1>1, DroppedFacts
  <1> HIDE DEF q
  <1>3. ASSUME NEW j \in 1 .. n
        PROVE  \E k \in 1 .. Len(s) : k # i /\ q[j] = s[k] /\ k = (IF j < i THEN j ELSE j + 1)
    BY <1>1, <1>2
  <1>4. q \in Seq(DOMAIN g)
    <2>1. \A j \in 1 .. n : q[j] \in DOMAIN g
      BY <1>3
    <2> QED BY <1>2, <2>1
  <1>5. ASSUME NEW j \in 1 .. n, NEW k \in 1 .. n, j # k PROVE q[j] # q[k]
    <2>1. PICK j1 \in 1 .. Len(s) : q[j] = s[j1] /\ j1 = (IF j < i THEN j ELSE j + 1)
      BY <1>3
    <2>2. PICK k1 \in 1 .. Len(s) : q[k] = s[k1] /\ k1 = (IF k < i THEN k ELSE k + 1)
      BY <1>3
    <2>3. j1 # k1
      BY <1>1, <1>5, <2>1, <2>2
    <2> QED BY <2>1, <2>2, <2>3 DEF Path
  <1>6. ASSUME NEW k \in 1 .. Len(s)
        PROVE  h[s[k]].next = IF k = Len(s) THEN NULL ELSE s[k + 1]
    BY <1>1 DEF Path
  <1>7. ASSUME NEW k \in 1 .. Len(s), k # i
        PROVE  g[s[k]].next = IF k + 1 = i THEN h[x].next ELSE h[s[k]].next
    <2>1. (h[s[k]].next = x) <=> (k + 1 = i)
      <3>1. CASE k = Len(s)
        BY <1>1, <1>6, <3>1
      <3>2. CASE k # Len(s)
        <4>1. k + 1 \in 1 .. Len(s)
          BY <1>1, <3>2
        <4> QED BY <1>6, <3>2, <4>1 DEF Path
      <3> QED BY <3>1, <3>2
    <2> QED BY <1>7, <2>1
  <1>8. ASSUME NEW j \in 1 .. n
        PROVE  g[q[j]].next = IF j = n THEN NULL ELSE q[j + 1]
    <2>1. CASE j + 1 < i
      BY <1>1, <1>2, <1>6, <1>7, <2>1
    <2>2. CASE j + 1 = i
      <3>1. q[j] = s[j] /\ j \in 1 .. Len(s) /\ j # i
        BY <1>1, <1>2, <2>2
      <3>2. g[q[j]].next = h[s[i]].next
        BY <1>7, <2>2, <3>1
      <3>3. h[s[i]].next = IF i = Len(s) THEN NULL ELSE s[i + 1]
        BY <1>6
      <3>4. (j = n) <=> (i = Len(s))
        BY <1>1, <2>2
      <3>5. j # n => q[j + 1] = s[i + 1]
        BY <1>1, <1>2, <2>2
      <3> QED BY <3>2, <3>3, <3>4, <3>5
    <2>3. CASE j + 1 > i
      <3>1. q[j] = s[j + 1] /\ j + 1 \in 1 .. Len(s) /\ j + 1 # i /\ (j + 1) + 1 # i
        BY <1>1, <1>2, <2>3
      <3>2. g[q[j]].next = IF j + 1 = Len(s) THEN NULL ELSE s[(j + 1) + 1]
        BY <1>6, <1>7, <3>1
      <3>3. j # n => q[j + 1] = s[(j + 1) + 1]
        BY <1>1, <1>2, <2>3
      <3>4. (j = n) <=> (j + 1 = Len(s))
        BY <1>1
      <3> QED BY <3>2, <3>3, <3>4
    <2> QED BY <1>1, <2>1, <2>2, <2>3
  <1>9. n = 0 => (IF b = x THEN h[x].next ELSE b) = NULL
    <2> SUFFICES ASSUME n = 0 PROVE (IF b = x THEN h[x].next ELSE b) = NULL
      OBVIOUS
    <2>1. Len(s) = 1
      BY <1>1
    <2>2. i = 1
      BY <2>1
    <2>3. b = x
      BY <2>1, <2>2 DEF Path
    <2> QED BY <1>6, <2>1, <2>2, <2>3
  <1>10. n # 0 => (IF b = x THEN h[x].next ELSE b) = q[1]
    <2>1. (b = x) <=> (i = 1)
      <3>1. b = s[1] /\ 1 \in 1 .. Len(s)
        BY <1>1 DEF Path
      <3> QED BY <3>1 DEF Path
    <2>2. CASE i = 1
      <3> SUFFICES ASSUME n # 0 PROVE h[x].next = q[1]
        BY <2>1, <2>2
      <3>1. 1 \in 1 .. n /\ Len(s) # 1
        BY <1>1, <1>2
      <3>2. h[x].next = s[2]
        BY <1>6, <2>2, <3>1
      <3> QED BY <1>2, <2>2, <3>1, <3>2
    <2>3. CASE i # 1
      <3>1. (b = s[1] /\ q[1] = s[1]) \/ n = 0
        BY <1>1, <1>2, <2>3 DEF Path
      <3> QED BY <2>1, <2>3, <3>1
    <2> QED BY <2>2, <2>3
  <1> HIDE DEF n
  <1>11. \A j, k \in 1 .. Len(q) : j # k => q[j] # q[k]
    BY <1>2, <1>5
  <1>12. \A j \in 1 .. Len(q) - 1 : g[q[j]].next = q[j + 1]
    BY <1>2, <1>8
  <1>13. Len(q) # 0 => g[q[Len(q)]].next = NULL
    BY <1>2, <1>8
  <1> QED BY <1>2, <1>4, <1>9, <1>10, <1>11, <1>12, <1>13 DEF Path, q
-----------------------------------------------------------------------------
(* The device list                                                         *)

Devices   == ListFrom(dev, pMidiInDevList)
Events(d) == ListFrom(ev, dev[d].list)

\* What holds of the device list even after a crossing: only the Lua thread writes it.
\* Its blocks are those in use, but for the one that CloseMidiIn has taken off it; no
\* number is there twice.  Windows delivers for devices on the list only, and lets
\* midiInClose return when MidiReceive is done with the device.
DevListInv ==
  /\ Path(dev, pMidiInDevList, Devices)
  /\ IF lpc = "freeDev"
     THEN DOMAIN dev = ToSet(Devices) \cup {ldev} /\ ldev \notin ToSet(Devices)
     ELSE DOMAIN dev = ToSet(Devices)
  /\ \A d1, d2 \in DOMAIN dev : d1 # d2 => dev[d1].Number # dev[d2].Number

CallInv ==
  /\ lpc # "idle" => ldev \in DOMAIN dev /\ dev[ldev].Number = ln
  /\ lpc = "unchain" => p \in DOMAIN ev

DeliveryInv ==
  /\ \A n \in started : \E d \in DOMAIN dev : dev[d].Number = n
  /\ lpc \in {"close", "unlink", "freeDev"} => ln \notin started
  /\ cpc # "idle" => cn \in started \/ (lpc = "close" /\ ln = cn)

LuaInv == TypeOK /\ DevListInv /\ CallInv /\ DeliveryInv

-----------------------------------------------------------------------------
(* The event lists                                                         *)

\* What holds until a crossing.  The events are on the lists of the devices, each on
\* one, but for the one that RemoveMidiInEvent is about to free and the one that
\* MidiReceive is about to chain.
Listed == UNION {ToSet(Events(d)) : d \in DOMAIN dev}
Loose  == (IF lpc = "free" THEN {p} ELSE {}) \cup (IF cpc # "idle" THEN {cev} ELSE {})

EvListInv ==
  /\ \A d \in DOMAIN dev : Path(ev, dev[d].list, Events(d))
  /\ \A d1, d2 \in DOMAIN dev :
       d1 # d2 => ToSet(Events(d1)) \cap ToSet(Events(d2)) = {}
  /\ DOMAIN ev = Listed \cup Loose /\ Listed \cap Loose = {}
  /\ lpc = "free" /\ cpc # "idle" => p # cev

\* RemoveMidiInEvent walks along the list, two blocks in hand.
WalkInv ==
  lpc \in {"walk", "unchain"} =>
    \E k \in 1 .. Len(Events(ldev)) :
      /\ p = Events(ldev)[k]
      /\ pprev # NULL => k > 1 /\ pprev = Events(ldev)[k - 1]
      /\ lpc = "unchain" => k = Len(Events(ldev))

\* The search of MidiReceive has not passed its device: it stands on the list, or on
\* the device that has just left it, before the one it looks for.
SearchInv ==
  cpc = "find" =>
    \E k \in 1 .. Len(Devices), j \in 1 .. Len(Devices) :
      /\ dev[Devices[k]].Number = cn /\ j <= k
      /\ \/ cdev = Devices[j]
         \/ lpc = "freeDev" /\ cdev = ldev /\ dev[ldev].next = Devices[j]

ChainInv ==
  /\ cpc \in {"load", "store"} => cdev \in ToSet(Devices) /\ dev[cdev].Number = cn
  /\ cpc = "store" => ev[cev].next = dev[cdev].list

RaceInv == ~raced => EvListInv /\ WalkInv /\ SearchInv /\ ChainInv /\ ~wild

-----------------------------------------------------------------------------
(* Facts about every state                                                 *)

LEMMA InSet ==
  ASSUME NEW S, NEW s \in Seq(S), NEW x
  PROVE  x \in ToSet(s) <=> \E k \in 1 .. Len(s) : s[k] = x
  BY DEF ToSet

HeapInv ==
  /\ IsFiniteSet(DOMAIN dev) /\ IsFiniteSet(DOMAIN ev)
  /\ NULL \notin DOMAIN dev /\ NULL \notin DOMAIN ev

LEMMA Heaps == TypeOK => HeapInv
  <1> SUFFICES ASSUME TypeOK PROVE HeapInv
    OBVIOUS
  <1>1. DOMAIN dev \in SUBSET DevBlocks /\ DOMAIN ev \in SUBSET EvBlocks
    BY DEF TypeOK
  <1>2. IsFiniteSet(DOMAIN dev)
    <2> DEFINE T == DOMAIN dev
    <2> HIDE DEF T
    <2>1. T \in SUBSET DevBlocks => IsFiniteSet(T)
      BY BlocksAssumption, FS_Subset
    <2> QED BY <1>1, <2>1 DEF T
  <1>3. IsFiniteSet(DOMAIN ev)
    <2> DEFINE T == DOMAIN ev
    <2> HIDE DEF T
    <2>1. T \in SUBSET EvBlocks => IsFiniteSet(T)
      BY BlocksAssumption, FS_Subset
    <2> QED BY <1>1, <2>1 DEF T
  <1> QED BY <1>1, <1>2, <1>3, NullAssumption DEF HeapInv

LEMMA HeapsNext == TypeOK' => HeapInv'
  BY Heaps, PTL

\* GetMidiInEntry finds the device on the list, and NULL if there is none.
LEMMA EntryFacts ==
  ASSUME TypeOK, Path(dev, pMidiInDevList, Devices), NEW n, NEW d, d = GetMidiInEntry(n)
  PROVE  \/ d = NULL /\ \A x \in ToSet(Devices) : dev[x].Number # n
         \/ d \in ToSet(Devices) /\ dev[d].Number = n
  <1> DEFINE I == {k \in 1 .. Len(Devices) : dev[Devices[k]].Number = n}
             m == IF I # {} THEN Min(I) ELSE 0
  <1>1. Devices \in Seq(DOMAIN dev)
    BY DEF Path
  <1>2. d = IF m = 0 THEN NULL ELSE Devices[m]
    BY <1>1 DEF GetMidiInEntry, SelectInSeq, Devices
  <1>3. I # {} => Min(I) \in I
    <2>1. I \in SUBSET Nat
      OBVIOUS
    <2> HIDE DEF I
    <2> QED BY <2>1, LeastElement DEF Min
  <1>4. 0 \notin I
    OBVIOUS
  <1>5. CASE I # {}
    <2>1. m \in I /\ d = Devices[m]
      BY <1>2, <1>3, <1>4, <1>5
    <2> HIDE DEF m
    <2>2. d \in ToSet(Devices)
      BY <1>1, <2>1, InSet
    <2> QED BY <2>1, <2>2
  <1>6. CASE I = {}
    <2>1. d = NULL
      BY <1>2, <1>6
    <2>2. \A k \in 1 .. Len(Devices) : dev[Devices[k]].Number # n
      BY <1>6
    <2> QED BY <1>1, <2>1, <2>2, InSet
  <1> QED BY <1>5, <1>6

-----------------------------------------------------------------------------
(* Types                                                                   *)

USE DEF heap, lua, cb, vars, LuaAt, CbAt

\* The writes to the two heaps: malloc,
LEMMA DevWith ==
  ASSUME NEW d, NEW content, dev' = With(dev, d, content)
  PROVE  /\ DOMAIN dev' = DOMAIN dev \cup {d} /\ dev'[d] = content
         /\ \A x \in DOMAIN dev \ {d} : dev'[x] = dev[x]
  BY DEF With

LEMMA EvWith ==
  ASSUME NEW e, NEW content, ev' = With(ev, e, content)
  PROVE  /\ DOMAIN ev' = DOMAIN ev \cup {e} /\ ev'[e] = content
         /\ \A x \in DOMAIN ev \ {e} : ev'[x] = ev[x]
  BY DEF With

\* free,
LEMMA DevWithout ==
  ASSUME NEW blocks, dev' = Without(dev, blocks)
  PROVE  /\ DOMAIN dev' = DOMAIN dev \ blocks
         /\ \A x \in DOMAIN dev \ blocks : dev'[x] = dev[x]
  BY DEF Without

LEMMA EvWithout ==
  ASSUME NEW blocks, ev' = Without(ev, blocks)
  PROVE  /\ DOMAIN ev' = DOMAIN ev \ blocks
         /\ \A x \in DOMAIN ev \ blocks : ev'[x] = ev[x]
  BY DEF Without

\* and the assignments to the pointers of a block.
DevTyped == \A x \in DOMAIN dev : dev[x] \in DevBlock
EvTyped  == \A x \in DOMAIN ev : ev[x] \in EvBlock

LEMMA DevListSet ==
  ASSUME DevTyped, NEW d, NEW e \in EvBlocks \cup {NULL},
         dev' = [dev EXCEPT ![d].list = e]
  PROVE  /\ DOMAIN dev' = DOMAIN dev /\ DevTyped'
         /\ \A x \in DOMAIN dev :
              /\ dev'[x].Number = dev[x].Number /\ dev'[x].next = dev[x].next
              /\ dev'[x].list = IF x = d THEN e ELSE dev[x].list
  BY DEF DevTyped, DevBlock

LEMMA EvNextSet ==
  ASSUME EvTyped, NEW b, NEW e \in EvBlocks \cup {NULL},
         ev' = [ev EXCEPT ![b].next = e]
  PROVE  /\ DOMAIN ev' = DOMAIN ev /\ EvTyped'
         /\ \A x \in DOMAIN ev :
              /\ ev'[x].msg = ev[x].msg
              /\ ev'[x].next = IF x = b THEN e ELSE ev[x].next
  BY DEF EvTyped, EvBlock

LEMMA DevUnlinked ==
  ASSUME DevTyped, NEW d, NEW next \in DevBlocks \cup {NULL},
         dev' = [x \in DOMAIN dev |->
                   IF dev[x].next = d THEN [dev[x] EXCEPT !.next = next] ELSE dev[x]]
  PROVE  /\ DOMAIN dev' = DOMAIN dev /\ DevTyped'
         /\ \A x \in DOMAIN dev :
              /\ dev'[x].Number = dev[x].Number /\ dev'[x].list = dev[x].list
              /\ dev'[x].next = IF dev[x].next = d THEN next ELSE dev[x].next
  BY DEF DevTyped, DevBlock

LEMMA EntryType ==
  ASSUME LuaInv, NEW n, GetMidiInEntry(n) # NULL
  PROVE  /\ GetMidiInEntry(n) \in ToSet(Devices) /\ GetMidiInEntry(n) \in DOMAIN dev
         /\ dev[GetMidiInEntry(n)].Number = n
  <1>1. GetMidiInEntry(n) \in ToSet(Devices) /\ dev[GetMidiInEntry(n)].Number = n
    BY EntryFacts DEF LuaInv, DevListInv
  <1>2. ToSet(Devices) \subseteq DOMAIN dev
    BY DEF LuaInv, DevListInv
  <1> QED BY <1>1, <1>2

\* The steps of the Lua thread,
LEMMA LuaTypes ==
  ASSUME LuaInv,
         \/ \E n \in Numbers : plOpenMidiIn(n) \/ plCloseMidiIn(n) \/ plGetEvent(n)
         \/ LuaStep
  PROVE  TypeOK'
  <1>0. TypeOK /\ DevTyped /\ EvTyped
    BY DEF LuaInv, TypeOK, DevTyped, EvTyped
  <1>1. ASSUME NEW n \in Numbers, plOpenMidiIn(n) PROVE TypeOK'
    <2> DEFINE content == [Number |-> n, list |-> NULL, next |-> pMidiInDevList]
    <2>1. PICK d \in DevBlocks \ DOMAIN dev : dev' = With(dev, d, content) /\ pMidiInDevList' = d
      BY <1>1 DEF plOpenMidiIn
    <2>2. content \in DevBlock
      BY <1>0 DEF DevBlock, TypeOK
    <2> HIDE DEF content
    <2>3. DOMAIN dev' \subseteq DevBlocks /\ DevTyped'
      <3>1. DOMAIN dev \subseteq DevBlocks
        BY <1>0 DEF TypeOK
      <3>2. /\ DOMAIN dev' = DOMAIN dev \cup {d} /\ dev'[d] = content
            /\ \A x \in DOMAIN dev \ {d} : dev'[x] = dev[x]
        BY <2>1, DevWith
      <3> QED BY <1>0, <2>2, <3>1, <3>2 DEF DevTyped
    <2>4. /\ started' = started \cup {n}
          /\ UNCHANGED <<ev, lua, got, cb, arrived, ignored, raced, wild>>
      BY <1>1 DEF plOpenMidiIn
    <2> QED BY <1>0, <2>1, <2>3, <2>4 DEF TypeOK, DevTyped
  <1>2. ASSUME NEW n \in Numbers, plCloseMidiIn(n) PROVE TypeOK'
    <2>1. GetMidiInEntry(n) # NULL
      BY <1>2 DEF plCloseMidiIn
    <2>2. GetMidiInEntry(n) \in DevBlocks
      BY <1>0, <2>1, EntryType DEF TypeOK
    <2> QED BY <1>0, <1>2, <2>2 DEF plCloseMidiIn, StopInput, Begin, TypeOK
  <1>3. ASSUME NEW n \in Numbers, plGetEvent(n) PROVE TypeOK'
    <2> DEFINE entry == GetMidiInEntry(n)
               first == IF entry = NULL THEN NULL ELSE dev[entry].list
    <2>1. CASE first = NULL
      BY <1>0, <1>3, <2>1 DEF plGetEvent, TypeOK
    <2>2. CASE first # NULL
      <3>1. entry \in DOMAIN dev /\ first = dev[entry].list
        BY <2>2, EntryType
      <3>2. entry \in DevBlocks /\ first \in EvBlocks \cup {NULL}
        BY <1>0, <3>1 DEF DevBlock, TypeOK
      <3>3. lpc' = "walk" /\ Begin(n) /\ p' = first /\ pprev' = NULL /\ UNCHANGED got
        BY <1>3, <2>2 DEF plGetEvent
      <3> QED BY <1>0, <1>3, <3>2, <3>3 DEF plGetEvent, Begin, TypeOK
    <2> QED BY <2>1, <2>2
  <1>4. CASE LuaWalk
    <2>1. p \in DOMAIN ev
      BY <1>4 DEF LuaWalk, LuaAstray
    <2>2. ev[p].next \in EvBlocks \cup {NULL}
      BY <1>0, <2>1 DEF EvBlock, EvTyped
    <2> QED BY <1>0, <1>4, <2>2 DEF LuaWalk, WalkOn, TypeOK
  <1>5. CASE LuaUnchain
    <2>1. p \in DOMAIN ev
      BY <1>5 DEF LuaUnchain, LuaInv, CallInv
    <2>2. got' \in Msgs
      BY <1>0, <1>5, <2>1 DEF LuaUnchain, EvBlock, EvTyped
    <2>3. arrived' \in [Numbers -> Seq(Msgs)]
      <3>1. \A s \in Seq(Msgs) : (IF s = <<>> THEN s ELSE Tail(s)) \in Seq(Msgs)
        OBVIOUS
      <3>2. arrived' = [arrived EXCEPT ![ln] = IF @ = <<>> THEN @ ELSE Tail(@)]
        BY <1>5 DEF LuaUnchain
      <3>3. arrived \in [Numbers -> Seq(Msgs)]
        BY <1>0 DEF TypeOK
      <3> QED BY <3>1, <3>2, <3>3
    <2>4. DOMAIN dev' = DOMAIN dev /\ DevTyped'
      <3>1. CASE dev' = [dev EXCEPT ![ldev].list = NULL]
        BY <1>0, <3>1, DevListSet
      <3>2. CASE dev' = dev
        BY <1>0, <3>2 DEF DevTyped
      <3> QED BY <1>5, <3>1, <3>2 DEF LuaUnchain
    <2>5. DOMAIN ev' = DOMAIN ev /\ EvTyped'
      <3>1. CASE ev' = [ev EXCEPT ![pprev].next = NULL]
        BY <1>0, <3>1, EvNextSet
      <3>2. CASE ev' = ev
        BY <1>0, <3>2 DEF EvTyped
      <3> QED BY <1>5, <3>1, <3>2 DEF LuaUnchain
    <2> QED BY <1>0, <1>5, <2>2, <2>3, <2>4, <2>5 DEF LuaUnchain, TypeOK, DevTyped, EvTyped
  <1>6. CASE LuaFree
    <2>1. DOMAIN ev' \subseteq DOMAIN ev /\ EvTyped'
      <3>1. ev' = Without(ev, {p})
        BY <1>6 DEF LuaFree
      <3> QED BY <1>0, <3>1, EvWithout DEF EvTyped
    <2> QED BY <1>0, <1>6, <2>1 DEF LuaFree, LuaReturns, TypeOK, EvTyped
  <1>7. CASE LuaClosed
    BY <1>0, <1>7 DEF LuaClosed, TypeOK
  <1>8. CASE LuaUnlink
    <2>1. ldev \in DOMAIN dev
      BY <1>8 DEF LuaUnlink, LuaInv, CallInv
    <2>2. dev[ldev].next \in DevBlocks \cup {NULL}
      BY <1>0, <2>1 DEF DevTyped, DevBlock
    <2>3. DOMAIN dev' = DOMAIN dev /\ DevTyped'
      <3> DEFINE next == dev[ldev].next
      <3>1. CASE dev' = [d \in DOMAIN dev |-> IF dev[d].next = ldev
                                           THEN [dev[d] EXCEPT !.next = next]
                                           ELSE dev[d]]
        <4> HIDE DEF next
        <4>1. next \in DevBlocks \cup {NULL}
          BY <2>2 DEF next
        <4> QED BY <1>0, <3>1, <4>1, DevUnlinked
      <3>2. CASE dev' = dev
        BY <1>0, <3>2 DEF DevTyped
      <3> QED BY <1>8, <3>1, <3>2 DEF LuaUnlink
    <2>4. pMidiInDevList' \in DevBlocks \cup {NULL}
      BY <1>0, <1>8, <2>2 DEF LuaUnlink, TypeOK
    <2>5. arrived' \in [Numbers -> Seq(Msgs)]
      <3>1. arrived' = [arrived EXCEPT ![ln] = <<>>]
        BY <1>8 DEF LuaUnlink
      <3>2. arrived \in [Numbers -> Seq(Msgs)] /\ <<>> \in Seq(Msgs)
        BY <1>0 DEF TypeOK
      <3> QED BY <3>1, <3>2
    <2> QED BY <1>0, <1>8, <2>3, <2>4, <2>5 DEF LuaUnlink, TypeOK, DevTyped
  <1>9. CASE LuaFreeDev
    <2>1. DOMAIN ev' \subseteq DOMAIN ev /\ EvTyped'
      <3>1. ev' = Without(ev, ClearedEvents)
        BY <1>9 DEF LuaFreeDev
      <3> QED BY <1>0, <3>1, EvWithout DEF EvTyped
    <2>2. DOMAIN dev' \subseteq DOMAIN dev /\ DevTyped'
      <3>1. dev' = Without(dev, {ldev})
        BY <1>9 DEF LuaFreeDev
      <3> QED BY <1>0, <3>1, DevWithout DEF DevTyped
    <2>3. raced' \in BOOLEAN
      BY <1>0, <1>9 DEF LuaFreeDev, TypeOK
    <2> QED BY <1>0, <1>9, <2>1, <2>2, <2>3 DEF LuaFreeDev, LuaReturns, TypeOK, DevTyped, EvTyped
  <1> QED BY <1>1, <1>2, <1>3, <1>4, <1>5, <1>6, <1>7, <1>8, <1>9 DEF LuaStep

\* and those of the other one.
LEMMA CbTypes ==
  ASSUME LuaInv,
         (\E n \in Numbers, m \in Msgs : MidiReceive(n, m)) \/ CbStep \/ Strays
  PROVE  TypeOK'
  <1>0. TypeOK /\ DevTyped /\ EvTyped
    BY DEF LuaInv, TypeOK, DevTyped, EvTyped
  <1>1. ASSUME NEW n \in Numbers, NEW m \in Msgs, MidiReceive(n, m) PROVE TypeOK'
    <2> DEFINE content == [msg |-> m, next |-> NULL]
    <2>1. CASE m \notin Kept /\ ignored' = m /\ UNCHANGED <<ev, cb>>
      BY <1>0, <1>1, <2>1 DEF MidiReceive, TypeOK
    <2>2. CASE /\ \E e \in EvBlocks \ DOMAIN ev : ev' = With(ev, e, content) /\ cev' = e
               /\ cpc' = "find" /\ cn' = n /\ cdev' = pMidiInDevList
               /\ UNCHANGED ignored
      <3>1. PICK e \in EvBlocks \ DOMAIN ev : ev' = With(ev, e, content) /\ cev' = e
        BY <2>2
      <3>2. content \in EvBlock
        BY DEF EvBlock
      <3> HIDE DEF content
      <3>3. DOMAIN ev \subseteq EvBlocks
        BY <1>0 DEF TypeOK
      <3>4. DOMAIN ev' \subseteq EvBlocks /\ EvTyped'
        <4>1. /\ DOMAIN ev' = DOMAIN ev \cup {e} /\ ev'[e] = content
              /\ \A x \in DOMAIN ev \ {e} : ev'[x] = ev[x]
          BY <3>1, EvWith
        <4> QED BY <1>0, <3>2, <3>3, <4>1 DEF EvTyped
      <3> QED BY <1>0, <1>1, <2>2, <3>1, <3>4 DEF MidiReceive, TypeOK, EvTyped
    <2> QED BY <1>1, <2>1, <2>2 DEF MidiReceive
  <1>2. CASE CbFind
    <2>1. cdev # NULL => dev[cdev].next \in DevBlocks \cup {NULL}
      BY <1>0, <1>2 DEF CbFind, CbAstray, DevBlock, DevTyped
    <2> QED BY <1>0, <1>2, <2>1 DEF CbFind, CbReturns, TypeOK
  <1>3. CASE CbLoad
    <2>1. dev[cdev].list \in EvBlocks \cup {NULL}
      BY <1>0, <1>3 DEF CbLoad, CbAstray, DevBlock, DevTyped
    <2>2. DOMAIN ev' = DOMAIN ev /\ EvTyped'
      <3>1. ev' = [ev EXCEPT ![cev].next = dev[cdev].list]
        BY <1>3 DEF CbLoad, Chain
      <3> QED BY <1>0, <2>1, <3>1, EvNextSet
    <2> QED BY <1>0, <1>3, <2>2 DEF CbLoad, TypeOK, EvTyped
  <1>4. CASE CbStore
    <2>1. cev \in DOMAIN ev
      BY <1>4 DEF CbStore, Publish, CbAstray
    <2>2. cev \in EvBlocks /\ ev[cev].msg \in Msgs
      BY <1>0, <2>1 DEF EvBlock, EvTyped, TypeOK
    <2>3. DOMAIN dev' = DOMAIN dev /\ DevTyped'
      <3>1. dev' = [dev EXCEPT ![cdev].list = cev]
        BY <1>4 DEF CbStore, Publish
      <3> QED BY <1>0, <2>2, <3>1, DevListSet
    <2>4. arrived' \in [Numbers -> Seq(Msgs)]
      <3>0. PICK m, a : m = ev[cev].msg /\ a = arrived
        OBVIOUS
      <3>1. arrived' = [a EXCEPT ![cn] = Append(@, m)]
        BY <1>4, <3>0 DEF CbStore, Publish
      <3>2. a \in [Numbers -> Seq(Msgs)] /\ m \in Msgs
        BY <1>0, <2>2, <3>0 DEF TypeOK
      <3>3. \A s \in Seq(Msgs) : Append(s, m) \in Seq(Msgs)
        BY <3>2
      <3> QED BY <3>1, <3>2, <3>3
    <2>5. UNCHANGED <<pMidiInDevList, ev, started, lua, got, ignored, raced, wild>>
      BY <1>4 DEF CbStore, Publish
    <2>6. cpc' = "idle" /\ cn' = NULL /\ cdev' = NULL /\ cev' = NULL
      BY <1>4 DEF CbStore, Publish, CbReturns
    <2> QED BY <1>0, <2>3, <2>4, <2>5, <2>6 DEF TypeOK, DevTyped
  <1>5. CASE Strays
    BY <1>0, <1>5 DEF Strays, TypeOK
  <1> QED BY <1>1, <1>2, <1>3, <1>4, <1>5 DEF CbStep

LEMMA NextTypes == LuaInv /\ [Next]_vars => TypeOK'
  <1>1. LuaInv /\ UNCHANGED vars => TypeOK'
    BY DEF LuaInv, TypeOK
  <1> QED BY <1>1, LuaTypes, CbTypes DEF Next

-----------------------------------------------------------------------------
(* The device list, step by step                                           *)

LEMMA DevicesType ==
  ASSUME LuaInv
  PROVE  /\ Devices \in Seq(DOMAIN dev) /\ Len(Devices) \in Nat
         /\ \A k \in 1 .. Len(Devices) : Devices[k] \in ToSet(Devices) /\ Devices[k] \in DOMAIN dev
         /\ ToSet(Devices) \subseteq DOMAIN dev
  <1>1. Devices \in Seq(DOMAIN dev) /\ Len(Devices) \in Nat
    BY DEF LuaInv, DevListInv, Path
  <1>2. ToSet(Devices) \subseteq DOMAIN dev
    BY DEF LuaInv, DevListInv
  <1> QED BY <1>1, <1>2, InSet

\* Most of them leave it as it is,
LEMMA SameList ==
  ASSUME LuaInv, TypeOK', pMidiInDevList' = pMidiInDevList,
         \A x \in ToSet(Devices) : x \in DOMAIN dev' /\ dev'[x].next = dev[x].next
  PROVE  Path(dev', pMidiInDevList', Devices') /\ Devices' = Devices
  <1>1. Path(dev, pMidiInDevList, Devices)
    BY DEF LuaInv, DevListInv
  <1>2. \A k \in 1 .. Len(Devices) :
          Devices[k] \in DOMAIN dev' /\ dev'[Devices[k]].next = dev[Devices[k]].next
    BY DevicesType
  <1>3. Path(dev', pMidiInDevList, Devices)
    BY <1>1, <1>2, PathKept
  <1>4. IsFiniteSet(DOMAIN dev') /\ NULL \notin DOMAIN dev'
    BY HeapsNext DEF HeapInv
  <1>5. ListFrom(dev', pMidiInDevList) = Devices
    BY <1>3, <1>4, PathIsList
  <1> QED BY <1>3, <1>5 DEF Devices

LEMMA SameDevices ==
  ASSUME LuaInv, TypeOK', pMidiInDevList' = pMidiInDevList, DOMAIN dev' = DOMAIN dev,
         \A x \in DOMAIN dev : dev'[x].next = dev[x].next /\ dev'[x].Number = dev[x].Number,
         (lpc' = "freeDev") <=> (lpc = "freeDev"), lpc = "freeDev" => ldev' = ldev
  PROVE  DevListInv' /\ Devices' = Devices
  <1>1. Path(dev', pMidiInDevList', Devices') /\ Devices' = Devices
    BY DevicesType, SameList
  <1> QED BY <1>1 DEF LuaInv, DevListInv

\* plOpenMidiIn puts a device of a new number at its head,
LEMMA OpenedList ==
  ASSUME LuaInv, TypeOK', NEW n \in Numbers, plOpenMidiIn(n)
  PROVE  /\ \E d \in DevBlocks \ DOMAIN dev :
              /\ DOMAIN dev' = DOMAIN dev \cup {d}
              /\ dev'[d] = [Number |-> n, list |-> NULL, next |-> pMidiInDevList]
              /\ \A x \in DOMAIN dev : dev'[x] = dev[x]
              /\ Devices' = <<d>> \o Devices /\ Len(Devices') = Len(Devices) + 1
              /\ Devices'[1] = d /\ \A k \in 1 .. Len(Devices) : Devices'[k + 1] = Devices[k]
              /\ \A x : x \in ToSet(Devices') <=> x = d \/ x \in ToSet(Devices)
         /\ \A x \in DOMAIN dev : dev[x].Number # n
         /\ DevListInv'
  <1> DEFINE content == [Number |-> n, list |-> NULL, next |-> pMidiInDevList]
  <1>1. PICK d \in DevBlocks \ DOMAIN dev : dev' = With(dev, d, content) /\ pMidiInDevList' = d
    BY DEF plOpenMidiIn
  <1>2. content.Number = n /\ content.next = pMidiInDevList
    OBVIOUS
  <1> HIDE DEF content
  <1>3. /\ DOMAIN dev' = DOMAIN dev \cup {d} /\ dev'[d] = content
        /\ \A x \in DOMAIN dev \ {d} : dev'[x] = dev[x]
    BY <1>1, DevWith
  <1>4. lpc = "idle" /\ lpc' = "idle" /\ GetMidiInEntry(n) = NULL
    BY DEF plOpenMidiIn
  <1>5. ToSet(Devices) = DOMAIN dev /\ NULL \notin DOMAIN dev
    BY <1>4, Heaps DEF LuaInv, DevListInv, HeapInv
  <1>6. \A x \in DOMAIN dev : dev[x].Number # n
    BY <1>4, <1>5, EntryFacts DEF LuaInv, DevListInv
  <1>7. Path(dev', pMidiInDevList, Devices)
    <2>1. Path(dev, pMidiInDevList, Devices)
      BY DEF LuaInv, DevListInv
    <2>2. \A k \in 1 .. Len(Devices) :
            Devices[k] \in DOMAIN dev' /\ dev'[Devices[k]].next = dev[Devices[k]].next
      BY <1>1, <1>3, DevicesType
    <2> QED BY <2>1, <2>2, PathKept
  <1>8. /\ Path(dev', d, <<d>> \o Devices)
        /\ Len(<<d>> \o Devices) = Len(Devices) + 1 /\ (<<d>> \o Devices)[1] = d
        /\ \A k \in 1 .. Len(Devices) : (<<d>> \o Devices)[k + 1] = Devices[k]
    <2>1. \A k \in 1 .. Len(Devices) : Devices[k] # d
      BY <1>1, DevicesType
    <2>2. dev'[d].next = pMidiInDevList /\ d \in DOMAIN dev'
      BY <1>2, <1>3
    <2> QED BY <1>7, <2>1, <2>2, PathPushed
  <1>9. Devices' = <<d>> \o Devices
    <2> DEFINE q == <<d>> \o Devices
    <2> HIDE DEF q
    <2>1. Path(dev', d, q)
      BY <1>8 DEF q
    <2>2. IsFiniteSet(DOMAIN dev') /\ NULL \notin DOMAIN dev'
      BY HeapsNext DEF HeapInv
    <2>3. ListFrom(dev', d) = q
      BY <2>1, <2>2, PathIsList
    <2> QED BY <1>1, <2>3 DEF Devices, q
  <1>10. ASSUME NEW x PROVE x \in ToSet(Devices') <=> x = d \/ x \in ToSet(Devices)
    <2>1. Devices' \in Seq(DOMAIN dev')
      BY <1>8, <1>9 DEF Path
    <2>2. x \in ToSet(Devices') <=> \E k \in 1 .. Len(Devices') : Devices'[k] = x
      BY <2>1, InSet
    <2>3. x \in ToSet(Devices) <=> \E k \in 1 .. Len(Devices) : Devices[k] = x
      BY DevicesType, InSet
    <2>4. Len(Devices') = Len(Devices) + 1 /\ Devices'[1] = d /\ Len(Devices) \in Nat
      BY <1>8, <1>9, DevicesType
    <2>5. \A k \in 1 .. Len(Devices) : Devices'[k + 1] = Devices[k]
      BY <1>8, <1>9
    <2>6. ASSUME x \in ToSet(Devices') PROVE x = d \/ x \in ToSet(Devices)
      <3>1. PICK k \in 1 .. Len(Devices') : Devices'[k] = x
        BY <2>2, <2>6
      <3>2. CASE k = 1
        BY <2>4, <3>1, <3>2
      <3>3. CASE k # 1
        <4>1. k - 1 \in 1 .. Len(Devices) /\ (k - 1) + 1 = k
          BY <2>4, <3>1, <3>3
        <4>2. Devices[k - 1] = x
          BY <2>5, <3>1, <4>1
        <4> QED BY <2>3, <4>1, <4>2
      <3> QED BY <3>2, <3>3
    <2>7. x = d => x \in ToSet(Devices')
      <3>1. 1 \in 1 .. Len(Devices')
        BY <2>4
      <3> QED BY <2>2, <2>4, <3>1
    <2>8. ASSUME x \in ToSet(Devices) PROVE x \in ToSet(Devices')
      <3>1. PICK k \in 1 .. Len(Devices) : Devices[k] = x
        BY <2>3, <2>8
      <3>2. k + 1 \in 1 .. Len(Devices')
        BY <2>4
      <3> QED BY <2>2, <2>5, <3>1, <3>2
    <2> QED BY <2>6, <2>7, <2>8
  <1>11. DevListInv'
    <2>1. Path(dev', pMidiInDevList', Devices')
      BY <1>1, <1>8, <1>9
    <2>2. DOMAIN dev' = ToSet(Devices')
      BY <1>3, <1>5, <1>10
    <2>3. \A d1, d2 \in DOMAIN dev' : d1 # d2 => dev'[d1].Number # dev'[d2].Number
      BY <1>1, <1>2, <1>3, <1>6 DEF LuaInv, DevListInv
    <2> QED BY <1>4, <2>1, <2>2, <2>3 DEF DevListInv
  <1>12. \A x \in DOMAIN dev : dev'[x] = dev[x]
    BY <1>1, <1>3
  <1>13. /\ Len(Devices') = Len(Devices) + 1 /\ Devices'[1] = d
         /\ \A k \in 1 .. Len(Devices) : Devices'[k + 1] = Devices[k]
    BY <1>8, <1>9
  <1>14. /\ DOMAIN dev' = DOMAIN dev \cup {d}
         /\ dev'[d] = [Number |-> n, list |-> NULL, next |-> pMidiInDevList]
    BY <1>3 DEF content
  <1> QED BY <1>6, <1>9, <1>10, <1>11, <1>12, <1>13, <1>14

LEMMA DroppedSet ==
  ASSUME NEW S, NEW s \in Seq(S), \A j, k \in 1 .. Len(s) : j # k => s[j] # s[k],
         NEW i \in 1 .. Len(s), NEW x
  PROVE  x \in ToSet(Dropped(s, i)) <=> x \in ToSet(s) /\ x # s[i]
  <1> DEFINE q == Dropped(s, i)
  <1>1. /\ q \in Seq(S) /\ Len(q) = Len(s) - 1 /\ Len(s) \in Nat
        /\ \A j \in 1 .. Len(s) - 1 : q[j] = IF j < i THEN s[j] ELSE s[j + 1]
    BY DroppedFacts
  <1> HIDE DEF q
  <1>2. x \in ToSet(q) <=> \E k \in 1 .. Len(q) : q[k] = x
    BY <1>1, InSet
  <1>3. x \in ToSet(s) <=> \E k \in 1 .. Len(s) : s[k] = x
    BY InSet
  <1>4. ASSUME NEW j \in 1 .. Len(q), q[j] = x PROVE x \in ToSet(s) /\ x # s[i]
    <2>1. \E k \in 1 .. Len(s) : k # i /\ q[j] = s[k]
      BY <1>1
    <2> QED BY <1>3, <1>4, <2>1
  <1>5. ASSUME NEW k \in 1 .. Len(s), s[k] = x, x # s[i] PROVE x \in ToSet(q)
    <2>1. CASE k < i
      <3>1. k \in 1 .. Len(q) /\ q[k] = x
        BY <1>1, <1>5, <2>1
      <3> QED BY <1>2, <3>1
    <2>2. CASE k > i
      <3>1. k - 1 \in 1 .. Len(q) /\ ~(k - 1 < i) /\ (k - 1) + 1 = k
        BY <1>1, <2>2
      <3>2. q[k - 1] = x
        BY <1>1, <1>5, <3>1
      <3> QED BY <1>2, <3>1, <3>2
    <2> QED BY <1>5, <2>1, <2>2
  <1> QED BY <1>2, <1>3, <1>4, <1>5 DEF q

\* LuaUnlink takes a device from its midst,
LEMMA UnlinkedList ==
  ASSUME LuaInv, TypeOK', LuaUnlink
  PROVE  /\ \E i \in 1 .. Len(Devices) : ldev = Devices[i] /\ Devices' = Dropped(Devices, i)
         /\ DOMAIN dev' = DOMAIN dev
         /\ \A x \in DOMAIN dev : dev'[x].Number = dev[x].Number /\ dev'[x].list = dev[x].list
         /\ dev'[ldev].next = dev[ldev].next
         /\ \A x : x \in ToSet(Devices') <=> x \in ToSet(Devices) /\ x # ldev
         /\ DevListInv'
  <1> DEFINE next == dev[ldev].next
  <1>1. lpc = "unlink" /\ lpc' = "freeDev" /\ ldev' = ldev /\ ldev \in DOMAIN dev
    BY DEF LuaUnlink, LuaInv, CallInv
  <1>2. DOMAIN dev = ToSet(Devices) /\ Path(dev, pMidiInDevList, Devices)
    BY <1>1 DEF LuaInv, DevListInv
  <1>3. PICK i \in 1 .. Len(Devices) : ldev = Devices[i]
    BY <1>1, <1>2, DevicesType, InSet
  <1>4. NULL \notin DOMAIN dev /\ IsFiniteSet(DOMAIN dev') /\ NULL \notin DOMAIN dev'
    BY Heaps, HeapsNext DEF HeapInv, LuaInv
  <1>5. \A k \in 1 .. Len(Devices) :
          dev[Devices[k]].next # Devices[1] /\ dev[Devices[k]].next # Devices[k]
    BY <1>2, <1>4, PathGoesOn
  <1>6. DevTyped /\ next \in DevBlocks \cup {NULL}
    BY <1>1 DEF LuaInv, TypeOK, DevTyped, DevBlock
  <1>7. /\ DOMAIN dev' = DOMAIN dev
        /\ \A x \in DOMAIN dev : dev'[x].Number = dev[x].Number /\ dev'[x].list = dev[x].list
        /\ \A x \in DOMAIN dev :
             dev'[x].next = IF dev[x].next = ldev THEN next ELSE dev[x].next
        /\ pMidiInDevList' = IF pMidiInDevList = ldev THEN next ELSE pMidiInDevList
    <2>1. CASE pMidiInDevList = ldev
      <3>1. ldev = Devices[1]
        BY <1>2, <1>3, <2>1 DEF Path
      <3>2. ASSUME NEW x \in DOMAIN dev PROVE dev[x].next # ldev
        <4>1. \E k \in 1 .. Len(Devices) : Devices[k] = x
          BY <1>2, DevicesType, InSet
        <4> QED BY <1>5, <3>1, <4>1
      <3>3. dev' = dev /\ pMidiInDevList' = next
        BY <2>1 DEF LuaUnlink
      <3> QED BY <2>1, <3>2, <3>3
    <2>2. CASE pMidiInDevList # ldev
      <3>1. /\ dev' = [x \in DOMAIN dev |-> IF dev[x].next = ldev
                                           THEN [dev[x] EXCEPT !.next = next] ELSE dev[x]]
            /\ pMidiInDevList' = pMidiInDevList
        BY <2>2 DEF LuaUnlink
      <3> HIDE DEF next
      <3> QED BY <1>6, <2>2, <3>1, DevUnlinked
    <2> QED BY <2>1, <2>2
  <1>8. dev'[ldev].next = next
    BY <1>1, <1>3, <1>5, <1>7
  <1> DEFINE q == Dropped(Devices, i)
  <1>9. Path(dev', pMidiInDevList', q)
    <2>1. \A k \in 1 .. Len(Devices) : k # i =>
            /\ Devices[k] \in DOMAIN dev'
            /\ dev'[Devices[k]].next = IF dev[Devices[k]].next = ldev THEN next
                                       ELSE dev[Devices[k]].next
      BY <1>7, DevicesType
    <2> DEFINE g == dev'
    <2>2. \A k \in 1 .. Len(Devices) : k # i =>
            /\ Devices[k] \in DOMAIN g
            /\ g[Devices[k]].next = IF dev[Devices[k]].next = ldev THEN dev[ldev].next
                                    ELSE dev[Devices[k]].next
      BY <2>1
    <2> HIDE DEF g, q, next
    <2>3. Path(g, IF pMidiInDevList = ldev THEN dev[ldev].next ELSE pMidiInDevList,
               Dropped(Devices, i))
      BY <1>2, <1>3, <1>4, <2>2, PathCut
    <2> QED BY <1>7, <2>3 DEF g, q, next
  <1>10. Devices' = q
    <2> HIDE DEF q
    <2>1. ListFrom(dev', pMidiInDevList') = q
      BY <1>4, <1>9, PathIsList
    <2> QED BY <2>1 DEF Devices
  <1>11. \A x : x \in ToSet(Devices') <=> x \in ToSet(Devices) /\ x # ldev
    <2>1. \A j, k \in 1 .. Len(Devices) : j # k => Devices[j] # Devices[k]
      BY <1>2 DEF Path
    <2> QED BY <1>3, <1>10, <2>1, DevicesType, DroppedSet
  <1>12. DevListInv'
    <2>1. DOMAIN dev' = ToSet(Devices') \cup {ldev} /\ ldev \notin ToSet(Devices')
      BY <1>1, <1>2, <1>7, <1>11
    <2>2. \A d1, d2 \in DOMAIN dev' : d1 # d2 => dev'[d1].Number # dev'[d2].Number
      BY <1>7 DEF LuaInv, DevListInv
    <2>3. Path(dev', pMidiInDevList', Devices')
      BY <1>9, <1>10
    <2> QED BY <1>1, <2>1, <2>2, <2>3 DEF DevListInv
  <1> QED BY <1>3, <1>7, <1>8, <1>10, <1>11, <1>12

\* and LuaFreeDev frees the one taken.
LEMMA FreedList ==
  ASSUME LuaInv, TypeOK', LuaFreeDev
  PROVE  /\ Devices' = Devices /\ DOMAIN dev' = ToSet(Devices)
         /\ DOMAIN dev = DOMAIN dev' \cup {ldev} /\ ldev \notin DOMAIN dev'
         /\ \A x \in DOMAIN dev' : dev'[x] = dev[x]
         /\ DevListInv'
  <1>1. dev' = Without(dev, {ldev}) /\ lpc = "freeDev" /\ lpc' = "idle"
        /\ pMidiInDevList' = pMidiInDevList
    BY DEF LuaFreeDev, LuaReturns
  <1>2. DOMAIN dev' = DOMAIN dev \ {ldev} /\ \A x \in DOMAIN dev \ {ldev} : dev'[x] = dev[x]
    BY <1>1, DevWithout
  <1>3. DOMAIN dev = ToSet(Devices) \cup {ldev} /\ ldev \notin ToSet(Devices)
    BY <1>1 DEF LuaInv, DevListInv
  <1>4. DOMAIN dev' = ToSet(Devices) /\ \A x \in DOMAIN dev' : dev'[x] = dev[x]
    BY <1>2, <1>3
  <1>5. Path(dev', pMidiInDevList', Devices') /\ Devices' = Devices
    BY <1>1, <1>4, SameList
  <1>6. DevListInv'
    <2>1. \A d1, d2 \in DOMAIN dev' : d1 # d2 => dev'[d1].Number # dev'[d2].Number
      BY <1>2, <1>4 DEF LuaInv, DevListInv
    <2> QED BY <1>1, <1>4, <1>5, <2>1 DEF DevListInv
  <1> QED BY <1>3, <1>4, <1>5, <1>6

\* The steps that leave the device list as it is
OtherSteps ==
  \/ \E n \in Numbers : plCloseMidiIn(n) \/ plGetEvent(n)
  \/ \E n \in Numbers, m \in Msgs : MidiReceive(n, m)
  \/ LuaWalk \/ LuaUnchain \/ LuaFree \/ LuaClosed
  \/ CbFind \/ CbLoad \/ CbStore \/ Strays \/ UNCHANGED vars

LEMMA NextSteps ==
  [Next]_vars <=> \/ \E n \in Numbers : plOpenMidiIn(n)
                  \/ LuaUnlink \/ LuaFreeDev \/ OtherSteps
  BY DEF Next, LuaStep, CbStep, OtherSteps

LEMMA OtherList ==
  ASSUME LuaInv, TypeOK', OtherSteps
  PROVE  /\ DOMAIN dev' = DOMAIN dev /\ pMidiInDevList' = pMidiInDevList
         /\ \A x \in DOMAIN dev : dev'[x].Number = dev[x].Number /\ dev'[x].next = dev[x].next
         /\ (lpc' = "freeDev") <=> (lpc = "freeDev")
         /\ lpc = "freeDev" => ldev' = ldev
         /\ Devices' = Devices /\ DevListInv'
  <1> DEFINE Fields == /\ DOMAIN dev' = DOMAIN dev
                       /\ \A x \in DOMAIN dev :
                            dev'[x].Number = dev[x].Number /\ dev'[x].next = dev[x].next
             Places == /\ pMidiInDevList' = pMidiInDevList
                       /\ (lpc' = "freeDev") <=> (lpc = "freeDev")
                       /\ lpc = "freeDev" => ldev' = ldev
  <1>1. DevTyped
    BY DEF LuaInv, TypeOK, DevTyped
  <1>2. CASE LuaUnchain
    <2>1. ASSUME dev' = [dev EXCEPT ![ldev].list = NULL] PROVE Fields
      BY <1>1, <2>1, DevListSet
    <2>2. ASSUME dev' = dev PROVE Fields
      BY <2>2
    <2>3. Places
      BY <1>2 DEF LuaUnchain
    <2>4. Fields
      BY <1>2, <2>1, <2>2 DEF LuaUnchain
    <2> HIDE DEF Fields
    <2> QED BY <2>3, <2>4, SameDevices DEF Fields
  <1>3. CASE CbStore
    <2>1. dev' = [dev EXCEPT ![cdev].list = cev] /\ Places /\ cev \in DOMAIN ev
      BY <1>3 DEF CbStore, Publish, CbAstray
    <2>2. cev \in EvBlocks
      BY <2>1 DEF LuaInv, TypeOK
    <2>3. Fields
      BY <1>1, <2>1, <2>2, DevListSet
    <2> QED BY <2>1, <2>3, SameDevices
  <1>4. CASE UNCHANGED dev /\ Places
    BY <1>4, SameDevices
  <1>5. CASE OtherSteps /\ ~LuaUnchain /\ ~CbStore
    <2>1. ASSUME NEW n \in Numbers, plCloseMidiIn(n) \/ plGetEvent(n)
          PROVE  UNCHANGED dev /\ Places
      BY <2>1 DEF plCloseMidiIn, plGetEvent, Begin
    <2>2. ASSUME NEW n \in Numbers, NEW m \in Msgs, MidiReceive(n, m)
          PROVE  UNCHANGED dev /\ Places
      BY <2>2 DEF MidiReceive
    <2>3. ASSUME LuaWalk \/ LuaFree \/ LuaClosed PROVE UNCHANGED dev /\ Places
      BY <2>3 DEF LuaWalk, LuaFree, LuaClosed, LuaReturns
    <2>4. ASSUME CbFind \/ CbLoad \/ Strays \/ UNCHANGED vars PROVE UNCHANGED dev /\ Places
      BY <2>4 DEF CbFind, CbLoad, Strays
    <2> QED BY <1>4, <1>5, <2>1, <2>2, <2>3, <2>4 DEF OtherSteps
  <1> QED BY <1>2, <1>3, <1>5

\* A call of the script works on one device,
LEMMA NextCall == LuaInv /\ TypeOK' /\ [Next]_vars => CallInv'
  <1> SUFFICES ASSUME LuaInv, TypeOK', [Next]_vars PROVE CallInv'
    OBVIOUS
  <1>0. CallInv
    BY DEF LuaInv
  <1>1. ASSUME NEW n \in Numbers, plOpenMidiIn(n) PROVE CallInv'
    BY <1>1 DEF plOpenMidiIn, CallInv
  <1>2. CASE LuaUnlink
    BY <1>0, <1>2, UnlinkedList DEF LuaUnlink, CallInv
  <1>3. CASE LuaFreeDev
    BY <1>3 DEF LuaFreeDev, LuaReturns, CallInv
  <1>4. CASE OtherSteps
    <2>1. DOMAIN dev' = DOMAIN dev /\ \A x \in DOMAIN dev : dev'[x].Number = dev[x].Number
      BY <1>4, OtherList
    <2>2. ASSUME NEW n \in Numbers, plCloseMidiIn(n) PROVE CallInv'
      <3>1. GetMidiInEntry(n) # NULL /\ ldev' = GetMidiInEntry(n) /\ ln' = n /\ lpc' = "close"
        BY <2>2 DEF plCloseMidiIn, Begin
      <3>2. GetMidiInEntry(n) \in DOMAIN dev /\ dev[GetMidiInEntry(n)].Number = n
        BY <3>1, EntryType
      <3> QED BY <2>1, <3>1, <3>2 DEF CallInv
    <2>3. ASSUME NEW n \in Numbers, plGetEvent(n) PROVE CallInv'
      <3>1. CASE UNCHANGED lua
        BY <2>1, <3>1, <2>3 DEF plGetEvent, CallInv
      <3>2. CASE GetMidiInEntry(n) # NULL /\ lpc' = "walk" /\ Begin(n)
        <4>1. GetMidiInEntry(n) \in DOMAIN dev /\ dev[GetMidiInEntry(n)].Number = n
          BY <3>2, EntryType
        <4> QED BY <2>1, <3>2, <4>1 DEF Begin, CallInv
      <3> QED BY <2>3, <3>1, <3>2 DEF plGetEvent
    <2>4. ASSUME NEW n \in Numbers, NEW m \in Msgs, MidiReceive(n, m) PROVE CallInv'
      <3>1. ev' = ev \/ \E e : DOMAIN ev' = DOMAIN ev \cup {e}
        <4>1. ASSUME NEW e, NEW content, ev' = With(ev, e, content)
              PROVE  DOMAIN ev' = DOMAIN ev \cup {e}
          BY <4>1, EvWith
        <4> QED BY <2>4, <4>1 DEF MidiReceive
      <3>2. UNCHANGED lua
        BY <2>4 DEF MidiReceive
      <3> QED BY <1>0, <2>1, <3>1, <3>2 DEF CallInv
    <2>5. CASE LuaWalk
      <3>1. p \in DOMAIN ev /\ ev' = ev /\ ldev' = ldev /\ ln' = ln /\ lpc = "walk"
        BY <2>5 DEF LuaWalk, LuaAstray
      <3>2. lpc' = "unchain" => p' = p
        BY <2>5 DEF LuaWalk
      <3> QED BY <1>0, <2>1, <3>1, <3>2 DEF CallInv
    <2>6. CASE LuaUnchain
      <3>1. lpc = "unchain" /\ lpc' = "free" /\ ldev' = ldev /\ ln' = ln
        BY <2>6 DEF LuaUnchain
      <3> QED BY <1>0, <2>1, <3>1 DEF CallInv
    <2>7. CASE LuaFree
      BY <2>7 DEF LuaFree, LuaReturns, CallInv
    <2>8. CASE LuaClosed
      BY <1>0, <2>1, <2>8 DEF LuaClosed, CallInv
    <2>9. CASE CbLoad
      <3>1. DOMAIN ev' = DOMAIN ev /\ UNCHANGED lua
        BY <2>9 DEF CbLoad, Chain
      <3> QED BY <1>0, <2>1, <3>1 DEF CallInv
    <2>10. CASE CbFind \/ CbStore \/ Strays \/ UNCHANGED vars
      <3>1. ev' = ev /\ UNCHANGED lua
        BY <2>10 DEF CbFind, CbStore, Publish, Strays
      <3> QED BY <1>0, <2>1, <3>1 DEF CallInv
    <2> QED BY <1>4, <2>2, <2>3, <2>4, <2>5, <2>6, <2>7, <2>8, <2>9, <2>10 DEF OtherSteps
  <1> QED BY <1>1, <1>2, <1>3, <1>4, NextSteps

\* and Windows delivers for devices that are open.
LEMMA NextDelivery == LuaInv /\ TypeOK' /\ [Next]_vars => DeliveryInv'
  <1> SUFFICES ASSUME LuaInv, TypeOK', [Next]_vars PROVE DeliveryInv'
    OBVIOUS
  <1>0. DeliveryInv
    BY DEF LuaInv
  <1>1. ASSUME NEW n \in Numbers, plOpenMidiIn(n) PROVE DeliveryInv'
    <2>1. PICK d \in DevBlocks \ DOMAIN dev :
            /\ DOMAIN dev' = DOMAIN dev \cup {d}
            /\ dev'[d] = [Number |-> n, list |-> NULL, next |-> pMidiInDevList]
            /\ \A x \in DOMAIN dev : dev'[x] = dev[x]
      BY <1>1, OpenedList
    <2>2. dev'[d].Number = n
      BY <2>1
    <2>3. /\ lpc = "idle" /\ started' = started \cup {n}
          /\ UNCHANGED <<lua, cb>>
      BY <1>1 DEF plOpenMidiIn
    <2> QED BY <1>0, <2>1, <2>2, <2>3 DEF DeliveryInv
  <1>2. CASE LuaUnlink
    <2>1. /\ lpc = "unlink" /\ lpc' = "freeDev" /\ UNCHANGED <<started, ln, cb>>
      BY <1>2 DEF LuaUnlink
    <2> QED BY <1>0, <1>2, <2>1, UnlinkedList DEF DeliveryInv
  <1>3. CASE LuaFreeDev
    <2>1. /\ lpc = "freeDev" /\ lpc' = "idle" /\ UNCHANGED <<started, cb>>
      BY <1>3 DEF LuaFreeDev, LuaReturns
    <2>2. /\ DOMAIN dev = DOMAIN dev' \cup {ldev} /\ \A x \in DOMAIN dev' : dev'[x] = dev[x]
      BY <1>3, FreedList
    <2>3. dev[ldev].Number = ln
      BY <2>1 DEF LuaInv, CallInv
    <2> QED BY <1>0, <2>1, <2>2, <2>3 DEF DeliveryInv
  <1>4. CASE OtherSteps
    <2>1. DOMAIN dev' = DOMAIN dev /\ \A x \in DOMAIN dev : dev'[x].Number = dev[x].Number
      BY <1>4, OtherList
    <2>2. ASSUME NEW n \in Numbers, plCloseMidiIn(n) PROVE DeliveryInv'
      <3>1. /\ lpc' = "close" /\ ln' = n /\ started' = started \ {n} /\ lpc = "idle"
            /\ UNCHANGED cb
        BY <2>2 DEF plCloseMidiIn, Begin, StopInput
      <3> QED BY <1>0, <2>1, <3>1 DEF DeliveryInv
    <2>3. ASSUME NEW n \in Numbers, plGetEvent(n) PROVE DeliveryInv'
      <3>1. /\ lpc = "idle" /\ lpc' \in {"idle", "walk"} /\ UNCHANGED <<started, cb>>
        BY <2>3 DEF plGetEvent
      <3> QED BY <1>0, <2>1, <3>1 DEF DeliveryInv
    <2>4. ASSUME NEW n \in Numbers, NEW m \in Msgs, MidiReceive(n, m) PROVE DeliveryInv'
      <3>1. /\ n \in started /\ UNCHANGED <<started, lua>>
            /\ UNCHANGED cb \/ cn' = n
        BY <2>4 DEF MidiReceive
      <3> QED BY <1>0, <2>1, <3>1 DEF DeliveryInv
    <2>5. CASE LuaWalk \/ LuaUnchain \/ LuaFree
      <3>1. /\ lpc \in {"walk", "unchain", "free"} /\ lpc' \in {"walk", "unchain", "free", "idle"}
            /\ UNCHANGED <<started, cb>>
        BY <2>5 DEF LuaWalk, LuaUnchain, LuaFree, LuaReturns
      <3> QED BY <1>0, <2>1, <3>1 DEF DeliveryInv
    <2>6. CASE LuaClosed
      BY <1>0, <2>1, <2>6 DEF LuaClosed, DeliveryInv
    <2>7. CASE CbFind \/ CbLoad \/ CbStore
      <3>1. UNCHANGED <<started, lua>> /\ (cpc' = "idle" \/ (cpc # "idle" /\ cn' = cn))
        <4>1. CASE CbFind
          BY <4>1 DEF CbFind, CbReturns
        <4>2. CASE CbLoad
          BY <4>2 DEF CbLoad
        <4>3. CASE CbStore
          BY <4>3 DEF CbStore, Publish, CbReturns
        <4> QED BY <2>7, <4>1, <4>2, <4>3
      <3> QED BY <1>0, <2>1, <3>1 DEF DeliveryInv
    <2>8. CASE Strays \/ UNCHANGED vars
      BY <1>0, <2>1, <2>8 DEF Strays, DeliveryInv
    <2> QED BY <1>4, <2>2, <2>3, <2>4, <2>5, <2>6, <2>7, <2>8 DEF OtherSteps
  <1> QED BY <1>1, <1>2, <1>3, <1>4, NextSteps

LEMMA NextLua == LuaInv /\ [Next]_vars => LuaInv'
  <1> SUFFICES ASSUME LuaInv, [Next]_vars PROVE LuaInv'
    OBVIOUS
  <1>1. TypeOK'
    BY NextTypes
  <1>2. DevListInv'
    BY <1>1, NextSteps, OpenedList, UnlinkedList, FreedList, OtherList
  <1> QED BY <1>1, <1>2, NextCall, NextDelivery DEF LuaInv

LEMMA InitLua == Init => LuaInv
  <1> SUFFICES ASSUME Init PROVE LuaInv
    OBVIOUS
  <1>1. DOMAIN dev = {} /\ DOMAIN ev = {}
    BY DEF Init
  <1>2. TypeOK
    <2>1. arrived \in [Numbers -> Seq(Msgs)]
      BY DEF Init
    <2> QED BY <1>1, <2>1 DEF Init, TypeOK
  <1>3. Path(dev, pMidiInDevList, <<>>)
    BY PathNone DEF Init
  <1>4. Devices = <<>>
    <2>1. IsFiniteSet(DOMAIN dev) /\ NULL \notin DOMAIN dev
      BY <1>2, Heaps DEF HeapInv
    <2> QED BY <1>3, <2>1, PathIsList DEF Devices
  <1>5. ToSet(Devices) = {}
    BY <1>4 DEF ToSet
  <1> QED BY <1>1, <1>2, <1>3, <1>4, <1>5 DEF Init, LuaInv, DevListInv, CallInv, DeliveryInv

LEMMA LuaAlways == Spec => []LuaInv
  BY InitLua, NextLua, PTL DEF Spec

\* profimidi.c: for any number of devices, messages and blocks, and however the two
\* threads race, every pointer the program holds in a variable or a block is NULL or a
\* block of the right heap, and each queue of arrivals is one of messages.
THEOREM TypeSafe == Spec => []TypeOK
  <1>1. LuaInv => TypeOK
    BY DEF LuaInv
  <1> QED BY <1>1, LuaAlways, PTL

-----------------------------------------------------------------------------
(* The event lists, step by step, until a crossing                         *)

Unraced == LuaInv /\ EvListInv /\ WalkInv /\ SearchInv /\ ChainInv /\ ~wild

LEMMA EventsType ==
  ASSUME EvListInv, NEW d \in DOMAIN dev
  PROVE  /\ Path(ev, dev[d].list, Events(d))
         /\ Events(d) \in Seq(DOMAIN ev) /\ Len(Events(d)) \in Nat
         /\ \A k \in 1 .. Len(Events(d)) : Events(d)[k] \in ToSet(Events(d))
         /\ ToSet(Events(d)) \subseteq Listed
         /\ ToSet(Events(d)) \subseteq DOMAIN ev
  <1>1. Path(ev, dev[d].list, Events(d))
    BY DEF EvListInv
  <1>2. Events(d) \in Seq(DOMAIN ev) /\ Len(Events(d)) \in Nat
    BY <1>1 DEF Path
  <1>3. ToSet(Events(d)) \subseteq Listed
    BY DEF Listed
  <1>4. Listed \subseteq DOMAIN ev
    BY DEF EvListInv
  <1> QED BY <1>1, <1>2, <1>3, <1>4, InSet

\* While RemoveMidiInEvent works on a list it holds one of its blocks.
LEMMA WalkFacts ==
  ASSUME Unraced, lpc \in {"walk", "unchain"}
  PROVE  /\ ldev \in DOMAIN dev /\ ldev \in ToSet(Devices)
         /\ \E k \in 1 .. Len(Events(ldev)) :
              /\ p = Events(ldev)[k]
              /\ pprev # NULL => k > 1 /\ pprev = Events(ldev)[k - 1]
              /\ lpc = "unchain" => k = Len(Events(ldev))
         /\ p \in ToSet(Events(ldev)) /\ p \in Listed /\ p \in DOMAIN ev
  <1>1. ldev \in DOMAIN dev /\ ldev \in ToSet(Devices)
    BY DEF Unraced, LuaInv, CallInv, DevListInv
  <1>2. EvListInv /\ WalkInv
    BY DEF Unraced
  <1>3. PICK k \in 1 .. Len(Events(ldev)) :
              /\ p = Events(ldev)[k]
              /\ pprev # NULL => k > 1 /\ pprev = Events(ldev)[k - 1]
              /\ lpc = "unchain" => k = Len(Events(ldev))
    BY <1>2 DEF WalkInv
  <1>4. p \in ToSet(Events(ldev)) /\ p \in Listed /\ p \in DOMAIN ev
    BY <1>1, <1>2, <1>3, EventsType
  <1> QED BY <1>1, <1>3, <1>4

\* No thread is about to touch a block that is free.
LEMMA NoneAstray ==
  ASSUME Unraced
  PROVE  /\ ~LuaAstray /\ ~CbAstray
         /\ cpc # "idle" => cdev \in DOMAIN dev /\ cev \in DOMAIN ev /\ cev \notin Listed
         /\ cpc \in {"load", "store"} => cdev \in ToSet(Devices)
         /\ lpc = "free" => p \in DOMAIN ev /\ p \notin Listed
  <1>1. LuaInv /\ TypeOK /\ EvListInv /\ CallInv
    BY DEF Unraced, LuaInv
  <1>2. cpc # "idle" => cev \in DOMAIN ev /\ cev \notin Listed
    BY <1>1 DEF EvListInv, Loose
  <1>3. cpc = "find" => cdev \in DOMAIN dev
    <2>1. SearchInv
      BY DEF Unraced
    <2>2. lpc = "freeDev" => ldev \in DOMAIN dev
      BY <1>1 DEF CallInv
    <2> QED BY <1>1, <2>1, <2>2, DevicesType DEF SearchInv
  <1>4. cpc \in {"load", "store"} => cdev \in ToSet(Devices) /\ cdev \in DOMAIN dev
    BY <1>1, DevicesType DEF Unraced, ChainInv
  <1>5. cpc # "idle" => cdev \in DOMAIN dev
    BY <1>1, <1>3, <1>4 DEF TypeOK
  <1>6. ~CbAstray
    BY <1>2, <1>5 DEF CbAstray
  <1>7. ~LuaAstray
    <2>1. lpc = "walk" => p \in DOMAIN ev
      BY WalkFacts
    <2>2. lpc = "freeDev" => EndOf(ev, dev[ldev].list) = NULL
      <3>1. lpc = "freeDev" => Path(ev, dev[ldev].list, Events(ldev))
        BY <1>1, EventsType DEF CallInv
      <3> QED BY <1>1, <3>1, Heaps, PathIsList DEF HeapInv
    <2> QED BY <2>1, <2>2 DEF LuaAstray
  <1>8. lpc = "free" => p \in DOMAIN ev /\ p \notin Listed
    BY <1>1 DEF EvListInv, Loose
  <1> QED BY <1>2, <1>4, <1>5, <1>6, <1>7, <1>8

\* A list whose blocks keep their pointers stays as it is.
LEMMA SameEvents ==
  ASSUME TypeOK', NEW d, Path(ev, dev[d].list, Events(d)), dev'[d].list = dev[d].list,
         \A x \in ToSet(Events(d)) : x \in DOMAIN ev' /\ ev'[x].next = ev[x].next
  PROVE  Path(ev', dev'[d].list, Events(d)') /\ Events(d)' = Events(d)
  <1>1. \A k \in 1 .. Len(Events(d)) :
          Events(d)[k] \in DOMAIN ev' /\ ev'[Events(d)[k]].next = ev[Events(d)[k]].next
    <2>1. Events(d) \in Seq(DOMAIN ev)
      BY DEF Path
    <2> QED BY <2>1, InSet
  <1>2. Path(ev', dev[d].list, Events(d))
    BY <1>1, PathKept
  <1>3. IsFiniteSet(DOMAIN ev') /\ NULL \notin DOMAIN ev'
    BY HeapsNext DEF HeapInv
  <1>4. ListFrom(ev', dev[d].list) = Events(d)
    BY <1>2, <1>3, PathIsList
  <1> QED BY <1>2, <1>4 DEF Events

\* The steps after which the devices' lists of events are what they were
QuietSteps ==
  \/ \E n \in Numbers : plCloseMidiIn(n) \/ plGetEvent(n)
  \/ \E n \in Numbers, m \in Msgs : MidiReceive(n, m)
  \/ LuaWalk \/ LuaFree \/ LuaClosed \/ LuaUnlink \/ CbFind \/ CbLoad \/ UNCHANGED vars

\* They leave the blocks on the lists alone,
LEMMA QuietBlocks ==
  ASSUME Unraced, TypeOK', QuietSteps
  PROVE  /\ DOMAIN dev' = DOMAIN dev /\ \A d \in DOMAIN dev : dev'[d].list = dev[d].list
         /\ \A x \in Listed :
              /\ x \in DOMAIN ev /\ x \in DOMAIN ev'
              /\ ev'[x].next = ev[x].next /\ ev'[x].msg = ev[x].msg
  <1> DEFINE DevKept == DOMAIN dev' = DOMAIN dev /\ \A d \in DOMAIN dev : dev'[d].list = dev[d].list
             EvKept  == \A x \in Listed : /\ x \in DOMAIN ev'
                                          /\ ev'[x].next = ev[x].next /\ ev'[x].msg = ev[x].msg
  <1>1. LuaInv /\ TypeOK /\ EvListInv
    BY DEF Unraced, LuaInv
  <1>2. Listed \subseteq DOMAIN ev
    BY <1>1 DEF EvListInv
  <1>3. EvTyped
    BY <1>1 DEF TypeOK, EvTyped
  <1>4. CASE LuaUnlink
    <2>1. ev' = ev
      BY <1>4 DEF LuaUnlink
    <2>2. DevKept
      BY <1>1, <1>4, UnlinkedList
    <2> QED BY <1>2, <2>1, <2>2
  <1>5. CASE LuaFree
    <2>1. ev' = Without(ev, {p}) /\ dev' = dev /\ lpc = "free"
      BY <1>5 DEF LuaFree
    <2>2. p \notin Listed
      BY <2>1, NoneAstray
    <2>3. \A x \in DOMAIN ev \ {p} : x \in DOMAIN ev' /\ ev'[x] = ev[x]
      BY <2>1, EvWithout
    <2> QED BY <1>2, <2>1, <2>2, <2>3
  <1>6. CASE CbLoad
    <2>1. ev' = [ev EXCEPT ![cev].next = dev[cdev].list] /\ dev' = dev /\ cpc = "load"
      BY <1>6 DEF CbLoad, Chain
    <2>2. cev \notin Listed /\ cdev \in DOMAIN dev
      BY <2>1, NoneAstray
    <2>3. dev[cdev].list \in EvBlocks \cup {NULL}
      BY <1>1, <2>2 DEF TypeOK, DevBlock
    <2>4. /\ DOMAIN ev' = DOMAIN ev
          /\ \A x \in DOMAIN ev :
               /\ ev'[x].msg = ev[x].msg
               /\ ev'[x].next = IF x = cev THEN dev[cdev].list ELSE ev[x].next
      BY <1>3, <2>1, <2>3, EvNextSet
    <2> QED BY <1>2, <2>1, <2>2, <2>4
  <1>7. ASSUME NEW n \in Numbers, NEW m \in Msgs, MidiReceive(n, m) PROVE DevKept /\ EvKept
    <2>1. dev' = dev
      BY <1>7 DEF MidiReceive
    <2>2. CASE ev' = ev
      BY <1>2, <2>1, <2>2
    <2>3. CASE \E e \in EvBlocks \ DOMAIN ev : ev' = With(ev, e, [msg |-> m, next |-> NULL])
      <3> DEFINE content == [msg |-> m, next |-> NULL]
      <3>1. PICK e \in EvBlocks \ DOMAIN ev : ev' = With(ev, e, content)
        BY <2>3
      <3> HIDE DEF content
      <3>2. /\ DOMAIN ev' = DOMAIN ev \cup {e}
            /\ \A x \in DOMAIN ev \ {e} : ev'[x] = ev[x]
        BY <3>1, EvWith
      <3> QED BY <1>2, <2>1, <3>1, <3>2
    <2> QED BY <1>7, <2>2, <2>3 DEF MidiReceive
  <1>8. ASSUME NEW n \in Numbers, plCloseMidiIn(n) \/ plGetEvent(n) PROVE dev' = dev /\ ev' = ev
    BY <1>8 DEF plCloseMidiIn, plGetEvent
  <1>9. ASSUME LuaWalk \/ LuaClosed \/ CbFind \/ UNCHANGED vars PROVE dev' = dev /\ ev' = ev
    BY <1>9 DEF LuaWalk, LuaClosed, CbFind
  <1> QED BY <1>2, <1>4, <1>5, <1>6, <1>7, <1>8, <1>9 DEF QuietSteps

\* and take no more and no less than the block they are about.
LEMMA QuietAccount ==
  ASSUME Unraced, TypeOK', QuietSteps
  PROVE  /\ DOMAIN ev' = Listed \cup Loose' /\ Listed \cap Loose' = {}
         /\ (lpc' = "free" /\ cpc' # "idle" => p' # cev')
  <1> DEFINE Same == /\ DOMAIN ev' = DOMAIN ev /\ Loose' = Loose
                     /\ (lpc' = "free" /\ cpc' # "idle" => p' # cev')
  <1>1. /\ DOMAIN ev = Listed \cup Loose /\ Listed \cap Loose = {}
        /\ (lpc = "free" /\ cpc # "idle" => p # cev)
    BY DEF Unraced, EvListInv
  <1>2. CASE LuaFree
    <2>1. ev' = Without(ev, {p}) /\ lpc = "free" /\ lpc' = "idle" /\ UNCHANGED cb
      BY <1>2 DEF LuaFree, LuaReturns
    <2>2. DOMAIN ev' = DOMAIN ev \ {p}
      BY <2>1, EvWithout
    <2>3. p \notin Listed
      BY <2>1, NoneAstray
    <2> QED BY <1>1, <2>1, <2>2, <2>3 DEF Loose
  <1>3. ASSUME NEW n \in Numbers, NEW m \in Msgs, MidiReceive(n, m)
        PROVE  /\ DOMAIN ev' = Listed \cup Loose' /\ Listed \cap Loose' = {}
               /\ (lpc' = "free" /\ cpc' # "idle" => p' # cev')
    <2>1. cpc = "idle" /\ UNCHANGED lua
      BY <1>3 DEF MidiReceive
    <2>2. CASE UNCHANGED <<ev, cb>>
      BY <1>1, <2>1, <2>2 DEF Loose
    <2>3. CASE cpc' = "find" /\ \E e \in EvBlocks \ DOMAIN ev :
                 ev' = With(ev, e, [msg |-> m, next |-> NULL]) /\ cev' = e
      <3> DEFINE content == [msg |-> m, next |-> NULL]
      <3>1. PICK e \in EvBlocks \ DOMAIN ev : ev' = With(ev, e, content) /\ cev' = e
        BY <2>3
      <3> HIDE DEF content
      <3>2. DOMAIN ev' = DOMAIN ev \cup {e}
        BY <3>1, EvWith
      <3> QED BY <1>1, <2>1, <2>3, <3>1, <3>2 DEF Loose
    <2> QED BY <1>3, <2>2, <2>3 DEF MidiReceive
  <1>4. ASSUME NEW n \in Numbers, plCloseMidiIn(n) \/ plGetEvent(n) PROVE Same
    BY <1>4 DEF plCloseMidiIn, plGetEvent, Loose
  <1>5. CASE CbLoad
    <2>1. DOMAIN ev' = DOMAIN ev
      BY <1>5 DEF CbLoad, Chain
    <2> QED BY <1>1, <1>5, <2>1 DEF CbLoad, Loose
  <1>6. CASE CbFind
    <2>1. cdev \in DOMAIN dev /\ NULL \notin DOMAIN dev
      BY <1>6, NoneAstray, Heaps DEF CbFind, HeapInv, Unraced, LuaInv
    <2>2. cpc' # "idle" /\ cpc # "idle" /\ cev' = cev /\ UNCHANGED <<ev, lua>>
      BY <1>6, <2>1 DEF CbFind
    <2> QED BY <1>1, <2>2 DEF Loose
  <1>7. CASE LuaWalk \/ LuaClosed \/ LuaUnlink \/ UNCHANGED vars
    <2>1. /\ UNCHANGED <<ev, p, cb>> \/ (UNCHANGED <<ev, cb>> /\ lpc' # "free")
          /\ (lpc' = "free") <=> (lpc = "free")
      BY <1>7 DEF LuaWalk, LuaClosed, LuaUnlink
    <2> QED BY <1>1, <2>1 DEF Loose
  <1> QED BY <1>1, <1>2, <1>3, <1>4, <1>5, <1>6, <1>7 DEF QuietSteps

LEMMA QuietEvents ==
  ASSUME Unraced, TypeOK', QuietSteps
  PROVE  /\ \A d \in DOMAIN dev : Events(d)' = Events(d)
         /\ Listed' = Listed /\ EvListInv'
  <1>1. EvListInv
    BY DEF Unraced
  <1>2. DOMAIN dev' = DOMAIN dev /\ \A d \in DOMAIN dev : dev'[d].list = dev[d].list
    BY QuietBlocks
  <1>3. ASSUME NEW d \in DOMAIN dev
        PROVE  Path(ev', dev'[d].list, Events(d)') /\ Events(d)' = Events(d)
    <2>1. \A x \in ToSet(Events(d)) : x \in DOMAIN ev' /\ ev'[x].next = ev[x].next
      BY <1>1, EventsType, QuietBlocks
    <2> QED BY <1>1, <1>2, <2>1, EventsType, SameEvents
  <1>4. Listed' = Listed
    BY <1>2, <1>3 DEF Listed
  <1>5. EvListInv'
    <2>1. \A d \in DOMAIN dev' : Path(ev', dev'[d].list, Events(d)')
      BY <1>2, <1>3
    <2>2. \A d1, d2 \in DOMAIN dev' :
            d1 # d2 => ToSet(Events(d1)') \cap ToSet(Events(d2)') = {}
      BY <1>1, <1>2, <1>3 DEF EvListInv
    <2> QED BY <1>4, <2>1, <2>2, QuietAccount DEF EvListInv
  <1> QED BY <1>3, <1>4, <1>5

LEMMA PushedSet ==
  ASSUME NEW S, NEW s \in Seq(S), NEW x \in S, NEW y
  PROVE  y \in ToSet(<<x>> \o s) <=> y = x \/ y \in ToSet(s)
  <1> DEFINE q == <<x>> \o s
  <1>1. /\ q \in Seq(S) /\ Len(q) = Len(s) + 1 /\ q[1] = x /\ Len(s) \in Nat
        /\ \A k \in 1 .. Len(s) : q[k + 1] = s[k]
        /\ \A k \in 2 .. Len(q) : k - 1 \in 1 .. Len(s) /\ q[k] = s[k - 1]
    OBVIOUS
  <1> HIDE DEF q
  <1>2. y \in ToSet(q) <=> \E k \in 1 .. Len(q) : q[k] = y
    BY <1>1, InSet
  <1>3. y \in ToSet(s) <=> \E k \in 1 .. Len(s) : s[k] = y
    BY InSet
  <1>4. ASSUME NEW k \in 1 .. Len(q), q[k] = y PROVE y = x \/ y \in ToSet(s)
    <2>1. k = 1 \/ k \in 2 .. Len(q)
      BY <1>1
    <2> QED BY <1>1, <1>3, <1>4, <2>1
  <1>5. y = x => y \in ToSet(q)
    <2>1. 1 \in 1 .. Len(q)
      BY <1>1
    <2> QED BY <1>1, <1>2, <2>1
  <1>6. ASSUME NEW k \in 1 .. Len(s), s[k] = y PROVE y \in ToSet(q)
    <2>1. k + 1 \in 1 .. Len(q) /\ q[k + 1] = y
      BY <1>1, <1>6
    <2> QED BY <1>2, <2>1
  <1> QED BY <1>2, <1>3, <1>4, <1>5, <1>6 DEF q

LEMMA PoppedSet ==
  ASSUME NEW S, NEW s \in Seq(S), Len(s) # 0,
         \A j, k \in 1 .. Len(s) : j # k => s[j] # s[k], NEW y
  PROVE  y \in ToSet(Prefix(s, Len(s) - 1)) <=> y # s[Len(s)] /\ y \in ToSet(s)
  <1> DEFINE n == Len(s) - 1
             q == Prefix(s, n)
  <1>1. q \in Seq(S) /\ Len(q) = n /\ n \in Nat /\ \A k \in 1 .. n : q[k] = s[k]
    <2>1. n \in 0 .. Len(s)
      OBVIOUS
    <2> HIDE DEF n
    <2> QED BY <2>1, PrefixFacts
  <1> HIDE DEF q
  <1>2. y \in ToSet(q) <=> \E k \in 1 .. n : q[k] = y
    BY <1>1, InSet
  <1>3. y \in ToSet(s) <=> \E k \in 1 .. Len(s) : s[k] = y
    BY InSet
  <1>4. \A k \in 1 .. n : k \in 1 .. Len(s) /\ k # Len(s) /\ Len(s) \in 1 .. Len(s)
    BY <1>1
  <1>5. \A k \in 1 .. Len(s) : k = Len(s) \/ k \in 1 .. n
    BY <1>1
  <1> QED BY <1>1, <1>2, <1>3, <1>4, <1>5 DEF q

\* plOpenMidiIn adds an empty list,
LEMMA OpenedEvents ==
  ASSUME Unraced, TypeOK', NEW n \in Numbers, plOpenMidiIn(n)
  PROVE  /\ \A d \in DOMAIN dev : Events(d)' = Events(d)
         /\ \A d \in DOMAIN dev' \ DOMAIN dev : Events(d)' = <<>>
         /\ Listed' = Listed /\ EvListInv'
  <1>1. EvListInv /\ LuaInv
    BY DEF Unraced
  <1>2. PICK d \in DevBlocks \ DOMAIN dev :
          /\ DOMAIN dev' = DOMAIN dev \cup {d}
          /\ dev'[d] = [Number |-> n, list |-> NULL, next |-> pMidiInDevList]
          /\ \A x \in DOMAIN dev : dev'[x] = dev[x]
    BY <1>1, OpenedList
  <1>3. dev'[d].list = NULL
    BY <1>2
  <1>4. ev' = ev /\ UNCHANGED <<lua, cb>>
    BY DEF plOpenMidiIn
  <1>5. ASSUME NEW x \in DOMAIN dev
        PROVE  Path(ev', dev'[x].list, Events(x)') /\ Events(x)' = Events(x)
    <2>1. \A e \in ToSet(Events(x)) : e \in DOMAIN ev' /\ ev'[e].next = ev[e].next
      BY <1>1, <1>4, EventsType
    <2> QED BY <1>1, <1>2, <2>1, EventsType, SameEvents
  <1>6. Path(ev', dev'[d].list, Events(d)') /\ Events(d)' = <<>>
    <2>1. Path(ev', NULL, <<>>)
      BY PathNone
    <2>2. IsFiniteSet(DOMAIN ev') /\ NULL \notin DOMAIN ev'
      BY HeapsNext DEF HeapInv
    <2>3. ListFrom(ev', NULL) = <<>>
      BY <2>1, <2>2, PathIsList
    <2> QED BY <1>3, <2>1, <2>3 DEF Events
  <1>7. ToSet(Events(d)') = {}
    BY <1>6 DEF ToSet
  <1>8. Listed' = Listed
    BY <1>2, <1>5, <1>7 DEF Listed
  <1>9. EvListInv'
    <2>1. \A x \in DOMAIN dev' : Path(ev', dev'[x].list, Events(x)')
      BY <1>2, <1>5, <1>6
    <2>2. \A d1, d2 \in DOMAIN dev' :
            d1 # d2 => ToSet(Events(d1)') \cap ToSet(Events(d2)') = {}
      BY <1>1, <1>2, <1>5, <1>7 DEF EvListInv
    <2>3. Loose' = Loose
      BY <1>4 DEF Loose
    <2> QED BY <1>1, <1>4, <1>8, <2>1, <2>2, <2>3 DEF EvListInv
  <1> QED BY <1>2, <1>5, <1>6, <1>8, <1>9

\* CbStore puts one event at the head of a list,
LEMMA StoredEvents ==
  ASSUME Unraced, TypeOK', CbStore, NEW d, d = cdev
  PROVE  /\ d \in DOMAIN dev /\ DOMAIN dev' = DOMAIN dev /\ ev' = ev
         /\ \A x \in DOMAIN dev \ {d} : Events(x)' = Events(x)
         /\ Events(d)' = <<cev>> \o Events(d)
         /\ Len(Events(d)') = Len(Events(d)) + 1 /\ Events(d)'[1] = cev
         /\ \A k \in 1 .. Len(Events(d)) : Events(d)'[k + 1] = Events(d)[k]
         /\ \A x : x \in ToSet(Events(d)') <=> x = cev \/ x \in ToSet(Events(d))
         /\ EvListInv'
  <1>1. EvListInv /\ LuaInv /\ ChainInv /\ TypeOK
    BY DEF Unraced, LuaInv
  <1>2. /\ dev' = [dev EXCEPT ![d].list = cev] /\ ev' = ev
        /\ cpc = "store" /\ cpc' = "idle" /\ UNCHANGED lua
    BY DEF CbStore, Publish, CbReturns
  <1>3. d \in DOMAIN dev /\ cev \in DOMAIN ev /\ cev \notin Listed
    BY <1>2, NoneAstray
  <1>4. DOMAIN dev' = DOMAIN dev
        /\ \A x \in DOMAIN dev : dev'[x].list = IF x = d THEN cev ELSE dev[x].list
    <2>1. DevTyped /\ cev \in EvBlocks \cup {NULL}
      BY <1>1 DEF TypeOK, DevTyped
    <2> QED BY <1>2, <2>1, DevListSet
  <1>5. ASSUME NEW x \in DOMAIN dev \ {d}
        PROVE  Path(ev', dev'[x].list, Events(x)') /\ Events(x)' = Events(x)
    <2>1. \A e \in ToSet(Events(x)) : e \in DOMAIN ev' /\ ev'[e].next = ev[e].next
      BY <1>1, <1>2, EventsType
    <2>2. dev'[x].list = dev[x].list
      BY <1>4
    <2> QED BY <1>1, <2>1, <2>2, EventsType, SameEvents
  <1>6. /\ Path(ev, cev, <<cev>> \o Events(d))
        /\ Len(<<cev>> \o Events(d)) = Len(Events(d)) + 1 /\ (<<cev>> \o Events(d))[1] = cev
        /\ \A k \in 1 .. Len(Events(d)) : (<<cev>> \o Events(d))[k + 1] = Events(d)[k]
    <2>1. Path(ev, dev[d].list, Events(d))
      BY <1>1, <1>3, EventsType
    <2>2. \A k \in 1 .. Len(Events(d)) : Events(d)[k] # cev
      BY <1>1, <1>3, EventsType
    <2>3. ev[cev].next = dev[d].list
      BY <1>1, <1>2 DEF ChainInv
    <2> QED BY <1>3, <2>1, <2>2, <2>3, PathPushed
  <1>7. Events(d)' = <<cev>> \o Events(d)
    <2> DEFINE q == <<cev>> \o Events(d)
    <2> HIDE DEF q
    <2>1. Path(ev, cev, q)
      BY <1>6 DEF q
    <2>2. ListFrom(ev, cev) = q
      BY <1>1, <2>1, Heaps, PathIsList DEF HeapInv
    <2>3. ListFrom(ev', dev'[d].list) = q
      BY <1>2, <1>3, <1>4, <2>2
    <2> QED BY <2>3 DEF Events, q
  <1>8. ASSUME NEW x PROVE x \in ToSet(Events(d)') <=> x = cev \/ x \in ToSet(Events(d))
    BY <1>1, <1>3, <1>6, <1>7, EventsType, PushedSet
  <1>9. Listed' = Listed \cup {cev}
    <2>1. \A x \in DOMAIN dev \ {d} : Events(x)' = Events(x)
      BY <1>5
    <2> HIDE DEF Events
    <2> QED BY <1>3, <1>4, <1>8, <2>1 DEF Listed
  <1>10. EvListInv'
    <2>1. ASSUME NEW x \in DOMAIN dev' PROVE Path(ev', dev'[x].list, Events(x)')
      <3>1. CASE x = d
        <4>1. dev'[d].list = cev
          BY <1>3, <1>4
        <4> QED BY <1>2, <1>6, <1>7, <3>1, <4>1
      <3>2. CASE x # d
        BY <1>4, <1>5, <3>2
      <3> QED BY <3>1, <3>2
    <2>2. \A d1, d2 \in DOMAIN dev' :
            d1 # d2 => ToSet(Events(d1)') \cap ToSet(Events(d2)') = {}
      <3>1. \A x \in DOMAIN dev : cev \notin ToSet(Events(x))
        BY <1>3 DEF Listed
      <3> QED BY <1>1, <1>4, <1>5, <1>8, <3>1 DEF EvListInv
    <2>3. DOMAIN ev' = Listed' \cup Loose' /\ Listed' \cap Loose' = {}
      BY <1>1, <1>2, <1>9 DEF EvListInv, Loose
    <2> QED BY <1>2, <2>1, <2>2, <2>3 DEF EvListInv
  <1>11. \A x \in DOMAIN dev \ {d} : Events(x)' = Events(x)
    BY <1>5
  <1> QED BY <1>2, <1>3, <1>4, <1>6, <1>7, <1>8, <1>10, <1>11

\* LuaUnchain takes the one at the far end,
LEMMA UnchainedEvents ==
  ASSUME Unraced, TypeOK', LuaUnchain, ~Crossed
  PROVE  /\ ldev \in DOMAIN dev /\ DOMAIN dev' = DOMAIN dev /\ DOMAIN ev' = DOMAIN ev
         /\ \A x \in DOMAIN ev : ev'[x].msg = ev[x].msg
         /\ Events(ldev) # <<>> /\ p = Events(ldev)[Len(Events(ldev))]
         /\ \A x \in DOMAIN dev \ {ldev} : Events(x)' = Events(x)
         /\ Events(ldev)' = Prefix(Events(ldev), Len(Events(ldev)) - 1)
         /\ \A x : x \in ToSet(Events(ldev)') <=> x # p /\ x \in ToSet(Events(ldev))
         /\ EvListInv'
  <1> DEFINE s == Events(ldev)
             n == Len(s)
  <1>1. EvListInv /\ LuaInv /\ TypeOK /\ HeapInv
    BY Heaps DEF Unraced, LuaInv
  <1>2. lpc = "unchain" /\ lpc' = "free" /\ ldev' = ldev /\ p' = p /\ UNCHANGED cb
    BY DEF LuaUnchain
  <1>3. /\ ldev \in DOMAIN dev /\ p \in ToSet(s) /\ p \in Listed
        /\ n \in Nat /\ n >= 1 /\ p = s[n]
        /\ pprev # NULL => n > 1 /\ pprev = s[n - 1]
    <2>1. ldev \in DOMAIN dev /\ p \in ToSet(s) /\ p \in Listed
      BY <1>2, WalkFacts
    <2>2. \E k \in 1 .. Len(s) : /\ p = s[k] /\ k = Len(s)
                                 /\ pprev # NULL => k > 1 /\ pprev = s[k - 1]
      BY <1>2, WalkFacts
    <2> QED BY <1>1, <2>1, <2>2, EventsType
  <1>4. Path(ev, dev[ldev].list, s) /\ s \in Seq(DOMAIN ev)
    BY <1>1, <1>3, EventsType
  <1> HIDE DEF s
  <1>5. \A j, k \in 1 .. n : j # k => s[j] # s[k]
    BY <1>4 DEF Path
  <1> DEFINE q == Prefix(s, n - 1)
             Whole == /\ DOMAIN dev' = DOMAIN dev /\ DOMAIN ev' = DOMAIN ev
                      /\ \A x \in DOMAIN ev : ev'[x].msg = ev[x].msg
                      /\ \A x \in DOMAIN dev \ {ldev} : dev'[x].list = dev[x].list
                      /\ \A x \in DOMAIN ev \ ToSet(s) : ev'[x].next = ev[x].next
  <1>6. Whole /\ Path(ev', dev'[ldev].list, q)
    <2>1. CASE pprev = NULL
      <3>1. dev' = [dev EXCEPT ![ldev].list = NULL] /\ ev' = ev /\ dev[ldev].list = p
        BY <2>1 DEF LuaUnchain, Crossed
      <3>2. Whole /\ dev'[ldev].list = NULL
        <4>1. DevTyped
          BY <1>1 DEF TypeOK, DevTyped
        <4>2. /\ DOMAIN dev' = DOMAIN dev
              /\ \A x \in DOMAIN dev : dev'[x].list = IF x = ldev THEN NULL ELSE dev[x].list
          BY <3>1, <4>1, DevListSet
        <4> QED BY <1>3, <3>1, <4>2
      <3>3. q = <<>>
        <4>1. 1 \in 1 .. n /\ n \in 1 .. n
          BY <1>3
        <4>2. s[1] = s[n]
          BY <1>3, <1>4, <3>1 DEF Path
        <4>3. n = 1
          BY <1>5, <4>1, <4>2
        <4> QED BY <1>4, <4>3, WholePrefix
      <3>4. Path(ev', NULL, <<>>)
        BY PathNone
      <3> QED BY <3>2, <3>3, <3>4
    <2>2. CASE pprev # NULL
      <3>1. ev' = [ev EXCEPT ![pprev].next = NULL] /\ dev' = dev
        BY <2>2 DEF LuaUnchain
      <3>2. n > 1 /\ pprev = s[n - 1] /\ n - 1 \in 1 .. n
        BY <1>3, <2>2
      <3>3. pprev \in ToSet(s) /\ pprev \in DOMAIN ev
        BY <1>4, <3>2, InSet
      <3>4. /\ DOMAIN ev' = DOMAIN ev
            /\ \A x \in DOMAIN ev : /\ ev'[x].msg = ev[x].msg
                                    /\ ev'[x].next = IF x = pprev THEN NULL ELSE ev[x].next
        <4>1. EvTyped
          BY <1>1 DEF TypeOK, EvTyped
        <4> QED BY <3>1, <4>1, EvNextSet
      <3>5. \A k \in 1 .. n - 2 : ev'[s[k]].next = ev[s[k]].next
        <4>1. \A k \in 1 .. n - 2 : k \in 1 .. n /\ k # n - 1
          BY <1>3
        <4> QED BY <1>4, <1>5, <3>2, <3>4, <4>1
      <3>6. ev'[s[n - 1]].next = NULL
        BY <3>2, <3>3, <3>4
      <3>7. Path(ev', dev[ldev].list, q)
        <4> DEFINE g == ev'
        <4>1. DOMAIN g = DOMAIN ev /\ g[s[n - 1]].next = NULL
              /\ \A k \in 1 .. n - 2 : g[s[k]].next = ev[s[k]].next
          BY <3>4, <3>5, <3>6
        <4> HIDE DEF g
        <4>2. Path(g, dev[ldev].list, Prefix(s, Len(s) - 1))
          BY <1>4, <3>2, <4>1, PathPopped
        <4> QED BY <4>2 DEF g
      <3> QED BY <3>1, <3>3, <3>4, <3>7
    <2> QED BY <2>1, <2>2
  <1>7. Events(ldev)' = q
    <2> HIDE DEF q
    <2>1. IsFiniteSet(DOMAIN ev') /\ NULL \notin DOMAIN ev'
      BY HeapsNext DEF HeapInv
    <2>2. ListFrom(ev', dev'[ldev].list) = q
      BY <1>6, <2>1, PathIsList
    <2> QED BY <1>2, <2>2 DEF Events
  <1>8. \A x : x \in ToSet(q) <=> x # p /\ x \in ToSet(s)
    <2>1. Len(s) # 0
      BY <1>3
    <2> QED BY <1>3, <1>4, <1>5, <2>1, PoppedSet
  <1> HIDE DEF q
  <1>9. ASSUME NEW x \in DOMAIN dev \ {ldev}
        PROVE  Path(ev', dev'[x].list, Events(x)') /\ Events(x)' = Events(x)
    <2>1. ToSet(Events(x)) \cap ToSet(s) = {}
      BY <1>1, <1>3 DEF EvListInv, s
    <2>2. \A e \in ToSet(Events(x)) : e \in DOMAIN ev' /\ ev'[e].next = ev[e].next
      BY <1>1, <1>6, <2>1, EventsType
    <2>3. dev'[x].list = dev[x].list
      BY <1>6
    <2> QED BY <1>1, <2>2, <2>3, EventsType, SameEvents
  <1>10. Listed' = Listed \ {p}
    <2>1. ASSUME NEW x PROVE x \in Listed' <=> x \in Listed /\ x # p
      <3>1. x \in Listed' <=> \E d \in DOMAIN dev : x \in ToSet(Events(d)')
        BY <1>6 DEF Listed
      <3>2. x \in Listed <=> \E d \in DOMAIN dev : x \in ToSet(Events(d))
        BY DEF Listed
      <3>3. \A d \in DOMAIN dev \ {ldev} : p \notin ToSet(Events(d))
        BY <1>1, <1>3 DEF EvListInv, s
      <3>4. x \in ToSet(Events(ldev)') <=> x # p /\ x \in ToSet(Events(ldev))
        BY <1>7, <1>8 DEF s
      <3> QED BY <1>2, <1>3, <1>9, <3>1, <3>2, <3>3, <3>4
    <2> QED BY <2>1
  <1>11. EvListInv'
    <2>1. \A x \in DOMAIN dev' : Path(ev', dev'[x].list, Events(x)')
      BY <1>2, <1>6, <1>7, <1>9
    <2>2. \A d1, d2 \in DOMAIN dev' :
            d1 # d2 => ToSet(Events(d1)') \cap ToSet(Events(d2)') = {}
      BY <1>1, <1>2, <1>6, <1>7, <1>8, <1>9 DEF EvListInv, s
    <2>3. Loose' = Loose \cup {p} /\ (cpc # "idle" => p # cev)
      BY <1>2, <1>3, NoneAstray DEF Loose
    <2> QED BY <1>1, <1>2, <1>3, <1>6, <1>10, <2>1, <2>2, <2>3 DEF EvListInv
  <1>12. Events(ldev) # <<>> /\ p = Events(ldev)[Len(Events(ldev))]
    <2>1. s # <<>>
      BY <1>3
    <2> QED BY <1>3, <2>1 DEF s
  <1>13. \A x \in DOMAIN dev \ {ldev} : Events(x)' = Events(x)
    BY <1>9
  <1> QED BY <1>3, <1>6, <1>7, <1>8, <1>11, <1>12, <1>13 DEF s, q

\* and LuaFreeDev frees a whole list.
LEMMA FreedEvents ==
  ASSUME Unraced, TypeOK', LuaFreeDev, NEW d, d = ldev
  PROVE  /\ DOMAIN ev' = DOMAIN ev \ ToSet(Events(d))
         /\ \A x \in DOMAIN ev \ ToSet(Events(d)) : ev'[x] = ev[x]
         /\ DOMAIN dev = DOMAIN dev' \cup {d} /\ d \notin DOMAIN dev'
         /\ \A x \in DOMAIN dev' :
              /\ Events(x)' = Events(x) /\ dev'[x] = dev[x]
              /\ ToSet(Events(x)) \cap ToSet(Events(d)) = {}
         /\ EvListInv'
  <1>1. EvListInv /\ LuaInv
    BY DEF Unraced
  <1>2. ev' = Without(ev, ToSet(Events(d))) /\ lpc = "freeDev" /\ lpc' = "idle" /\ UNCHANGED cb
    BY DEF LuaFreeDev, LuaReturns, ClearedEvents, Events
  <1>3. /\ DOMAIN ev' = DOMAIN ev \ ToSet(Events(d))
        /\ \A x \in DOMAIN ev \ ToSet(Events(d)) : ev'[x] = ev[x]
    BY <1>2, EvWithout
  <1>4. /\ DOMAIN dev = DOMAIN dev' \cup {d} /\ d \notin DOMAIN dev'
        /\ \A x \in DOMAIN dev' : dev'[x] = dev[x]
    BY <1>1, FreedList
  <1>5. \A x \in DOMAIN dev' : ToSet(Events(x)) \cap ToSet(Events(d)) = {}
    BY <1>1, <1>4 DEF EvListInv
  <1>6. ASSUME NEW x \in DOMAIN dev'
        PROVE  Path(ev', dev'[x].list, Events(x)') /\ Events(x)' = Events(x)
    <2>1. x \in DOMAIN dev /\ dev'[x].list = dev[x].list
      BY <1>4
    <2>2. ToSet(Events(x)) \subseteq DOMAIN ev
      BY <1>1, <2>1, EventsType
    <2>3. \A e \in ToSet(Events(x)) : e \in DOMAIN ev' /\ ev'[e].next = ev[e].next
      BY <1>3, <1>5, <2>2
    <2> QED BY <1>1, <2>1, <2>3, EventsType, SameEvents
  <1>7. Listed' = Listed \ ToSet(Events(d))
    <2>1. ASSUME NEW x PROVE x \in Listed' <=> x \in Listed /\ x \notin ToSet(Events(d))
      <3>1. x \in Listed' <=> \E c \in DOMAIN dev' : x \in ToSet(Events(c)')
        BY DEF Listed
      <3>2. x \in Listed <=> \E c \in DOMAIN dev : x \in ToSet(Events(c))
        BY DEF Listed
      <3> QED BY <1>4, <1>5, <1>6, <3>1, <3>2
    <2> QED BY <2>1
  <1>8. ToSet(Events(d)) \subseteq Listed
    BY <1>4 DEF Listed
  <1>9. EvListInv'
    <2>1. \A x \in DOMAIN dev' : Path(ev', dev'[x].list, Events(x)')
      BY <1>6
    <2>2. \A d1, d2 \in DOMAIN dev' :
            d1 # d2 => ToSet(Events(d1)') \cap ToSet(Events(d2)') = {}
      BY <1>1, <1>4, <1>6 DEF EvListInv
    <2>3. Loose' = Loose
      BY <1>2 DEF Loose
    <2> QED BY <1>1, <1>2, <1>3, <1>7, <1>8, <2>1, <2>2, <2>3 DEF EvListInv
  <1> QED BY <1>3, <1>4, <1>5, <1>6, <1>9

-----------------------------------------------------------------------------
(* Until a crossing the threads are where they should be                   *)

LEMMA NextEvents == Unraced /\ LuaInv' /\ ~raced' /\ [Next]_vars => EvListInv'
  <1> SUFFICES ASSUME Unraced, LuaInv', ~raced', [Next]_vars PROVE EvListInv'
    OBVIOUS
  <1>1. TypeOK'
    BY DEF LuaInv
  <1>2. CASE LuaUnchain
    <2>1. ~Crossed
      BY <1>2 DEF LuaUnchain
    <2> QED BY <1>1, <1>2, <2>1, UnchainedEvents
  <1>3. ~Strays
    BY NoneAstray DEF Strays
  <1> QED BY <1>1, <1>2, <1>3, OpenedEvents, StoredEvents, FreedEvents, QuietEvents
          DEF Next, LuaStep, CbStep, QuietSteps

LEMMA NextWalk == Unraced /\ LuaInv' /\ [Next]_vars => WalkInv'
  <1> SUFFICES ASSUME Unraced, LuaInv', [Next]_vars, lpc' \in {"walk", "unchain"}
               PROVE  \E k \in 1 .. Len(Events(ldev)') :
                        /\ p' = Events(ldev)'[k]
                        /\ pprev' # NULL => k > 1 /\ pprev' = Events(ldev)'[k - 1]
                        /\ lpc' = "unchain" => k = Len(Events(ldev)')
    BY DEF WalkInv
  <1>0. TypeOK' /\ EvListInv /\ LuaInv /\ HeapInv
    BY Heaps DEF Unraced, LuaInv
  <1>1. ASSUME NEW n \in Numbers, plGetEvent(n), lpc' # lpc
        PROVE  \E k \in 1 .. Len(Events(ldev)') :
                        /\ p' = Events(ldev)'[k] /\ pprev' = NULL /\ lpc' # "unchain"
    <2>0. PICK entry : entry = GetMidiInEntry(n)
      OBVIOUS
    <2>1. /\ entry # NULL /\ p' = dev[entry].list /\ p' # NULL /\ pprev' = NULL
          /\ ldev' = entry /\ lpc' = "walk"
      BY <1>1, <2>0 DEF plGetEvent, Begin
    <2>2. entry \in DOMAIN dev
      BY <1>0, <2>0, <2>1, EntryType
    <2>3. Events(entry)' = Events(entry)
      BY <1>0, <1>1, <2>2, QuietEvents DEF QuietSteps
    <2>4. Path(ev, p', Events(entry)) /\ Len(Events(entry)) \in Nat
      BY <1>0, <2>1, <2>2, EventsType
    <2>5. Len(Events(entry)) # 0 /\ p' = Events(entry)[1]
      BY <2>1, <2>4 DEF Path
    <2>6. 1 \in 1 .. Len(Events(entry))
      BY <2>4, <2>5
    <2>7. Events(ldev)' = Events(entry)
      BY <2>1, <2>3 DEF Events
    <2> QED BY <2>1, <2>5, <2>6, <2>7
  <1>2. CASE LuaWalk
    <2>1. lpc = "walk" /\ ldev' = ldev /\ ev' = ev
      BY <1>2 DEF LuaWalk
    <2>2. PICK k \in 1 .. Len(Events(ldev)) : p = Events(ldev)[k]
      BY <2>1, WalkFacts
    <2>3. ldev \in DOMAIN dev
      BY <2>1, WalkFacts
    <2>4. Path(ev, dev[ldev].list, Events(ldev)) /\ Len(Events(ldev)) \in Nat
          /\ Events(ldev) \in Seq(DOMAIN ev)
      BY <1>0, <2>3, EventsType
    <2>5. ev[p].next = IF k = Len(Events(ldev)) THEN NULL ELSE Events(ldev)[k + 1]
      BY <1>0, <2>2, <2>4, PathGoesOn DEF HeapInv
    <2>6. Events(ldev)' = Events(ldev)
      <3>1. ASSUME NEW d, d = ldev PROVE Events(d)' = Events(d)
        BY <1>0, <1>2, <2>3, <3>1, QuietEvents DEF QuietSteps
      <3> QED BY <2>1, <3>1 DEF Events
    <2> HIDE DEF Events
    <2>7. CASE ev[p].next # NULL
      <3>1. pprev' = p /\ p' = ev[p].next /\ lpc' = "walk"
        BY <1>2, <2>1, <2>7 DEF LuaWalk, WalkOn
      <3>2. k + 1 \in 1 .. Len(Events(ldev)) /\ k + 1 > 1 /\ (k + 1) - 1 = k
        BY <2>4, <2>5, <2>7
      <3> QED BY <2>2, <2>5, <2>6, <2>7, <3>1, <3>2
    <2>8. CASE ev[p].next = NULL
      <3>1. lpc' = "unchain" /\ p' = p /\ pprev' = pprev
        BY <1>2, <2>8 DEF LuaWalk
      <3>2. k = Len(Events(ldev))
        <4>1. k # Len(Events(ldev)) => Events(ldev)[k + 1] \in DOMAIN ev
          BY <2>4
        <4> QED BY <1>0, <2>5, <2>8, <4>1 DEF HeapInv
      <3>3. pprev # NULL => k > 1 /\ pprev = Events(ldev)[k - 1]
        <4>1. PICK i \in 1 .. Len(Events(ldev)) :
                /\ p = Events(ldev)[i]
                /\ pprev # NULL => i > 1 /\ pprev = Events(ldev)[i - 1]
          BY <2>1, WalkFacts
        <4>2. i = k
          BY <2>2, <2>4, <4>1 DEF Path
        <4> QED BY <4>1, <4>2
      <3> QED BY <2>2, <2>6, <3>1, <3>2, <3>3
    <2> QED BY <2>7, <2>8
  <1>3. ASSUME UNCHANGED lua
        PROVE  \E k \in 1 .. Len(Events(ldev)) :
              /\ ldev \in DOMAIN dev
              /\ p' = Events(ldev)[k]
              /\ pprev' # NULL => k > 1 /\ pprev' = Events(ldev)[k - 1]
              /\ lpc' = "unchain" => k = Len(Events(ldev))
    BY <1>3, WalkFacts
  <1>4. ASSUME UNCHANGED lua, \A d : d = ldev => Events(d)' = Events(d)
        PROVE  \E k \in 1 .. Len(Events(ldev)') :
                        /\ p' = Events(ldev)'[k]
                        /\ pprev' # NULL => k > 1 /\ pprev' = Events(ldev)'[k - 1]
                        /\ lpc' = "unchain" => k = Len(Events(ldev)')
    <2>1. Events(ldev)' = Events(ldev)
      BY <1>4 DEF Events
    <2> HIDE DEF Events
    <2> QED BY <1>3, <1>4, <2>1
  <1>5. CASE CbStore
    <2>1. UNCHANGED lua
      BY <1>5 DEF CbStore, Publish
    <2>2. CASE cdev = ldev
      <3>1. ASSUME NEW d, d = cdev
            PROVE  /\ Len(Events(d)') = Len(Events(d)) + 1
                   /\ \A k \in 1 .. Len(Events(d)) : Events(d)'[k + 1] = Events(d)[k]
        BY <1>0, <1>5, <3>1, StoredEvents
      <3>2. /\ Len(Events(ldev)') = Len(Events(ldev)) + 1
            /\ \A k \in 1 .. Len(Events(ldev)) : Events(ldev)'[k + 1] = Events(ldev)[k]
        BY <2>1, <2>2, <3>1 DEF Events
      <3>3. PICK k \in 1 .. Len(Events(ldev)) :
              /\ ldev \in DOMAIN dev
              /\ p' = Events(ldev)[k]
              /\ pprev' # NULL => k > 1 /\ pprev' = Events(ldev)[k - 1]
              /\ lpc' = "unchain" => k = Len(Events(ldev))
        BY <1>3, <2>1
      <3>4. Len(Events(ldev)) \in Nat
        BY <1>0, <3>3, EventsType
      <3> HIDE DEF Events
      <3>5. k + 1 \in 1 .. Len(Events(ldev)') /\ p' = Events(ldev)'[k + 1]
        BY <3>2, <3>3, <3>4
      <3>6. pprev' # NULL => k + 1 > 1 /\ pprev' = Events(ldev)'[(k + 1) - 1]
        <4>1. k > 1 => k - 1 \in 1 .. Len(Events(ldev)) /\ (k - 1) + 1 = (k + 1) - 1
          BY <3>4
        <4>2. k > 1 => Events(ldev)'[(k + 1) - 1] = Events(ldev)[k - 1]
          BY <3>2, <4>1
        <4> QED BY <3>3, <3>4, <4>2
      <3>7. lpc' = "unchain" => k + 1 = Len(Events(ldev)')
        BY <3>2, <3>3
      <3> QED BY <3>5, <3>6, <3>7
    <2>3. CASE cdev # ldev
      <3>1. ASSUME NEW d, d = ldev PROVE Events(d)' = Events(d)
        <4>1. d \in DOMAIN dev
          BY <1>3, <2>1, <3>1
        <4> QED BY <1>0, <1>5, <2>3, <3>1, <4>1, StoredEvents
      <3> QED BY <1>4, <2>1, <3>1
    <2> QED BY <2>2, <2>3
  <1>6. CASE QuietSteps /\ UNCHANGED lua
    <2>1. ASSUME NEW d, d = ldev PROVE Events(d)' = Events(d)
      <3>1. d \in DOMAIN dev
        BY <1>3, <1>6, <2>1
      <3> QED BY <1>0, <1>6, <2>1, <3>1, QuietEvents
    <2> QED BY <1>4, <1>6, <2>1
  <1>7. CASE LuaUnchain \/ LuaFree \/ LuaClosed \/ LuaUnlink \/ LuaFreeDev
    BY <1>7 DEF LuaUnchain, LuaFree, LuaClosed, LuaUnlink, LuaFreeDev, LuaReturns
  <1>8. ASSUME NEW n \in Numbers PROVE ~plOpenMidiIn(n) /\ ~plCloseMidiIn(n)
    BY DEF plOpenMidiIn, plCloseMidiIn
  <1>9. ASSUME NEW n \in Numbers, plGetEvent(n), lpc' = lpc PROVE UNCHANGED lua
    BY <1>9 DEF plGetEvent
  <1>10. ASSUME CbFind \/ CbLoad \/ UNCHANGED vars PROVE UNCHANGED lua
    BY <1>10 DEF CbFind, CbLoad
  <1>11. ASSUME NEW n \in Numbers, NEW m \in Msgs, MidiReceive(n, m) PROVE UNCHANGED lua
    BY <1>11 DEF MidiReceive
  <1>12. ~Strays
    BY NoneAstray DEF Strays
  <1> QED
    <2>1. CASE \E n \in Numbers : plGetEvent(n)
      BY <1>1, <1>6, <1>9, <2>1 DEF QuietSteps
    <2>2. CASE \E n \in Numbers, m \in Msgs : MidiReceive(n, m)
      BY <1>6, <1>11, <2>2 DEF QuietSteps
    <2>3. CASE CbFind \/ CbLoad \/ UNCHANGED vars
      BY <1>6, <1>10, <2>3 DEF QuietSteps
    <2> QED BY <1>2, <1>5, <1>7, <1>8, <1>12, <2>1, <2>2, <2>3 DEF Next, LuaStep, CbStep

LEMMA NextSearch == Unraced /\ LuaInv' /\ ~raced' /\ [Next]_vars => SearchInv'
  <1> SUFFICES ASSUME Unraced, LuaInv', ~raced', [Next]_vars, cpc' = "find"
               PROVE  \E k \in 1 .. Len(Devices'), j \in 1 .. Len(Devices') :
                        /\ dev'[Devices'[k]].Number = cn' /\ j <= k
                        /\ \/ cdev' = Devices'[j]
                           \/ lpc' = "freeDev" /\ cdev' = ldev' /\ dev'[ldev'].next = Devices'[j]
    BY DEF SearchInv
  <1>0. TypeOK' /\ LuaInv /\ SearchInv /\ CallInv /\ DeliveryInv /\ HeapInv
    BY Heaps DEF Unraced, LuaInv
  <1>1. /\ Devices \in Seq(DOMAIN dev) /\ Len(Devices) \in Nat
        /\ \A k \in 1 .. Len(Devices) : Devices[k] \in DOMAIN dev
        /\ Path(dev, pMidiInDevList, Devices)
    BY <1>0, DevicesType DEF LuaInv, DevListInv
  <1>2. ASSUME NEW n \in Numbers, plOpenMidiIn(n)
        PROVE  \E k \in 1 .. Len(Devices'), j \in 1 .. Len(Devices') :
                 dev'[Devices'[k]].Number = cn' /\ j <= k /\ cdev' = Devices'[j]
    <2>1. lpc = "idle" /\ UNCHANGED cb
      BY <1>2 DEF plOpenMidiIn
    <2>2. PICK k \in 1 .. Len(Devices), j \in 1 .. Len(Devices) :
            dev[Devices[k]].Number = cn /\ j <= k /\ cdev = Devices[j]
      BY <1>0, <2>1 DEF SearchInv
    <2>3. /\ \A x \in DOMAIN dev : dev'[x] = dev[x]
          /\ Len(Devices') = Len(Devices) + 1
          /\ \A i \in 1 .. Len(Devices) : Devices'[i + 1] = Devices[i]
      BY <1>0, <1>2, OpenedList
    <2>4. k + 1 \in 1 .. Len(Devices') /\ j + 1 \in 1 .. Len(Devices') /\ j + 1 <= k + 1
      BY <1>1, <2>2, <2>3
    <2>5. Devices'[k + 1] = Devices[k] /\ Devices'[j + 1] = Devices[j]
      BY <2>3
    <2>6. dev'[Devices'[k + 1]].Number = cn' /\ cdev' = Devices'[j + 1]
      BY <1>1, <2>1, <2>2, <2>3, <2>5
    <2> QED BY <2>4, <2>6
  <1>3. CASE LuaUnlink
    <2>1. lpc = "unlink" /\ lpc' = "freeDev" /\ UNCHANGED <<cb, ldev>>
      BY <1>3 DEF LuaUnlink
    <2>2. PICK k \in 1 .. Len(Devices), j \in 1 .. Len(Devices) :
            dev[Devices[k]].Number = cn /\ j <= k /\ cdev = Devices[j]
      BY <1>0, <2>1 DEF SearchInv
    <2>3. PICK i \in 1 .. Len(Devices) : ldev = Devices[i] /\ Devices' = Dropped(Devices, i)
      BY <1>0, <1>3, UnlinkedList
    <2>4. /\ \A x \in DOMAIN dev : dev'[x].Number = dev[x].Number
          /\ dev'[ldev].next = dev[ldev].next
      BY <1>0, <1>3, UnlinkedList
    <2>5. k # i
      <3>1. dev[ldev].Number = ln /\ ln # cn
        BY <1>0, <2>1 DEF CallInv, DeliveryInv
      <3> QED BY <2>2, <2>3, <3>1
    <2>6. /\ Len(Devices') = Len(Devices) - 1
          /\ \A m \in 1 .. Len(Devices) - 1 :
               Devices'[m] = IF m < i THEN Devices[m] ELSE Devices[m + 1]
      BY <1>1, <2>3, DroppedFacts
    <2>7. \E m \in 1 .. Len(Devices') : Devices'[m] = Devices[k] /\ m = IF k < i THEN k ELSE k - 1
      <3>1. CASE k < i
        <4>1. k \in 1 .. Len(Devices) - 1
          BY <1>1, <3>1
        <4> QED BY <2>6, <3>1, <4>1
      <3>2. CASE k > i
        <4>1. k - 1 \in 1 .. Len(Devices) - 1 /\ ~(k - 1 < i) /\ (k - 1) + 1 = k /\ ~(k < i)
          BY <1>1, <3>2
        <4> QED BY <2>6, <4>1
      <3> QED BY <2>5, <3>1, <3>2
    <2>8. PICK m \in 1 .. Len(Devices') :
            Devices'[m] = Devices[k] /\ m = IF k < i THEN k ELSE k - 1
      BY <2>7
    <2>9. dev'[Devices'[m]].Number = cn'
      BY <1>1, <2>1, <2>2, <2>4, <2>8
    <2>10. CASE j < i
      <3>1. j \in 1 .. Len(Devices') /\ Devices'[j] = Devices[j] /\ j <= m
        BY <1>1, <2>2, <2>5, <2>6, <2>8, <2>10
      <3>2. cdev' = Devices'[j]
        BY <2>1, <2>2, <3>1
      <3> QED BY <2>9, <3>1, <3>2
    <2>11. CASE j = i
      <3>1. j \in 1 .. Len(Devices') /\ Devices'[j] = Devices[j + 1] /\ j <= m
        BY <1>1, <2>2, <2>5, <2>6, <2>8, <2>11
      <3>2. dev[Devices[j]].next = Devices[j + 1]
        <4>1. j \in 1 .. Len(Devices) - 1
          BY <1>1, <2>6, <3>1
        <4> QED BY <1>1, <4>1 DEF Path
      <3>3. cdev' = ldev' /\ dev'[ldev'].next = Devices'[j]
        BY <2>1, <2>2, <2>3, <2>4, <2>11, <3>1, <3>2
      <3> QED BY <2>1, <2>9, <3>1, <3>3
    <2>12. CASE j > i
      <3>1. j - 1 \in 1 .. Len(Devices) - 1 /\ ~(j - 1 < i) /\ (j - 1) + 1 = j
        BY <1>1, <2>12
      <3>2. j - 1 \in 1 .. Len(Devices') /\ Devices'[j - 1] = Devices[j]
        BY <2>6, <3>1
      <3>3. j - 1 <= m
        BY <2>2, <2>5, <2>8, <2>12
      <3>4. cdev' = Devices'[j - 1]
        BY <2>1, <2>2, <3>2
      <3> QED BY <2>9, <3>2, <3>3, <3>4
    <2> QED BY <2>10, <2>11, <2>12
  <1>4. CASE LuaFreeDev
    <2>1. cpc = "find" /\ cdev # ldev /\ UNCHANGED cb
      BY <1>4 DEF LuaFreeDev
    <2>2. Devices' = Devices /\ DOMAIN dev' = ToSet(Devices)
          /\ \A x \in DOMAIN dev' : dev'[x] = dev[x]
      BY <1>0, <1>4, FreedList
    <2>3. PICK k \in 1 .. Len(Devices), j \in 1 .. Len(Devices) :
            dev[Devices[k]].Number = cn /\ j <= k /\ cdev = Devices[j]
      BY <1>0, <2>1 DEF SearchInv
    <2>4. dev'[Devices'[k]].Number = cn' /\ cdev' = Devices'[j]
      BY <1>0, <2>1, <2>2, <2>3, DevicesType
    <2> QED BY <2>2, <2>3, <2>4
  <1>5. CASE OtherSteps
    <2>1. /\ \A x \in DOMAIN dev : dev'[x].Number = dev[x].Number /\ dev'[x].next = dev[x].next
          /\ (lpc' = "freeDev") <=> (lpc = "freeDev")
          /\ lpc = "freeDev" => ldev' = ldev /\ ldev \in DOMAIN dev
          /\ Devices' = Devices
      BY <1>0, <1>5, OtherList DEF CallInv
    <2>2. ASSUME NEW k \in 1 .. Len(Devices), NEW j \in 1 .. Len(Devices),
                 dev[Devices[k]].Number = cn', j <= k,
                 \/ cdev' = Devices[j]
                 \/ lpc = "freeDev" /\ cdev' = ldev /\ dev[ldev].next = Devices[j]
          PROVE  \E k1 \in 1 .. Len(Devices'), j1 \in 1 .. Len(Devices') :
                   /\ dev'[Devices'[k1]].Number = cn' /\ j1 <= k1
                   /\ \/ cdev' = Devices'[j1]
                      \/ lpc' = "freeDev" /\ cdev' = ldev' /\ dev'[ldev'].next = Devices'[j1]
      <3>1. dev'[Devices'[k]].Number = cn'
        BY <1>1, <2>1, <2>2
      <3>2. \/ cdev' = Devices'[j]
            \/ lpc' = "freeDev" /\ cdev' = ldev' /\ dev'[ldev'].next = Devices'[j]
        BY <2>1, <2>2
      <3> QED BY <2>1, <2>2, <3>1, <3>2
    <2>3. CASE UNCHANGED cb
      <3>1. \E k \in 1 .. Len(Devices), j \in 1 .. Len(Devices) :
              /\ dev[Devices[k]].Number = cn' /\ j <= k
              /\ \/ cdev' = Devices[j]
                 \/ lpc = "freeDev" /\ cdev' = ldev /\ dev[ldev].next = Devices[j]
        BY <1>0, <2>3 DEF SearchInv
      <3> QED BY <2>2, <3>1
    <2>4. ASSUME NEW n \in Numbers, NEW m \in Msgs, MidiReceive(n, m), ~UNCHANGED cb
          PROVE  \E k \in 1 .. Len(Devices), j \in 1 .. Len(Devices) :
                   dev[Devices[k]].Number = cn' /\ j <= k /\ cdev' = Devices[j]
      <3>1. n \in started /\ cn' = n /\ cdev' = pMidiInDevList
        BY <2>4 DEF MidiReceive
      <3>2. PICK d \in DOMAIN dev : dev[d].Number = n
        BY <1>0, <3>1 DEF DeliveryInv
      <3>3. d \in ToSet(Devices)
        <4>1. lpc = "freeDev" => d # ldev
          BY <1>0, <3>1, <3>2 DEF CallInv, DeliveryInv
        <4> QED BY <1>0, <4>1 DEF LuaInv, DevListInv
      <3>4. PICK k \in 1 .. Len(Devices) : d = Devices[k]
        BY <1>1, <3>3, InSet
      <3>5. 1 \in 1 .. Len(Devices) /\ 1 <= k /\ pMidiInDevList = Devices[1]
        BY <1>1 DEF Path
      <3> QED BY <3>1, <3>2, <3>4, <3>5
    <2>5. CASE CbFind
      <3>1. PICK k \in 1 .. Len(Devices), j \in 1 .. Len(Devices) :
              /\ dev[Devices[k]].Number = cn /\ j <= k
              /\ \/ cdev = Devices[j]
                 \/ lpc = "freeDev" /\ cdev = ldev /\ dev[ldev].next = Devices[j]
        BY <1>0, <2>5 DEF CbFind, SearchInv
      <3>2. dev[cdev].Number # cn /\ cdev' = dev[cdev].next /\ cn' = cn
        BY <2>5 DEF CbFind, CbReturns
      <3>3. CASE cdev = Devices[j]
        <4>1. j # k
          BY <3>1, <3>2, <3>3
        <4>2. j \in 1 .. Len(Devices) - 1 /\ j + 1 \in 1 .. Len(Devices) /\ j + 1 <= k
          BY <1>1, <3>1, <4>1
        <4>3. cdev' = Devices[j + 1]
          BY <1>1, <3>2, <3>3, <4>2 DEF Path
        <4> QED BY <2>2, <3>1, <3>2, <4>2, <4>3
      <3>4. CASE cdev = ldev /\ dev[ldev].next = Devices[j]
        BY <2>2, <3>1, <3>2, <3>4
      <3> QED BY <3>1, <3>3, <3>4
    <2>6. ~CbLoad /\ ~CbStore
      BY DEF CbLoad, CbStore, Publish, CbReturns
    <2>7. ~Strays
      BY NoneAstray DEF Strays
    <2>8. ASSUME NEW n \in Numbers, plCloseMidiIn(n) \/ plGetEvent(n) PROVE UNCHANGED cb
      BY <2>8 DEF plCloseMidiIn, plGetEvent
    <2>9. ASSUME LuaWalk \/ LuaUnchain \/ LuaFree \/ LuaClosed \/ UNCHANGED vars
          PROVE  UNCHANGED cb
      BY <2>9 DEF LuaWalk, LuaUnchain, LuaFree, LuaClosed
    <2>10. CASE \E n \in Numbers, m \in Msgs : MidiReceive(n, m)
      <3>1. PICK n \in Numbers, m \in Msgs : MidiReceive(n, m)
        BY <2>10
      <3>2. CASE ~UNCHANGED cb
        BY <2>2, <2>4, <3>1, <3>2
      <3> QED BY <2>3, <3>2
    <2> QED BY <1>5, <2>3, <2>5, <2>6, <2>7, <2>8, <2>9, <2>10 DEF OtherSteps
  <1> QED BY <1>2, <1>3, <1>4, <1>5, NextSteps

LEMMA NextChain == Unraced /\ LuaInv' /\ ~raced' /\ [Next]_vars => ChainInv'
  <1> SUFFICES ASSUME Unraced, LuaInv', ~raced', [Next]_vars, cpc' \in {"load", "store"}
               PROVE  /\ cdev' \in ToSet(Devices') /\ dev'[cdev'].Number = cn'
                      /\ cpc' = "store" => ev'[cev'].next = dev'[cdev'].list
    BY DEF ChainInv
  <1>0. TypeOK' /\ LuaInv /\ ChainInv /\ EvListInv /\ CallInv /\ DeliveryInv /\ TypeOK
    BY DEF Unraced, LuaInv
  <1>1. CASE CbLoad
    <2>1. /\ cpc = "load" /\ UNCHANGED <<pMidiInDevList, dev, cn, cdev, cev>>
          /\ ev' = [ev EXCEPT ![cev].next = dev[cdev].list]
      BY <1>1 DEF CbLoad, Chain
    <2>2. cev \in DOMAIN ev /\ cdev \in DOMAIN dev
      BY <2>1, NoneAstray
    <2>3. ev'[cev].next = dev[cdev].list
      <3>1. EvTyped /\ dev[cdev].list \in EvBlocks \cup {NULL}
        BY <1>0, <2>2 DEF TypeOK, EvTyped, DevBlock
      <3>2. \A x \in DOMAIN ev : ev'[x].next = IF x = cev THEN dev[cdev].list ELSE ev[x].next
        BY <2>1, <3>1, EvNextSet
      <3> QED BY <2>2, <3>2
    <2> QED BY <1>0, <2>1, <2>3 DEF ChainInv, Devices
  <1>2. CASE CbFind
    <2>1. /\ cpc = "find" /\ cdev # NULL /\ dev[cdev].Number = cn /\ cpc' = "load"
          /\ UNCHANGED <<pMidiInDevList, dev, cn, cdev>>
      BY <1>2 DEF CbFind, CbReturns
    <2>2. cdev \in DOMAIN dev
      BY <2>1, NoneAstray
    <2>3. cdev \in ToSet(Devices)
      <3>1. PICK k \in 1 .. Len(Devices) : dev[Devices[k]].Number = cn
        BY <2>1 DEF Unraced, SearchInv
      <3>2. Devices[k] \in DOMAIN dev /\ Devices[k] \in ToSet(Devices)
        BY <1>0, DevicesType
      <3>3. cdev = Devices[k]
        BY <1>0, <2>1, <2>2, <3>1, <3>2 DEF LuaInv, DevListInv
      <3> QED BY <3>2, <3>3
    <2> QED BY <2>1, <2>3 DEF Devices
  <1>3. ~CbStore /\ \A n \in Numbers, m \in Msgs : MidiReceive(n, m) => UNCHANGED cb
    BY DEF CbStore, Publish, CbReturns, MidiReceive
  <1>4. ASSUME UNCHANGED cb
        PROVE  /\ cdev \in ToSet(Devices) /\ cdev \in DOMAIN dev /\ dev[cdev].Number = cn
               /\ cpc # "idle" /\ cev \in DOMAIN ev /\ cev \notin Listed
               /\ cpc' = "store" => ev[cev].next = dev[cdev].list
    BY <1>0, <1>4, NoneAstray DEF ChainInv
  <1>5. ASSUME NEW n \in Numbers, plOpenMidiIn(n)
        PROVE  /\ cdev' \in ToSet(Devices') /\ dev'[cdev'].Number = cn'
               /\ cpc' = "store" => ev'[cev'].next = dev'[cdev'].list
    <2>1. UNCHANGED cb /\ ev' = ev
      BY <1>5 DEF plOpenMidiIn
    <2> QED BY <1>0, <1>4, <1>5, <2>1, OpenedList
  <1>6. CASE LuaUnlink
    <2>1. UNCHANGED cb /\ ev' = ev /\ lpc = "unlink"
      BY <1>6 DEF LuaUnlink
    <2>2. cdev # ldev
      <3>1. dev[ldev].Number = ln /\ ln # cn
        BY <1>0, <1>4, <2>1 DEF CallInv, DeliveryInv
      <3> QED BY <1>4, <2>1, <3>1
    <2> QED BY <1>0, <1>4, <1>6, <2>1, <2>2, UnlinkedList
  <1>7. CASE LuaFreeDev
    <2>1. UNCHANGED cb
      BY <1>7 DEF LuaFreeDev
    <2>2. Devices' = Devices /\ dev'[cdev] = dev[cdev]
      BY <1>0, <1>4, <1>7, <2>1, FreedList
    <2>3. ev'[cev] = ev[cev]
      <3>1. ASSUME NEW d, d = ldev PROVE ev'[cev] = ev[cev]
        <4>1. d \in DOMAIN dev /\ \A x \in DOMAIN ev \ ToSet(Events(d)) : ev'[x] = ev[x]
          BY <1>0, <1>7, <3>1, FreedEvents
        <4> QED BY <1>4, <2>1, <4>1 DEF Listed
      <3> QED BY <3>1
    <2> QED BY <1>4, <2>1, <2>2, <2>3
  <1>8. CASE LuaUnchain
    <2>1. UNCHANGED cb /\ ~Crossed
      BY <1>8 DEF LuaUnchain
    <2>2. Devices' = Devices /\ \A x \in DOMAIN dev : dev'[x].Number = dev[x].Number
      BY <1>0, <1>8, OtherList DEF OtherSteps
    <2>3. ASSUME cpc' = "store" PROVE ev'[cev].next = dev'[cdev].list
      <3>1. CASE pprev = NULL
        <4>1. cdev # ldev /\ ev' = ev /\ dev' = [dev EXCEPT ![ldev].list = NULL]
          BY <1>8, <2>1, <2>3, <3>1 DEF LuaUnchain, Crossed
        <4>2. dev'[cdev].list = dev[cdev].list
          <5>1. DevTyped
            BY <1>0 DEF TypeOK, DevTyped
          <5>2. \A x \in DOMAIN dev : dev'[x].list = IF x = ldev THEN NULL ELSE dev[x].list
            BY <4>1, <5>1, DevListSet
          <5> QED BY <1>4, <2>1, <4>1, <5>2
        <4> QED BY <1>4, <2>1, <2>3, <4>1, <4>2
      <3>2. CASE pprev # NULL
        <4>1. dev' = dev /\ ev' = [ev EXCEPT ![pprev].next = NULL] /\ lpc = "unchain"
          BY <1>8, <3>2 DEF LuaUnchain
        <4>2. cev # pprev
          <5>1. PICK k \in 1 .. Len(Events(ldev)) : k > 1 /\ pprev = Events(ldev)[k - 1]
            BY <3>2, <4>1, WalkFacts
          <5>2. ldev \in DOMAIN dev
            BY <4>1, WalkFacts
          <5>3. k - 1 \in 1 .. Len(Events(ldev))
            BY <5>1
          <5>4. pprev \in Listed
            BY <1>0, <5>1, <5>2, <5>3, EventsType
          <5> QED BY <1>4, <2>1, <5>4
        <4>3. ev'[cev].next = ev[cev].next
          <5>1. EvTyped
            BY <1>0 DEF TypeOK, EvTyped
          <5>2. \A x \in DOMAIN ev : ev'[x].next = IF x = pprev THEN NULL ELSE ev[x].next
            BY <4>1, <5>1, EvNextSet
          <5> QED BY <1>4, <2>1, <4>2, <5>2
        <4> QED BY <1>4, <2>1, <2>3, <4>1, <4>3
      <3> QED BY <3>1, <3>2
    <2> QED BY <1>4, <2>1, <2>2, <2>3
  <1>9. CASE LuaFree
    <2>1. UNCHANGED <<cb, pMidiInDevList, dev>> /\ ev' = Without(ev, {p}) /\ lpc = "free"
      BY <1>9 DEF LuaFree
    <2>2. ev'[cev] = ev[cev]
      <3>1. cev # p
        BY <1>0, <1>4, <2>1 DEF EvListInv
      <3>2. \A x \in DOMAIN ev \ {p} : ev'[x] = ev[x]
        BY <2>1, EvWithout
      <3> QED BY <1>4, <2>1, <3>1, <3>2
    <2> QED BY <1>4, <2>1, <2>2 DEF Devices
  <1>10. CASE UNCHANGED <<pMidiInDevList, dev, ev, cb>>
    BY <1>4, <1>10 DEF Devices
  <1>11. ASSUME NEW n \in Numbers, plCloseMidiIn(n) \/ plGetEvent(n)
         PROVE  UNCHANGED <<pMidiInDevList, dev, ev, cb>>
    BY <1>11 DEF plCloseMidiIn, plGetEvent
  <1>12. ASSUME NEW n \in Numbers, NEW m \in Msgs, MidiReceive(n, m)
         PROVE  UNCHANGED <<pMidiInDevList, dev, ev, cb>>
    <2>1. UNCHANGED cb /\ cpc = "idle" /\ cpc' # "idle"
      BY <1>3, <1>12 DEF MidiReceive
    <2> QED BY <2>1
  <1>13. ASSUME LuaWalk \/ LuaClosed \/ UNCHANGED vars
         PROVE  UNCHANGED <<pMidiInDevList, dev, ev, cb>>
    BY <1>13 DEF LuaWalk, LuaClosed
  <1>14. ~Strays
    BY NoneAstray DEF Strays
  <1> QED BY <1>1, <1>2, <1>3, <1>5, <1>6, <1>7, <1>8, <1>9, <1>10, <1>11, <1>12, <1>13, <1>14
          DEF Next, LuaStep, CbStep

LEMMA NextRace == LuaInv /\ LuaInv' /\ RaceInv /\ [Next]_vars => RaceInv'
  <1> SUFFICES ASSUME LuaInv, LuaInv', RaceInv, [Next]_vars, ~raced'
               PROVE  EvListInv' /\ WalkInv' /\ SearchInv' /\ ChainInv' /\ ~wild'
    BY DEF RaceInv
  <1>1. ~raced
    BY DEF Next, LuaStep, CbStep, plOpenMidiIn, plCloseMidiIn, plGetEvent, MidiReceive, LuaWalk,
           LuaUnchain, LuaFree, LuaClosed, LuaUnlink, LuaFreeDev, CbFind, CbLoad, CbStore, Publish, Strays
  <1>2. Unraced
    BY <1>1 DEF RaceInv, Unraced
  <1>3. ~wild'
    <2>1. ~Strays /\ ~wild
      BY <1>2, NoneAstray DEF Strays, Unraced
    <2> QED BY <2>1
            DEF Next, LuaStep, CbStep, plOpenMidiIn, plCloseMidiIn, plGetEvent, MidiReceive,
                LuaWalk, LuaUnchain, LuaFree, LuaClosed, LuaUnlink, LuaFreeDev, CbFind, CbLoad,
                CbStore, Publish
  <1> QED BY <1>2, <1>3, NextEvents, NextWalk, NextSearch, NextChain

LEMMA InitRace == Init => RaceInv
  <1> SUFFICES ASSUME Init PROVE RaceInv
    OBVIOUS
  <1>1. DOMAIN dev = {} /\ DOMAIN ev = {}
    BY DEF Init
  <1>2. EvListInv
    BY <1>1 DEF Init, EvListInv, Listed, Loose
  <1> QED BY <1>2 DEF Init, RaceInv, WalkInv, SearchInv, ChainInv

LEMMA RaceAlways == Spec => [](LuaInv /\ RaceInv)
  <1>1. Init => LuaInv /\ RaceInv
    BY InitLua, InitRace
  <1>2. (LuaInv /\ RaceInv) /\ [Next]_vars => (LuaInv /\ RaceInv)'
    BY NextLua, NextRace
  <1> QED BY <1>1, <1>2, PTL DEF Spec

\* profimidi.c: for any number of devices, messages and blocks, neither the script's
\* thread nor MidiReceive follows a pointer to a freed block, unless the removal of a
\* list's only event met an addition, or a search stood on the device just freed.
THEOREM StraysSafe == Spec => []StrayNeedsRace
  <1>1. RaceInv => StrayNeedsRace
    BY DEF RaceInv, StrayNeedsRace
  <1> QED BY <1>1, RaceAlways, PTL

\* profimidi.c: between calls the blocks in use are those on the lists of the open
\* devices, each event on one list: nothing leaks and nothing is freed twice.
THEOREM MemorySafe == Spec => []MemoryAccounted
  <1>1. LuaInv /\ RaceInv => MemoryAccounted
    <2> SUFFICES ASSUME LuaInv, RaceInv, lpc = "idle", cpc = "idle", ~raced
                 PROVE  /\ DOMAIN dev = ToSet(Devices)
                        /\ DOMAIN ev = Listed
                        /\ \A d1, d2 \in DOMAIN dev :
                             d1 # d2 => /\ dev[d1].Number # dev[d2].Number
                                        /\ ToSet(Events(d1)) \cap ToSet(Events(d2)) = {}
      BY DEF MemoryAccounted, Devices, Events, Listed
    <2>1. DevListInv /\ EvListInv
      BY DEF LuaInv, RaceInv
    <2>2. Loose = {}
      BY DEF Loose
    <2> QED BY <2>1, <2>2 DEF DevListInv, EvListInv
  <1> QED BY <1>1, RaceAlways, PTL

-----------------------------------------------------------------------------
(* The walk of RemoveMidiInEvent                                           *)

\* A path from one of its blocks on
LEMMA PathFrom ==
  ASSUME NEW h, NEW b, NEW s, Path(h, b, s), NEW k \in 1 .. Len(s)
  PROVE  \E q : /\ Path(h, s[k], q) /\ Len(q) = (Len(s) - k) + 1
                /\ \A j \in 1 .. Len(q) : \E i \in 1 .. Len(s) : q[j] = s[i]
  <1> DEFINE q == SubSeq(s, k, Len(s))
  <1>1. s \in Seq(DOMAIN h) /\ Len(s) \in Nat
    BY DEF Path
  <1>2. /\ q \in Seq(DOMAIN h) /\ Len(q) = (Len(s) - k) + 1
        /\ \A j \in 1 .. Len(q) : (k - 1) + j \in 1 .. Len(s) /\ q[j] = s[(k - 1) + j]
    BY <1>1
  <1> HIDE DEF q
  <1>3. \A i, j \in 1 .. Len(q) : i # j => q[i] # q[j]
    <2>1. ASSUME NEW i \in 1 .. Len(q), NEW j \in 1 .. Len(q), i # j PROVE q[i] # q[j]
      <3>1. (k - 1) + i # (k - 1) + j
        BY <1>1, <1>2, <2>1
      <3>2. s[(k - 1) + i] # s[(k - 1) + j]
        BY <1>2, <3>1 DEF Path
      <3> QED BY <1>2, <3>2
    <2> QED BY <2>1
  <1>4. ASSUME NEW j \in 1 .. Len(q) - 1 PROVE h[q[j]].next = q[j + 1]
    <2>1. /\ j \in 1 .. Len(q) /\ j + 1 \in 1 .. Len(q)
          /\ (k - 1) + j \in 1 .. Len(s) - 1 /\ (k - 1) + (j + 1) = ((k - 1) + j) + 1
      BY <1>1, <1>2
    <2>2. h[s[(k - 1) + j]].next = s[((k - 1) + j) + 1]
      BY <2>1 DEF Path
    <2> QED BY <1>2, <2>1, <2>2
  <1>5. q[1] = s[k] /\ h[q[Len(q)]].next = NULL
    <2>1. /\ 1 \in 1 .. Len(q) /\ Len(q) \in 1 .. Len(q)
          /\ (k - 1) + 1 = k /\ (k - 1) + Len(q) = Len(s)
      BY <1>1, <1>2
    <2>2. q[1] = s[k] /\ q[Len(q)] = s[Len(s)]
      BY <1>2, <2>1
    <2>3. h[s[Len(s)]].next = NULL
      BY <1>1 DEF Path
    <2> QED BY <2>2, <2>3
  <1>6. Len(q) # 0
    BY <1>1, <1>2
  <1>7. Path(h, s[k], q)
    <2>1. \A j \in 1 .. Len(q) - 1 : h[q[j]].next = q[j + 1]
      BY <1>4
    <2> QED BY <1>2, <1>3, <1>5, <1>6, <2>1 DEF Path
  <1>8. \A j \in 1 .. Len(q) : \E i \in 1 .. Len(s) : q[j] = s[i]
    BY <1>2
  <1> QED BY <1>2, <1>7, <1>8

\* and after its first block.
LEMMA PathAfter ==
  ASSUME NEW h, NEW b, NEW s, Path(h, b, s), Len(s) > 1, NULL \notin DOMAIN h
  PROVE  \E q : Path(h, h[b].next, q) /\ Len(q) = Len(s) - 1
  <1>1. s \in Seq(DOMAIN h) /\ Len(s) \in Nat
    BY DEF Path
  <1>2. /\ 1 \in 1 .. Len(s) /\ 1 + 1 \in 1 .. Len(s) /\ 1 # Len(s)
        /\ (Len(s) - (1 + 1)) + 1 = Len(s) - 1
    <2> DEFINE n == Len(s)
    <2>1. n \in Nat /\ n > 1
      BY <1>1
    <2> HIDE DEF n
    <2>2. 1 \in 1 .. n /\ 1 + 1 \in 1 .. n /\ 1 # n /\ (n - (1 + 1)) + 1 = n - 1
      BY <2>1
    <2> QED BY <2>2 DEF n
  <1>3. b = s[1] /\ h[s[1]].next = s[1 + 1]
    BY <1>1, <1>2, PathGoesOn DEF Path
  <1>4. PICK k \in 1 .. Len(s) : k = 1 + 1
    BY <1>2
  <1>5. \E q : Path(h, s[k], q) /\ Len(q) = (Len(s) - k) + 1
    BY PathFrom
  <1> QED BY <1>2, <1>3, <1>4, <1>5

\* What is left of the list from p on
LEMMA AheadFacts ==
  ASSUME Unraced, lpc = "walk"
  PROVE  /\ Path(ev, p, ListFrom(ev, p)) /\ Ahead \in Nat /\ Ahead >= 1
         /\ \A k \in 1 .. Len(ListFrom(ev, p)) : ListFrom(ev, p)[k] \in Listed
  <1>1. EvListInv /\ HeapInv
    BY Heaps DEF Unraced, LuaInv
  <1>2. PICK k \in 1 .. Len(Events(ldev)) : p = Events(ldev)[k]
    BY WalkFacts
  <1> DEFINE s == Events(ldev)
  <1>3. /\ Path(ev, dev[ldev].list, s) /\ Len(s) \in Nat
        /\ \A i \in 1 .. Len(s) : s[i] \in Listed
    BY <1>1, WalkFacts, EventsType
  <1>4. k \in 1 .. Len(s) /\ p = s[k]
    BY <1>2
  <1> HIDE DEF s
  <1>5. PICK q : /\ Path(ev, p, q) /\ Len(q) = (Len(s) - k) + 1
                 /\ \A j \in 1 .. Len(q) : \E i \in 1 .. Len(s) : q[j] = s[i]
    BY <1>3, <1>4, PathFrom
  <1>6. ListFrom(ev, p) = q
    BY <1>1, <1>5, PathIsList DEF HeapInv
  <1>7. Len(q) \in Nat /\ Len(q) >= 1
    BY <1>3, <1>4, <1>5
  <1> QED BY <1>3, <1>5, <1>6, <1>7 DEF Ahead

LEMMA StepShortens ==
  LuaInv /\ LuaInv' /\ RaceInv /\ [Next]_vars =>
    (~raced /\ lpc = "walk" /\ lpc' = "walk" =>
       Ahead' <= Ahead /\ (LuaWalk => Ahead' < Ahead))
  <1> SUFFICES ASSUME LuaInv, LuaInv', RaceInv, [Next]_vars, ~raced, lpc = "walk", lpc' = "walk"
               PROVE  Ahead' <= Ahead /\ (LuaWalk => Ahead' < Ahead)
    OBVIOUS
  <1> DEFINE s == ListFrom(ev, p)
  <1>1. Unraced /\ TypeOK'
    BY DEF RaceInv, Unraced, LuaInv
  <1>2. IsFiniteSet(DOMAIN ev') /\ NULL \notin DOMAIN ev' /\ NULL \notin DOMAIN ev
    BY <1>1, Heaps, HeapsNext DEF HeapInv, Unraced, LuaInv
  <1>3. /\ Path(ev, p, s) /\ Len(s) = Ahead /\ Len(s) \in Nat /\ Len(s) >= 1
        /\ \A k \in 1 .. Len(s) : s[k] \in Listed
    BY <1>1, AheadFacts DEF Ahead
  <1> HIDE DEF s
  <1>4. Ahead' = Len(ListFrom(ev', p'))
    BY DEF Ahead
  <1>5. CASE LuaWalk
    <2>1. ev' = ev /\ ev[p].next # NULL /\ p' = ev[p].next
      BY <1>5 DEF LuaWalk, WalkOn
    <2>2. Len(s) > 1
      <3>1. s[1] = p /\ (Len(s) = 1 => ev[s[1]].next = NULL)
        BY <1>3 DEF Path
      <3> QED BY <1>3, <2>1, <3>1
    <2>3. PICK q : Path(ev, ev[p].next, q) /\ Len(q) = Len(s) - 1
      BY <1>2, <1>3, <2>2, PathAfter
    <2>4. ListFrom(ev', p') = q
      BY <1>2, <2>1, <2>3, PathIsList
    <2> QED BY <1>3, <1>4, <2>3, <2>4
  <1>6. ASSUME p' = p, \A x \in Listed : x \in DOMAIN ev' /\ ev'[x].next = ev[x].next, ~LuaWalk
        PROVE  Ahead' = Ahead
    <2>1. Path(ev', p', s)
      BY <1>3, <1>6, PathKept
    <2>2. ListFrom(ev', p') = s
      BY <1>2, <2>1, PathIsList
    <2> QED BY <1>3, <1>4, <2>2
  <1>7. CASE CbStore
    <2>1. ev' = ev /\ p' = p
      BY <1>7 DEF CbStore, Publish
    <2>2. \A x \in Listed : x \in DOMAIN ev
      BY <1>1 DEF Unraced, EvListInv
    <2>3. ~LuaWalk
      BY <1>7 DEF CbStore, LuaWalk, CbReturns, CbAt
    <2> QED BY <1>3, <1>6, <2>1, <2>2, <2>3
  <1>8. CASE QuietSteps /\ ~LuaWalk
    <2>1. p' = p
      BY <1>8 DEF QuietSteps, plCloseMidiIn, plGetEvent, MidiReceive, LuaFree, LuaClosed, LuaUnlink,
                  CbFind, CbLoad, LuaAt
    <2> QED BY <1>1, <1>3, <1>6, <1>8, <2>1, QuietBlocks
  <1>9. ~Strays
    BY <1>1, NoneAstray DEF Strays
  <1>10. ~LuaUnchain /\ ~LuaFreeDev /\ \A n \in Numbers : ~plOpenMidiIn(n)
    BY DEF LuaUnchain, LuaFreeDev, plOpenMidiIn, LuaAt
  <1> QED BY <1>5, <1>7, <1>8, <1>9, <1>10 DEF Next, LuaStep, CbStep, QuietSteps

\* profimidi.c, RemoveMidiInEvent and AddMidiInEvent: for any number of events, the walk to
\* the end of a list has after each of its rounds fewer before it, and MidiReceive, which
\* may add events all the while, never adds one there; until a crossing.
THEOREM WalksShorten == Spec => WalkShortens
  <1>1. LuaInv /\ LuaInv' /\ RaceInv /\ [Next]_vars =>
          [~raced /\ lpc = "walk" /\ lpc' = "walk" =>
             Ahead' <= Ahead /\ (LuaWalk => Ahead' < Ahead)]_vars
    BY StepShortens
  <1>2. Spec => [][~raced /\ lpc = "walk" /\ lpc' = "walk" =>
                     Ahead' <= Ahead /\ (LuaWalk => Ahead' < Ahead)]_vars
    BY <1>1, RaceAlways, PTL DEF Spec
  <1> QED BY <1>2 DEF WalkShortens

-----------------------------------------------------------------------------
(* The queues of MidiQueue                                                 *)

\* d is on the list, the device of number n.
Has(n, d) == d \in ToSet(Devices) /\ dev[d].Number = n

\* The messages of a list of events, oldest first
Contents(s) == [k \in 1 .. Len(s) |-> ev[s[Len(s) - k + 1]].msg]

LEMMA EntryRule ==
  LuaInv => \A n : /\ \A d : Has(n, d) => GetMidiInEntry(n) = d /\ d # NULL
                   /\ (\A d : ~Has(n, d)) => GetMidiInEntry(n) = NULL
  <1> SUFFICES ASSUME LuaInv, NEW n
               PROVE  /\ \A d : Has(n, d) => GetMidiInEntry(n) = d /\ d # NULL
                      /\ (\A d : ~Has(n, d)) => GetMidiInEntry(n) = NULL
    OBVIOUS
  <1>1. PICK e : e = GetMidiInEntry(n)
    OBVIOUS
  <1>2. TypeOK /\ Path(dev, pMidiInDevList, Devices)
    BY DEF LuaInv, DevListInv
  <1>3. \/ e = NULL /\ \A x \in ToSet(Devices) : dev[x].Number # n
        \/ e \in ToSet(Devices) /\ dev[e].Number = n
    BY <1>1, <1>2, EntryFacts
  <1>4. ToSet(Devices) \subseteq DOMAIN dev /\ NULL \notin DOMAIN dev
    BY <1>2, DevicesType, Heaps DEF HeapInv
  <1>5. \A d1, d2 \in DOMAIN dev : d1 # d2 => dev[d1].Number # dev[d2].Number
    BY DEF LuaInv, DevListInv
  <1> QED BY <1>1, <1>3, <1>4, <1>5 DEF Has

QueuesAre ==
  \A n \in Numbers :
    /\ \A d : Has(n, d) => n \in OpenDevices /\ Queues[n] = Contents(Events(d))
    /\ (\A d : ~Has(n, d)) => n \notin OpenDevices /\ Queues[n] = <<>>

LEMMA QueueRule == LuaInv /\ EvListInv => QueuesAre
  <1> SUFFICES ASSUME LuaInv, EvListInv, NEW n \in Numbers
               PROVE  /\ \A d : Has(n, d) => n \in OpenDevices /\ Queues[n] = Contents(Events(d))
                      /\ (\A d : ~Has(n, d)) => n \notin OpenDevices /\ Queues[n] = <<>>
    BY DEF QueuesAre
  <1>1. Queues[n] = QueueOf(n)
    BY DEF Queues
  <1>2. ASSUME NEW d, Has(n, d)
        PROVE  n \in OpenDevices /\ QueueOf(n) = Contents(Events(d))
    <2>1. GetMidiInEntry(n) = d /\ d # NULL
      BY <1>2, EntryRule
    <2>2. d \in DOMAIN dev
      BY <1>2, DevicesType DEF Has
    <2>3. Events(d) \in Seq(DOMAIN ev)
      BY <2>2, EventsType
    <2> DEFINE s == Events(d)
               list == Reverse(s)
    <2>4. QueueOf(n) = [k \in DOMAIN list |-> ev[list[k]].msg]
      BY <2>1 DEF QueueOf, Events
    <2> HIDE DEF s
    <2>5. s \in Seq(DOMAIN ev)
      BY <2>3 DEF s
    <2>6. DOMAIN list = 1 .. Len(s) /\ \A k \in 1 .. Len(s) : list[k] = s[Len(s) - k + 1]
      BY <2>5 DEF Reverse
    <2> HIDE DEF list
    <2>7. [k \in DOMAIN list |-> ev[list[k]].msg] = Contents(s)
      BY <2>6 DEF Contents
    <2> QED BY <2>1, <2>4, <2>7 DEF OpenDevices, s
  <1>3. ASSUME \A d : ~Has(n, d) PROVE n \notin OpenDevices /\ QueueOf(n) = <<>>
    <2>1. GetMidiInEntry(n) = NULL
      BY <1>3, EntryRule
    <2>2. QueueOf(n) = [k \in DOMAIN <<>> |-> ev[<<>>[k]].msg]
      BY <2>1 DEF QueueOf
    <2> QED BY <2>1, <2>2 DEF OpenDevices
  <1> QED BY <1>1, <1>2, <1>3

LEMMA QueueRuleNext == LuaInv' /\ EvListInv' => QueuesAre'
  BY QueueRule, PTL

LEMMA ContentsKept ==
  ASSUME NEW s, s \in Seq(DOMAIN ev), \A x \in ToSet(s) : ev'[x].msg = ev[x].msg
  PROVE  Contents(s)' = Contents(s)
  <1>1. \A k \in 1 .. Len(s) : Len(s) - k + 1 \in 1 .. Len(s)
    OBVIOUS
  <1>2. \A k \in 1 .. Len(s) : s[k] \in ToSet(s)
    BY InSet
  <1> QED BY <1>1, <1>2 DEF Contents

\* A device that is open before and after a step, its list left alone, has its queue,
LEMMA QueueKept ==
  ASSUME Unraced, LuaInv', EvListInv', NEW n \in Numbers, NEW d, Has(n, d), Has(n, d)',
         Events(d)' = Events(d), \A x \in ToSet(Events(d)) : ev'[x].msg = ev[x].msg
  PROVE  Queues'[n] = Queues[n] /\ n \in OpenDevices /\ n \in OpenDevices'
  <1>1. PICK s : s = Events(d)
    OBVIOUS
  <1>2. LuaInv /\ EvListInv
    BY DEF Unraced
  <1>3. d \in DOMAIN dev
    BY <1>2, DevicesType DEF Has
  <1>4. s \in Seq(DOMAIN ev)
    BY <1>1, <1>2, <1>3, EventsType
  <1>5. Contents(s)' = Contents(s)
    BY <1>1, <1>4, ContentsKept
  <1>6. Contents(Events(d))' = Contents(s)'
    BY <1>1 DEF Contents
  <1>7. Queues[n] = Contents(Events(d)) /\ n \in OpenDevices
    BY <1>2, QueueRule DEF QueuesAre
  <1>8. Queues'[n] = Contents(Events(d))' /\ n \in OpenDevices'
    BY QueueRuleNext DEF QueuesAre
  <1> QED BY <1>1, <1>5, <1>6, <1>7, <1>8

\* and one that is closed before and after it has none.
LEMMA QueueNone ==
  ASSUME Unraced, LuaInv', EvListInv', NEW n \in Numbers,
         \A d : ~Has(n, d), \A d : ~Has(n, d)'
  PROVE  Queues'[n] = Queues[n] /\ n \notin OpenDevices /\ n \notin OpenDevices'
  BY QueueRule, QueueRuleNext DEF Unraced, QueuesAre

\* Nothing a script can see changes.
LEMMA SameQueues ==
  ASSUME Unraced, LuaInv', EvListInv', Devices' = Devices,
         \A d \in ToSet(Devices) :
           /\ dev'[d].Number = dev[d].Number /\ Events(d)' = Events(d)
           /\ \A x \in ToSet(Events(d)) : ev'[x].msg = ev[x].msg
  PROVE  OpenDevices' = OpenDevices /\ Queues' = Queues
  <1>1. ASSUME NEW n \in Numbers
        PROVE  Queues'[n] = Queues[n] /\ (n \in OpenDevices' <=> n \in OpenDevices)
    <2>1. CASE \E d : Has(n, d)
      <3>1. PICK d : Has(n, d)
        BY <2>1
      <3>2. Has(n, d)'
        BY <3>1 DEF Has
      <3> QED BY <3>1, <3>2, QueueKept DEF Has
    <2>2. CASE \A d : ~Has(n, d)
      <3>1. \A d : ~Has(n, d)'
        BY <2>2 DEF Has
      <3> QED BY <2>2, <3>1, QueueNone
    <2> QED BY <2>1, <2>2
  <1>2. OpenDevices \subseteq Numbers /\ OpenDevices' \subseteq Numbers
    BY DEF OpenDevices
  <1>3. Queues = [n \in Numbers |-> Queues[n]] /\ Queues' = [n \in Numbers |-> Queues'[n]]
    BY DEF Queues
  <1> HIDE DEF Queues
  <1> QED BY <1>1, <1>2, <1>3

\* plOpenMidiIn opens a device with an empty queue.
LEMMA OpenStep ==
  ASSUME Unraced, LuaInv', EvListInv', NEW n \in Numbers, plOpenMidiIn(n)
  PROVE  Q!Open(n)
  <1>0. LuaInv /\ EvListInv /\ TypeOK'
    BY DEF Unraced, LuaInv
  <1>1. PICK d \in DevBlocks \ DOMAIN dev :
          /\ DOMAIN dev' = DOMAIN dev \cup {d}
          /\ dev'[d] = [Number |-> n, list |-> NULL, next |-> pMidiInDevList]
          /\ \A x \in DOMAIN dev : dev'[x] = dev[x]
          /\ \A x : x \in ToSet(Devices') <=> x = d \/ x \in ToSet(Devices)
    BY <1>0, OpenedList
  <1>2. dev'[d].Number = n
    BY <1>1
  <1>3. \A x : ~Has(n, x)
    BY <1>0, OpenedList, DevicesType DEF Has
  <1>4. n \notin OpenDevices /\ Queues[n] = <<>>
    BY <1>0, <1>3, QueueRule DEF QueuesAre
  <1>5. n \in OpenDevices' /\ Queues'[n] = <<>>
    <2>1. Has(n, d)'
      BY <1>1, <1>2 DEF Has
    <2>2. Events(d)' = <<>>
      BY <1>0, <1>1, OpenedEvents
    <2>3. Contents(Events(d))' = <<>>
      BY <2>2 DEF Contents
    <2> QED BY <2>1, <2>3, QueueRuleNext DEF QueuesAre
  <1>6. ASSUME NEW m \in Numbers, m # n
        PROVE  Queues'[m] = Queues[m] /\ (m \in OpenDevices' <=> m \in OpenDevices)
    <2>1. CASE \E x : Has(m, x)
      <3>1. PICK x : Has(m, x)
        BY <2>1
      <3>2. x \in DOMAIN dev
        BY <1>0, <3>1, DevicesType DEF Has
      <3>3. Has(m, x)'
        BY <1>1, <3>1, <3>2 DEF Has
      <3>4. Events(x)' = Events(x) /\ ev' = ev
        BY <1>0, <3>2, OpenedEvents DEF plOpenMidiIn
      <3> QED BY <3>1, <3>3, <3>4, QueueKept
    <2>2. CASE \A x : ~Has(m, x)
      <3>1. \A x : ~Has(m, x)'
        BY <1>0, <1>1, <1>2, <1>6, <2>2, DevicesType DEF Has
      <3> QED BY <2>2, <3>1, QueueNone
    <2> QED BY <2>1, <2>2
  <1>7. OpenDevices \subseteq Numbers /\ OpenDevices' \subseteq Numbers
    BY DEF OpenDevices
  <1>8. Queues = [m \in Numbers |-> Queues[m]] /\ Queues' = [m \in Numbers |-> Queues'[m]]
    BY DEF Queues
  <1>9. got' = got
    BY DEF plOpenMidiIn
  <1> HIDE DEF Queues, OpenDevices
  <1>10. Queues' = Queues
    BY <1>4, <1>5, <1>6, <1>8
  <1>11. OpenDevices' = OpenDevices \cup {n}
    BY <1>5, <1>6, <1>7
  <1> QED BY <1>4, <1>9, <1>10, <1>11 DEF Q!Open

\* Where the queue of one device changes and no other one does
LEMMA OtherQueues ==
  ASSUME Unraced, LuaInv', EvListInv', NEW d \in ToSet(Devices), NEW n, dev[d].Number = n,
         \A x : x # d => (x \in ToSet(Devices') <=> x \in ToSet(Devices)),
         \A x \in ToSet(Devices) : dev'[x].Number = dev[x].Number,
         \A x \in ToSet(Devices) \ {d} :
           Events(x)' = Events(x) /\ \A e \in ToSet(Events(x)) : ev'[e].msg = ev[e].msg
  PROVE  /\ n \in Numbers /\ n \in OpenDevices
         /\ Queues' = [Queues EXCEPT ![n] = Queues'[n]]
         /\ OpenDevices' \cup {n} = OpenDevices
  <1>0. LuaInv /\ EvListInv /\ TypeOK
    BY DEF Unraced, LuaInv
  <1>1. d \in DOMAIN dev /\ n \in Numbers /\ Has(n, d)
    BY <1>0, DevicesType DEF TypeOK, DevBlock, Has
  <1>2. n \in OpenDevices
    BY <1>0, <1>1, QueueRule DEF QueuesAre
  <1>3. ASSUME NEW m \in Numbers, m # n
        PROVE  Queues'[m] = Queues[m] /\ (m \in OpenDevices' <=> m \in OpenDevices)
    <2>1. CASE \E x : Has(m, x)
      <3>1. PICK x : Has(m, x)
        BY <2>1
      <3>2. x # d
        BY <1>1, <1>3, <3>1 DEF Has
      <3>3. Has(m, x)'
        BY <3>1, <3>2 DEF Has
      <3>4. Events(x)' = Events(x) /\ \A e \in ToSet(Events(x)) : ev'[e].msg = ev[e].msg
        BY <3>1, <3>2 DEF Has
      <3> QED BY <3>1, <3>3, <3>4, QueueKept
    <2>2. CASE \A x : ~Has(m, x)
      <3>1. \A x : ~Has(m, x)'
        BY <1>1, <1>3, <2>2 DEF Has
      <3> QED BY <2>2, <3>1, QueueNone
    <2> QED BY <2>1, <2>2
  <1>4. OpenDevices \subseteq Numbers /\ OpenDevices' \subseteq Numbers
    BY DEF OpenDevices
  <1>5. Queues = [m \in Numbers |-> Queues[m]] /\ Queues' = [m \in Numbers |-> Queues'[m]]
    BY DEF Queues
  <1> HIDE DEF Queues, OpenDevices
  <1>6. Queues' = [Queues EXCEPT ![n] = Queues'[n]]
    <2> DEFINE f == [Queues EXCEPT ![n] = Queues'[n]]
    <2>1. DOMAIN Queues = Numbers
      BY <1>5
    <2>2. f = [m \in Numbers |-> f[m]] /\ \A m \in Numbers : f[m] = Queues'[m]
      BY <1>1, <1>3, <2>1
    <2> HIDE DEF f
    <2>3. Queues' = f
      BY <1>5, <2>2
    <2> QED BY <2>3 DEF f
  <1>7. OpenDevices' \cup {n} = OpenDevices
    BY <1>1, <1>2, <1>3, <1>4
  <1> QED BY <1>1, <1>2, <1>6, <1>7

\* LuaUnlink closes the device.
LEMMA CloseStep ==
  ASSUME Unraced, LuaInv', EvListInv', LuaUnlink
  PROVE  ln \in Numbers /\ Q!Close(ln)
  <1>0. LuaInv /\ EvListInv /\ TypeOK'
    BY DEF Unraced, LuaInv
  <1>1. PICK d, n : d = ldev /\ n = ln
    OBVIOUS
  <1>2. d \in ToSet(Devices) /\ dev[d].Number = n
    <2>1. lpc = "unlink"
      BY DEF LuaUnlink
    <2> QED BY <1>0, <1>1, <2>1 DEF LuaInv, CallInv, DevListInv
  <1>3. /\ \A x \in DOMAIN dev : dev'[x].Number = dev[x].Number
        /\ \A x : x \in ToSet(Devices') <=> x \in ToSet(Devices) /\ x # d
    BY <1>0, <1>1, UnlinkedList
  <1>4. \A x \in DOMAIN dev : Events(x)' = Events(x)
    BY <1>0, QuietEvents DEF QuietSteps
  <1>5. ev' = ev /\ got' = got
    BY DEF LuaUnlink
  <1>6. /\ n \in Numbers /\ n \in OpenDevices
        /\ Queues' = [Queues EXCEPT ![n] = Queues'[n]]
        /\ OpenDevices' \cup {n} = OpenDevices
    <2>1. \A x \in ToSet(Devices) : dev'[x].Number = dev[x].Number
      BY <1>0, <1>3, DevicesType
    <2>2. \A x \in ToSet(Devices) \ {d} :
           Events(x)' = Events(x) /\ \A e \in ToSet(Events(x)) : ev'[e].msg = ev[e].msg
      BY <1>0, <1>4, <1>5, DevicesType
    <2> QED BY <1>2, <1>3, <2>1, <2>2, OtherQueues
  <1>7. n \notin OpenDevices' /\ Queues'[n] = <<>>
    <2>1. \A x : ~Has(n, x)'
      <3>1. ASSUME NEW x, x \in ToSet(Devices'), dev'[x].Number = n PROVE FALSE
        <4>1. x \in DOMAIN dev /\ d \in DOMAIN dev /\ x # d
          BY <1>0, <1>2, <1>3, <3>1, DevicesType
        <4>2. dev[x].Number = n
          BY <1>3, <3>1, <4>1
        <4> QED BY <1>0, <1>2, <4>1, <4>2 DEF LuaInv, DevListInv
      <3> QED BY <3>1 DEF Has
    <2> QED BY <1>6, <2>1, QueueRuleNext DEF QueuesAre
  <1> HIDE DEF Queues, OpenDevices
  <1>8. OpenDevices' = OpenDevices \ {n} /\ Queues' = [Queues EXCEPT ![n] = <<>>]
    BY <1>6, <1>7
  <1> QED BY <1>1, <1>5, <1>6, <1>8 DEF Q!Close

LEMMA ContentsType ==
  ASSUME LuaInv, NEW s \in Seq(DOMAIN ev)
  PROVE  Contents(s) \in Seq(Msgs) /\ Len(Contents(s)) = Len(s)
  <1>1. \A k \in 1 .. Len(s) : ev[s[Len(s) - k + 1]].msg \in Msgs
    <2>1. EvTyped
      BY DEF LuaInv, TypeOK, EvTyped
    <2>2. \A k \in 1 .. Len(s) : s[Len(s) - k + 1] \in DOMAIN ev
      OBVIOUS
    <2> QED BY <2>1, <2>2 DEF EvTyped, EvBlock
  <1> QED BY <1>1 DEF Contents

LEMMA AppendIs ==
  ASSUME NEW S, NEW c \in Seq(S), NEW m \in S, NEW n, Len(c) = n
  PROVE  Append(c, m) = [k \in 1 .. n + 1 |-> IF k = n + 1 THEN m ELSE c[k]]
  <1> DEFINE a == Append(c, m)
  <1>1. a \in Seq(S) /\ Len(a) = n + 1 /\ \A k \in 1 .. n + 1 : a[k] = IF k = n + 1 THEN m ELSE c[k]
    OBVIOUS
  <1> HIDE DEF a
  <1>2. a = [k \in 1 .. n + 1 |-> a[k]]
    BY <1>1
  <1>3. a = [k \in 1 .. n + 1 |-> IF k = n + 1 THEN m ELSE c[k]]
    BY <1>1, <1>2
  <1> QED BY <1>3 DEF a

LEMMA TailIs ==
  ASSUME NEW S, NEW c \in Seq(S), NEW n \in Nat, Len(c) = n + 1
  PROVE  Tail(c) = [k \in 1 .. n |-> c[k + 1]]
  <1> DEFINE a == Tail(c)
  <1>1. a \in Seq(S) /\ Len(a) = n /\ \A k \in 1 .. n : a[k] = c[k + 1]
    OBVIOUS
  <1> HIDE DEF a
  <1>2. a = [k \in 1 .. n |-> a[k]]
    BY <1>1
  <1>3. a = [k \in 1 .. n |-> c[k + 1]]
    BY <1>1, <1>2
  <1> QED BY <1>3 DEF a

\* Without the last event of the list the queue lacks its oldest message.
LEMMA ContentsPopped ==
  ASSUME LuaInv, NEW s, s \in Seq(DOMAIN ev), s # <<>>,
         \A x \in DOMAIN ev : ev'[x].msg = ev[x].msg
  PROVE  /\ Contents(s) # <<>> /\ Head(Contents(s)) = ev[s[Len(s)]].msg
         /\ Contents(Prefix(s, Len(s) - 1))' = Tail(Contents(s))
  <1> DEFINE n == Len(s) - 1
  <1>1. n \in Nat /\ n \in 0 .. Len(s) /\ Len(s) = n + 1
    BY DEF n
  <1> HIDE DEF n
  <1>2. PICK q : q = Prefix(s, n)
    OBVIOUS
  <1>3. Len(q) = n /\ \A k \in 1 .. n : q[k] = s[k]
    BY <1>1, <1>2, PrefixFacts
  <1>4. Contents(s) \in Seq(Msgs) /\ Len(Contents(s)) = n + 1
    BY <1>1, ContentsType
  <1>5. \A k \in 1 .. n + 1 : Contents(s)[k] = ev[s[n + 1 - k + 1]].msg
    BY <1>1 DEF Contents
  <1>6. Contents(s) # <<>> /\ Head(Contents(s)) = ev[s[n + 1]].msg
    BY <1>1, <1>4, <1>5
  <1>7. Tail(Contents(s)) = [k \in 1 .. n |-> Contents(s)[k + 1]]
    <2>1. PICK c : c = Contents(s)
      OBVIOUS
    <2>2. Tail(c) = [k \in 1 .. n |-> c[k + 1]]
      BY <1>1, <1>4, <2>1, TailIs
    <2> QED BY <2>1, <2>2
  <1>8. ASSUME NEW k \in 1 .. n
        PROVE  ev'[q[n - k + 1]].msg = Contents(s)[k + 1]
    <2>1. n - k + 1 \in 1 .. n /\ n - k + 1 \in 1 .. Len(s) /\ k + 1 \in 1 .. n + 1
          /\ n + 1 - (k + 1) + 1 = n - k + 1
      BY <1>1
    <2>2. q[n - k + 1] = s[n - k + 1] /\ s[n - k + 1] \in DOMAIN ev
      BY <1>3, <2>1
    <2>3. Contents(s)[k + 1] = ev[s[n - k + 1]].msg
      BY <1>5, <2>1
    <2> QED BY <2>2, <2>3
  <1>9. Contents(q)' = [k \in 1 .. n |-> ev'[q[n - k + 1]].msg]
    BY <1>3 DEF Contents
  <1>10. Contents(q)' = Tail(Contents(s))
    BY <1>7, <1>8, <1>9
  <1>11. Contents(Prefix(s, Len(s) - 1))' = Contents(q)'
    BY <1>2 DEF n
  <1> QED BY <1>1, <1>6, <1>10, <1>11

\* With one more at its head the queue has one more message at its end.
LEMMA ContentsPushed ==
  ASSUME LuaInv, NEW s \in Seq(DOMAIN ev), NEW x \in DOMAIN ev
  PROVE  Contents(<<x>> \o s) = Append(Contents(s), ev[x].msg)
  <1> DEFINE q == <<x>> \o s
             n == Len(s)
  <1>1. /\ n \in Nat /\ Len(q) = n + 1 /\ q[1] = x
        /\ \A k \in 1 .. n : q[k + 1] = s[k]
    OBVIOUS
  <1>2. Contents(s) \in Seq(Msgs) /\ Len(Contents(s)) = n
    BY ContentsType
  <1>3. \A k \in 1 .. n : Contents(s)[k] = ev[s[n - k + 1]].msg
    BY DEF Contents
  <1> HIDE DEF q, n
  <1>4. Contents(q) = [k \in 1 .. n + 1 |-> ev[q[(n + 1) - k + 1]].msg]
    BY <1>1 DEF Contents
  <1>5. ASSUME NEW k \in 1 .. n PROVE ev[q[(n + 1) - k + 1]].msg = Contents(s)[k]
    <2>1. n - k + 1 \in 1 .. n /\ (n + 1) - k + 1 = (n - k + 1) + 1
      BY <1>1
    <2>2. q[(n + 1) - k + 1] = s[n - k + 1]
      BY <1>1, <2>1
    <2> QED BY <1>3, <2>2
  <1>6. ev[q[(n + 1) - (n + 1) + 1]].msg = ev[x].msg
    <2>1. (n + 1) - (n + 1) + 1 = 1
      BY <1>1
    <2> QED BY <1>1, <2>1
  <1>7. Append(Contents(s), ev[x].msg) =
          [k \in 1 .. n + 1 |-> IF k = n + 1 THEN ev[x].msg ELSE Contents(s)[k]]
    <2>1. PICK c, m : c = Contents(s) /\ m = ev[x].msg
      OBVIOUS
    <2>2. c \in Seq(Msgs) /\ Len(c) = n /\ m \in Msgs
      BY <1>2, <2>1 DEF LuaInv, TypeOK, EvBlock
    <2>3. Append(c, m) = [k \in 1 .. n + 1 |-> IF k = n + 1 THEN m ELSE c[k]]
      BY <2>2, AppendIs
    <2> QED BY <2>1, <2>3
  <1>8. \A k \in 1 .. n + 1 :
          ev[q[(n + 1) - k + 1]].msg = IF k = n + 1 THEN ev[x].msg ELSE Contents(s)[k]
    BY <1>1, <1>5, <1>6
  <1>9. Contents(q) = Append(Contents(s), ev[x].msg)
    BY <1>4, <1>7, <1>8
  <1> QED BY <1>9 DEF q

\* LuaUnchain takes the oldest message out.
LEMMA GetStep ==
  ASSUME Unraced, LuaInv', EvListInv', LuaUnchain, ~Crossed
  PROVE  ln \in Numbers /\ Q!Get(ln)
  <1>0. LuaInv /\ EvListInv /\ TypeOK'
    BY DEF Unraced, LuaInv
  <1>1. PICK d, n, s : d = ldev /\ n = ln /\ s = Events(d)
    OBVIOUS
  <1>2. d \in DOMAIN dev /\ d \in ToSet(Devices) /\ dev[d].Number = n /\ ldev' = d
    <2>1. lpc = "unchain" /\ ldev' = ldev
      BY DEF LuaUnchain
    <2> QED BY <1>0, <1>1, <2>1, WalkFacts DEF LuaInv, CallInv
  <1>3. s \in Seq(DOMAIN ev)
    BY <1>0, <1>1, <1>2, EventsType
  <1>4. /\ \A x \in DOMAIN ev : ev'[x].msg = ev[x].msg
        /\ s # <<>> /\ p = s[Len(s)]
        /\ \A x \in DOMAIN dev \ {d} : Events(x)' = Events(x)
    BY <1>0, <1>1, UnchainedEvents
  <1>5. Events(d)' = Prefix(s, Len(s) - 1)
    <2>1. Events(ldev)' = Prefix(s, Len(s) - 1)
      BY <1>0, <1>1, UnchainedEvents
    <2> QED BY <1>2, <2>1 DEF Events
  <1>6. Devices' = Devices /\ \A x \in DOMAIN dev : dev'[x].Number = dev[x].Number
    BY <1>0, OtherList DEF OtherSteps
  <1>7. /\ n \in Numbers /\ n \in OpenDevices
        /\ Queues' = [Queues EXCEPT ![n] = Queues'[n]]
    <2>1. \A x \in ToSet(Devices) \ {d} :
           Events(x)' = Events(x) /\ \A e \in ToSet(Events(x)) : ev'[e].msg = ev[e].msg
      BY <1>0, <1>4, DevicesType, EventsType
    <2>2. \A x \in ToSet(Devices) : dev'[x].Number = dev[x].Number
      BY <1>0, <1>6, DevicesType
    <2> QED BY <1>2, <1>6, <2>1, <2>2, OtherQueues
  <1>8. Has(n, d) /\ Has(n, d)'
    BY <1>2, <1>6 DEF Has
  <1>9. Queues[n] = Contents(s)
    BY <1>0, <1>1, <1>7, <1>8, QueueRule DEF QueuesAre
  <1>10. Queues'[n] = Contents(Prefix(s, Len(s) - 1))'
    <2>1. Queues'[n] = Contents(Events(d))'
      BY <1>7, <1>8, QueueRuleNext DEF QueuesAre
    <2> QED BY <1>5, <2>1 DEF Contents
  <1>11. /\ Contents(s) # <<>> /\ Head(Contents(s)) = ev[s[Len(s)]].msg
         /\ Contents(Prefix(s, Len(s) - 1))' = Tail(Contents(s))
    BY <1>0, <1>3, <1>4, ContentsPopped
  <1>12. got' = ev[p].msg
    BY DEF LuaUnchain
  <1>13. OpenDevices' = OpenDevices
    <2>1. ASSUME NEW m \in Numbers PROVE (\E x : Has(m, x)) <=> (\E x : Has(m, x)')
      BY <1>0, <1>6, DevicesType DEF Has
    <2>2. OpenDevices \subseteq Numbers /\ OpenDevices' \subseteq Numbers
      BY DEF OpenDevices
    <2>3. \A m \in Numbers : m \in OpenDevices <=> \E x : Has(m, x)
      BY <1>0, QueueRule DEF QueuesAre
    <2>4. \A m \in Numbers : m \in OpenDevices' <=> \E x : Has(m, x)'
      BY QueueRuleNext DEF QueuesAre
    <2> QED BY <2>1, <2>2, <2>3, <2>4
  <1> HIDE DEF Queues, OpenDevices
  <1>14. Queues' = [Queues EXCEPT ![n] = Tail(@)]
    BY <1>7, <1>9, <1>10, <1>11
  <1> QED BY <1>1, <1>4, <1>7, <1>9, <1>11, <1>12, <1>13, <1>14 DEF Q!Get

\* CbStore adds one message at the end.
LEMMA ArriveStep ==
  ASSUME Unraced, LuaInv', EvListInv', CbStore
  PROVE  cn \in Numbers /\ \E m \in Msgs : Q!Arrive(cn, m)
  <1>0. LuaInv /\ EvListInv /\ TypeOK' /\ TypeOK
    BY DEF Unraced, LuaInv
  <1>1. PICK d, n, e, s : d = cdev /\ n = cn /\ e = cev /\ s = Events(d)
    OBVIOUS
  <1>2. d \in DOMAIN dev /\ d \in ToSet(Devices) /\ dev[d].Number = n /\ e \in DOMAIN ev
    <2>1. cpc = "store"
      BY DEF CbStore, Publish
    <2> QED BY <1>1, <2>1, NoneAstray DEF Unraced, ChainInv
  <1>3. s \in Seq(DOMAIN ev)
    BY <1>0, <1>1, <1>2, EventsType
  <1>4. /\ ev' = ev /\ \A x \in DOMAIN dev \ {d} : Events(x)' = Events(x)
        /\ Events(d)' = <<e>> \o s
    BY <1>0, <1>1, StoredEvents
  <1>5. Devices' = Devices /\ \A x \in DOMAIN dev : dev'[x].Number = dev[x].Number
    BY <1>0, OtherList DEF OtherSteps
  <1>6. /\ n \in Numbers /\ n \in OpenDevices
        /\ Queues' = [Queues EXCEPT ![n] = Queues'[n]]
    <2>1. \A x \in ToSet(Devices) \ {d} :
           Events(x)' = Events(x) /\ \A y \in ToSet(Events(x)) : ev'[y].msg = ev[y].msg
      BY <1>0, <1>4, DevicesType
    <2>2. \A x \in ToSet(Devices) : dev'[x].Number = dev[x].Number
      BY <1>0, <1>5, DevicesType
    <2> QED BY <1>2, <1>5, <2>1, <2>2, OtherQueues
  <1>7. Has(n, d) /\ Has(n, d)'
    BY <1>2, <1>5 DEF Has
  <1>8. Queues[n] = Contents(s)
    BY <1>0, <1>1, <1>6, <1>7, QueueRule DEF QueuesAre
  <1>9. Queues'[n] = Contents(<<e>> \o s)
    <2>1. Queues'[n] = Contents(Events(d))'
      BY <1>6, <1>7, QueueRuleNext DEF QueuesAre
    <2> QED BY <1>4, <2>1 DEF Contents
  <1>10. Contents(<<e>> \o s) = Append(Contents(s), ev[e].msg)
    BY <1>0, <1>2, <1>3, ContentsPushed
  <1>11. ev[e].msg \in Msgs
    BY <1>0, <1>2 DEF TypeOK, EvBlock
  <1>12. OpenDevices' = OpenDevices
    <2>1. ASSUME NEW m \in Numbers PROVE (\E x : Has(m, x)) <=> (\E x : Has(m, x)')
      BY <1>0, <1>5, DevicesType DEF Has
    <2>2. OpenDevices \subseteq Numbers /\ OpenDevices' \subseteq Numbers
      BY DEF OpenDevices
    <2>3. \A m \in Numbers : m \in OpenDevices <=> \E x : Has(m, x)
      BY <1>0, QueueRule DEF QueuesAre
    <2>4. \A m \in Numbers : m \in OpenDevices' <=> \E x : Has(m, x)'
      BY QueueRuleNext DEF QueuesAre
    <2> QED BY <2>1, <2>2, <2>3, <2>4
  <1>13. got' = got
    BY DEF CbStore, Publish
  <1> HIDE DEF Queues, OpenDevices
  <1>14. Queues' = [Queues EXCEPT ![n] = Append(@, ev[e].msg)]
    BY <1>6, <1>8, <1>9, <1>10
  <1> QED BY <1>1, <1>6, <1>11, <1>12, <1>13, <1>14 DEF Q!Arrive

\* plGetEvent gives nil only where the queue is empty; otherwise it has only begun.
LEMMA NothingStep ==
  ASSUME Unraced, LuaInv', EvListInv', NEW n \in Numbers, plGetEvent(n)
  PROVE  Q!GetNothing(n) \/ UNCHANGED <<OpenDevices, Queues, got>>
  <1>0. LuaInv /\ EvListInv /\ TypeOK' /\ HeapInv
    BY Heaps DEF Unraced, LuaInv
  <1>1. UNCHANGED <<pMidiInDevList, dev, ev>>
    BY DEF plGetEvent
  <1>2. OpenDevices' = OpenDevices /\ Queues' = Queues
    <2>1. Devices' = Devices /\ \A d : Events(d)' = Events(d)
      BY <1>1 DEF Devices, Events
    <2> QED BY <1>1, <2>1, SameQueues
  <1>3. PICK entry : entry = GetMidiInEntry(n)
    OBVIOUS
  <1>4. CASE entry = NULL \/ dev[entry].list = NULL
    <2>1. got' = NoEvent
      BY <1>3, <1>4 DEF plGetEvent
    <2>2. Queues[n] = <<>>
      <3>1. CASE entry = NULL
        <4>1. \A d : ~Has(n, d)
          BY <1>0, <1>3, <3>1, EntryRule
        <4> QED BY <1>0, <4>1, QueueRule DEF QueuesAre
      <3>2. CASE entry # NULL /\ dev[entry].list = NULL
        <4>1. Has(n, entry) /\ entry \in DOMAIN dev
          BY <1>0, <1>3, <3>2, EntryType DEF Has
        <4>2. Path(ev, NULL, Events(entry))
          BY <1>0, <3>2, <4>1, EventsType
        <4>3. Events(entry) = <<>>
          BY <1>0, <4>2, PathNull DEF HeapInv
        <4>4. Contents(Events(entry)) = <<>>
          BY <4>3 DEF Contents
        <4> QED BY <1>0, <4>1, <4>4, QueueRule DEF QueuesAre
      <3> QED BY <1>4, <3>1, <3>2
    <2> QED BY <1>2, <2>1, <2>2 DEF Q!GetNothing
  <1>5. CASE entry # NULL /\ dev[entry].list # NULL
    <2>1. got' = got
      BY <1>3, <1>5 DEF plGetEvent
    <2> QED BY <1>2, <2>1
  <1> QED BY <1>4, <1>5

\* The steps a script does not see
HiddenSteps ==
  \/ \E n \in Numbers : plCloseMidiIn(n)
  \/ \E n \in Numbers, m \in Msgs : MidiReceive(n, m)
  \/ LuaWalk \/ LuaFree \/ LuaClosed \/ LuaFreeDev \/ CbFind \/ CbLoad \/ UNCHANGED vars

LEMMA HiddenStep ==
  ASSUME Unraced, LuaInv', EvListInv', HiddenSteps
  PROVE  UNCHANGED <<OpenDevices, Queues, got>>
  <1>0. LuaInv /\ EvListInv /\ TypeOK'
    BY DEF Unraced, LuaInv
  <1>1. got' = got
    BY DEF HiddenSteps, plCloseMidiIn, MidiReceive, LuaWalk, LuaFree, LuaClosed, LuaFreeDev,
           CbFind, CbLoad
  <1>2. CASE LuaFreeDev
    <2>1. PICK c : c = ldev
      OBVIOUS
    <2>2. Devices' = Devices /\ DOMAIN dev' = ToSet(Devices)
      BY <1>0, <1>2, FreedList
    <2>3. /\ \A e \in DOMAIN ev \ ToSet(Events(c)) : ev'[e] = ev[e]
          /\ DOMAIN dev = DOMAIN dev' \cup {c}
          /\ \A x \in DOMAIN dev' : /\ Events(x)' = Events(x) /\ dev'[x] = dev[x]
                                    /\ ToSet(Events(x)) \cap ToSet(Events(c)) = {}
      BY <1>0, <1>2, <2>1, FreedEvents
    <2>4. \A x \in ToSet(Devices) : /\ dev'[x].Number = dev[x].Number /\ Events(x)' = Events(x)
                                    /\ \A e \in ToSet(Events(x)) : ev'[e].msg = ev[e].msg
      <3>1. ASSUME NEW x \in ToSet(Devices)
            PROVE  /\ dev'[x].Number = dev[x].Number /\ Events(x)' = Events(x)
                   /\ \A e \in ToSet(Events(x)) : ev'[e].msg = ev[e].msg
        <4>1. x \in DOMAIN dev' /\ x \in DOMAIN dev
          BY <2>2, <2>3
        <4>2. ToSet(Events(x)) \subseteq DOMAIN ev
          BY <1>0, <4>1, EventsType
        <4> QED BY <2>3, <4>1, <4>2
      <3> QED BY <3>1
    <2> QED BY <1>1, <2>2, <2>4, SameQueues
  <1>3. CASE ~LuaFreeDev
    <2>1. QuietSteps /\ OtherSteps
      BY <1>3 DEF HiddenSteps, QuietSteps, OtherSteps
    <2>2. Devices' = Devices /\ \A x \in DOMAIN dev : dev'[x].Number = dev[x].Number
      BY <1>0, <2>1, OtherList
    <2>3. \A x \in DOMAIN dev : Events(x)' = Events(x)
      BY <1>0, <2>1, QuietEvents
    <2>4. \A e \in Listed : ev'[e].msg = ev[e].msg
      BY <1>0, <2>1, QuietBlocks
    <2>5. \A x \in ToSet(Devices) : /\ dev'[x].Number = dev[x].Number /\ Events(x)' = Events(x)
                                    /\ \A e \in ToSet(Events(x)) : ev'[e].msg = ev[e].msg
      BY <1>0, <2>2, <2>3, <2>4, DevicesType, EventsType
    <2> QED BY <1>1, <2>2, <2>5, SameQueues
  <1> QED BY <1>2, <1>3

LEMMA StepImplements ==
  LuaInv /\ LuaInv' /\ RaceInv /\ RaceInv' /\ [Next]_vars =>
    [raced' \/ wild' \/ Q!Next]_<<OpenDevices, Queues, got>>
  <1> SUFFICES ASSUME LuaInv, LuaInv', RaceInv, RaceInv', [Next]_vars, ~raced', ~wild'
               PROVE  Q!Next \/ UNCHANGED <<OpenDevices, Queues, got>>
    OBVIOUS
  <1>1. ~raced
    BY DEF Next, LuaStep, CbStep, plOpenMidiIn, plCloseMidiIn, plGetEvent, MidiReceive, LuaWalk,
           LuaUnchain, LuaFree, LuaClosed, LuaUnlink, LuaFreeDev, CbFind, CbLoad, CbStore, Publish, Strays
  <1>2. Unraced /\ EvListInv'
    BY <1>1 DEF RaceInv, Unraced
  <1>3. ASSUME NEW n \in Numbers, plOpenMidiIn(n) PROVE Q!Next
    BY <1>2, <1>3, OpenStep DEF Q!Next
  <1>4. CASE LuaUnlink
    BY <1>2, <1>4, CloseStep DEF Q!Next
  <1>5. CASE LuaUnchain
    <2>1. ~Crossed
      BY <1>5 DEF LuaUnchain
    <2> QED BY <1>2, <1>5, <2>1, GetStep DEF Q!Next
  <1>6. CASE CbStore
    BY <1>2, <1>6, ArriveStep DEF Q!Next
  <1>7. ASSUME NEW n \in Numbers, plGetEvent(n)
        PROVE  Q!Next \/ UNCHANGED <<OpenDevices, Queues, got>>
    BY <1>2, <1>7, NothingStep DEF Q!Next
  <1>8. CASE HiddenSteps
    BY <1>2, <1>8, HiddenStep
  <1>9. ~Strays
    BY <1>2, NoneAstray DEF Strays
  <1> QED BY <1>3, <1>4, <1>5, <1>6, <1>7, <1>8, <1>9 DEF Next, LuaStep, CbStep, HiddenSteps

LEMMA InitImplements == Init => Q!Init
  <1> SUFFICES ASSUME Init PROVE Q!Init
    OBVIOUS
  <1>1. LuaInv /\ EvListInv
    BY InitLua, InitRace DEF Init, RaceInv
  <1>2. \A n, d : ~Has(n, d)
    <2>1. DOMAIN dev = {}
      BY DEF Init
    <2> QED BY <1>1, <2>1, DevicesType DEF Has
  <1>3. \A n \in Numbers : n \notin OpenDevices /\ Queues[n] = <<>>
    BY <1>1, <1>2, QueueRule DEF QueuesAre
  <1>4. OpenDevices \subseteq Numbers /\ Queues = [n \in Numbers |-> Queues[n]]
    BY DEF OpenDevices, Queues
  <1>5. got = NoEvent
    BY DEF Init
  <1> HIDE DEF OpenDevices, Queues
  <1>6. OpenDevices = {} /\ Queues = [n \in Numbers |-> <<>>]
    BY <1>3, <1>4
  <1> QED BY <1>5, <1>6 DEF Q!Init

\* profimidi.c:709, RemoveMidiInEvent: however the two threads interleave, until a
\* crossing the lists in memory are a queue per open device: MidiReceive adds at one
\* end, GetMessage takes the oldest out at the other, and no other step shows.
THEOREM QueuesImplemented == Spec => ImplementsQueue
  <1>1. LuaInv /\ LuaInv' /\ RaceInv /\ RaceInv' /\ [Next]_vars =>
          [raced' \/ wild' \/ Q!Next]_<<OpenDevices, Queues, got>>
    BY StepImplements
  <1>2. Spec => Q!Init /\ [][raced' \/ wild' \/ Q!Next]_<<OpenDevices, Queues, got>>
    BY <1>1, RaceAlways, InitImplements, PTL DEF Spec
  <1> QED BY <1>2 DEF ImplementsQueue
=============================================================================
