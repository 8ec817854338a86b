---------------------------- MODULE SerialProofs ----------------------------
(***************************************************************************)
(* Proofs about proserial.Send, for every argument a script may pass and   *)
(* every pattern of refusals of the serial library.                        *)
(***************************************************************************)
EXTENDS Serial, SequenceTheorems, NaturalLemmas, TLAPS

-----------------------------------------------------------------------------
\* FlattenSeq, piece by piece: what has been put together after k pieces.
SumsOf(s, f) == f[0] = <<>> /\ \A k \in 1 .. Len(s) : f[k] = f[k - 1] \o s[k]

Sums(s) == CHOOSE f \in [0 .. Len(s) -> Seq(Int)] : SumsOf(s, f)

\* The sums of a sequence of sequences are well defined.
LEMMA SumsExist ==
  ASSUME NEW s \in Seq(Seq(Int))
  PROVE  Sums(s) \in [0 .. Len(s) -> Seq(Int)] /\ SumsOf(s, Sums(s))
  <1> DEFINE Upto(n, f) == f[0] = <<>> /\ \A k \in 1 .. n : f[k] = f[k - 1] \o s[k]
             Has(n) == \E f \in [0 .. n -> Seq(Int)] : Upto(n, f)
             T == {n \in Nat : n <= Len(s) => Has(n)}
  <1>1. Len(s) \in Nat /\ \A k \in 1 .. Len(s) : s[k] \in Seq(Int)
    OBVIOUS
  <1>2. Has(0)
    <2> DEFINE f == [k \in 0 .. 0 |-> <<>>]
    <2>1. f \in [0 .. 0 -> Seq(Int)] /\ Upto(0, f)
      OBVIOUS
    <2> QED BY <2>1
  <1>3. ASSUME NEW n \in Nat, n + 1 <= Len(s), Has(n) PROVE Has(n + 1)
    <2>1. s[n + 1] \in Seq(Int)
      BY <1>1, <1>3
    <2>2. PICK f \in [0 .. n -> Seq(Int)] : Upto(n, f)
      BY <1>3
    <2> DEFINE last == f[n] \o s[n + 1]
               g == [k \in 0 .. n + 1 |-> IF k <= n THEN f[k] ELSE last]
    <2>3. f[n] \in Seq(Int) /\ last \in Seq(Int)
      <3>1. f[n] \in Seq(Int)
        OBVIOUS
      <3> QED BY <2>1, <3>1
    <2> HIDE DEF last
    <2>4. g \in [0 .. n + 1 -> Seq(Int)]
      BY <2>3
    <2>5. (\A k \in 0 .. n : g[k] = f[k]) /\ g[n + 1] = last
      OBVIOUS
    <2> HIDE DEF g
    <2>6. g[0] = <<>>
      BY <2>2, <2>5
    <2>7. ASSUME NEW k \in 1 .. n + 1 PROVE g[k] = g[k - 1] \o s[k]
      <3>1. CASE k \in 1 .. n
        <4>1. k - 1 \in 0 .. n /\ k \in 0 .. n
          BY <3>1
        <4>2. f[k] = f[k - 1] \o s[k]
          BY <2>2, <3>1
        <4> QED BY <2>5, <4>1, <4>2
      <3>2. CASE k = n + 1
        <4>1. k - 1 = n /\ n \in 0 .. n
          BY <3>2
        <4>2. g[k] = last /\ g[k - 1] = f[n]
          BY <2>5, <3>2, <4>1
        <4> QED BY <3>2, <4>2 DEF last
      <3>3. k \in 1 .. n \/ k = n + 1
        OBVIOUS
      <3> QED BY <3>1, <3>2, <3>3
    <2> QED BY <2>4, <2>6, <2>7
  <1> HIDE DEF Has
  <1>4. T = Nat
    <2>1. T \in SUBSET Nat /\ 0 \in T
      BY <1>2
    <2>2. ASSUME NEW n \in T PROVE n + 1 \in T
      BY <1>1, <1>3
    <2> HIDE DEF T
    <2> QED BY <2>1, <2>2, SetInduction
  <1>5. Has(Len(s))
    BY <1>1, <1>4
  <1>6. \E f \in [0 .. Len(s) -> Seq(Int)] : SumsOf(s, f)
    BY <1>5 DEF SumsOf, Has
  <1> QED BY <1>6 DEF Sums

\* FlattenSeq is the last of the sums.
LEMMA FlattenIsSum ==
  ASSUME NEW s \in Seq(Seq(Int))
  PROVE  FlattenSeq(s) = Sums(s)[Len(s)]
  <1> DEFINE Step(f) == [k \in 1 .. Len(s) |-> IF k = 1 THEN s[k] ELSE f[k - 1] \o s[k]]
             fl == CHOOSE f : f = Step(f)
             g == [k \in 1 .. Len(s) |-> Sums(s)[k]]
  <1>0. /\ Len(s) \in Nat /\ \A k \in 1 .. Len(s) : s[k] \in Seq(Int)
        /\ Sums(s) \in [0 .. Len(s) -> Seq(Int)] /\ SumsOf(s, Sums(s))
    BY SumsExist
  <1>1. CASE s = <<>>
    <2>1. FlattenSeq(s) = <<>>
      BY <1>1 DEF FlattenSeq
    <2> QED BY <1>0, <1>1, <2>1 DEF SumsOf
  <1>2. CASE s # <<>>
    <2>1. Len(s) # 0
      BY <1>2
    <2>2. FlattenSeq(s) = fl[Len(s)]
      BY <2>1 DEF FlattenSeq
    <2>3. g = Step(g)
      <3>1. ASSUME NEW k \in 1 .. Len(s)
            PROVE  g[k] = IF k = 1 THEN s[k] ELSE g[k - 1] \o s[k]
        <4>1. Sums(s)[k] = Sums(s)[k - 1] \o s[k] /\ s[k] \in Seq(Int)
          BY <1>0 DEF SumsOf
        <4>2. k = 1 => Sums(s)[k] = s[k]
          BY <1>0, <4>1, ConcatEmptySeq DEF SumsOf
        <4>3. k # 1 => k - 1 \in 1 .. Len(s)
          BY <1>0
        <4> QED BY <4>1, <4>2, <4>3
      <3> QED BY <3>1
    <2>4. fl = Step(fl)
      BY <2>3
    <2> HIDE DEF fl
    <2> DEFINE T == {n \in Nat : n + 1 <= Len(s) => fl[n + 1] = Sums(s)[n + 1]}
    <2>5. 0 \in T
      <3>1. 1 \in 1 .. Len(s)
        BY <1>0, <2>1
      <3>2. fl[1] = s[1]
        BY <2>4, <3>1
      <3>3. Sums(s)[1] = <<>> \o s[1]
        <4>1. Sums(s)[1] = Sums(s)[1 - 1] \o s[1] /\ Sums(s)[0] = <<>>
          BY <1>0, <3>1 DEF SumsOf
        <4>2. 1 - 1 = 0
          OBVIOUS
        <4> QED BY <4>1, <4>2
      <3>4. <<>> \o s[1] = s[1]
        BY <1>0, <3>1, ConcatEmptySeq
      <3> QED BY <3>2, <3>3, <3>4
    <2>6. ASSUME NEW n \in T PROVE n + 1 \in T
      <3> SUFFICES ASSUME n + 2 <= Len(s) PROVE fl[n + 2] = Sums(s)[n + 2]
        <4>1. n \in Nat /\ (n + 1) + 1 = n + 2
          OBVIOUS
        <4> QED BY <4>1
      <3>1. n \in Nat /\ n + 2 \in 1 .. Len(s) /\ (n + 2) - 1 = n + 1 /\ n + 2 # 1
        BY <1>0
      <3>2. fl[n + 1] = Sums(s)[n + 1]
        BY <1>0, <3>1
      <3>3. fl[n + 2] = fl[n + 1] \o s[n + 2]
        BY <2>4, <3>1
      <3>4. Sums(s)[n + 2] = Sums(s)[n + 1] \o s[n + 2]
        BY <1>0, <3>1 DEF SumsOf
      <3> QED BY <3>2, <3>3, <3>4
    <2> HIDE DEF T
    <2>7. T = Nat
      <3>1. T \in SUBSET Nat
        BY DEF T
      <3> QED BY <2>5, <2>6, <3>1, SetInduction
    <2>8. fl[Len(s)] = Sums(s)[Len(s)]
      <3>1. Len(s) - 1 \in T /\ (Len(s) - 1) + 1 = Len(s)
        BY <1>0, <2>1, <2>7
      <3> QED BY <3>1 DEF T
    <2> QED BY <2>2, <2>8
  <1> QED BY <1>1, <1>2

-----------------------------------------------------------------------------
\* IsPrefix, place by place.
LEMMA PrefixPlaces ==
  ASSUME NEW a \in Seq(Int), NEW b \in Seq(Int)
  PROVE  IsPrefix(a, b) <=> Len(a) <= Len(b) /\ \A k \in 1 .. Len(a) : a[k] = b[k]
  <1>1. CASE Len(a) <= Len(b)
    <2>1. SubSeq(a, 1, Len(a)) = a
      BY SubSeqFull
    <2>2. /\ SubSeq(b, 1, Len(a)) \in Seq(Int) /\ Len(SubSeq(b, 1, Len(a))) = Len(a)
          /\ \A k \in 1 .. Len(a) : SubSeq(b, 1, Len(a))[k] = b[k]
      <3>1. Len(a) \in Nat /\ Len(b) \in Nat /\ \A k \in 1 .. Len(a) : b[k] \in Int
        BY <1>1
      <3> QED BY <3>1
    <2>3. a = SubSeq(b, 1, Len(a)) <=> \A k \in 1 .. Len(a) : a[k] = b[k]
      BY <2>2, SeqEqual
    <2> QED BY <1>1, <2>1, <2>3 DEF IsPrefix
  <1> QED BY <1>1 DEF IsPrefix

\* A prefix may be shortened at its end, and lengthened together with the whole.
LEMMA PrefixConcat ==
  ASSUME NEW a \in Seq(Int), NEW b \in Seq(Int), NEW c \in Seq(Int)
  PROVE  /\ IsPrefix(a, a \o b)
         /\ IsPrefix(b, c) => IsPrefix(a \o b, a \o c)
         /\ IsPrefix(a, b) /\ IsPrefix(b, c) => IsPrefix(a, c)
         /\ IsPrefix(a, a)
  <1>1. /\ a \o b \in Seq(Int) /\ a \o c \in Seq(Int)
        /\ Len(a \o b) = Len(a) + Len(b) /\ Len(a \o c) = Len(a) + Len(c)
        /\ \A k \in 1 .. Len(a) + Len(b) :
             (a \o b)[k] = IF k <= Len(a) THEN a[k] ELSE b[k - Len(a)]
        /\ \A k \in 1 .. Len(a) + Len(c) :
             (a \o c)[k] = IF k <= Len(a) THEN a[k] ELSE c[k - Len(a)]
        /\ Len(a) \in Nat /\ Len(b) \in Nat /\ Len(c) \in Nat
    BY ConcatProperties
  <1>2. IsPrefix(a, a \o b)
    <2>1. Len(a) <= Len(a \o b) /\ \A k \in 1 .. Len(a) : a[k] = (a \o b)[k]
      BY <1>1
    <2> QED BY <1>1, <2>1, PrefixPlaces
  <1>3. ASSUME IsPrefix(b, c) PROVE IsPrefix(a \o b, a \o c)
    <2>1. Len(b) <= Len(c) /\ \A k \in 1 .. Len(b) : b[k] = c[k]
      BY <1>3, PrefixPlaces
    <2>2. ASSUME NEW k \in 1 .. Len(a \o b) PROVE (a \o b)[k] = (a \o c)[k]
      <3>1. k \in 1 .. Len(a) + Len(b) /\ k \in 1 .. Len(a) + Len(c)
        BY <1>1, <2>1
      <3>2. ~(k <= Len(a)) => k - Len(a) \in 1 .. Len(b)
        BY <1>1, <3>1
      <3> QED BY <1>1, <2>1, <3>1, <3>2
    <2>3. Len(a \o b) <= Len(a \o c)
      BY <1>1, <2>1
    <2> QED BY <1>1, <2>2, <2>3, PrefixPlaces
  <1>4. ASSUME IsPrefix(a, b), IsPrefix(b, c) PROVE IsPrefix(a, c)
    <2>1. Len(a) <= Len(b) /\ \A k \in 1 .. Len(a) : a[k] = b[k]
      BY <1>4, PrefixPlaces
    <2>2. Len(b) <= Len(c) /\ \A k \in 1 .. Len(b) : b[k] = c[k]
      BY <1>4, PrefixPlaces
    <2>3. Len(a) <= Len(c) /\ \A k \in 1 .. Len(a) : a[k] = c[k]
      BY <1>1, <2>1, <2>2
    <2> QED BY <2>3, PrefixPlaces
  <1>5. IsPrefix(a, a)
    BY <1>1, PrefixPlaces
  <1> QED BY <1>2, <1>3, <1>4, <1>5

\* Appending to the end of a whole is appending to its last part.
LEMMA AppendLast ==
  ASSUME NEW a \in Seq(Int), NEW b \in Seq(Int), NEW e \in Int
  PROVE  Append(a \o b, e) = a \o Append(b, e)
  <1> DEFINE left  == Append(a \o b, e)
             right == a \o Append(b, e)
  <1>1. /\ left \in Seq(Int) /\ right \in Seq(Int)
        /\ Len(left) = Len(right) /\ Len(left) = Len(a) + Len(b) + 1
    OBVIOUS
  <1>2. \A n \in 1 .. Len(a) + Len(b) + 1 : left[n] = right[n]
    OBVIOUS
  <1> HIDE DEF left, right
  <1>3. left = right
    BY <1>1, <1>2, SeqEqual
  <1> QED BY <1>3 DEF left, right

\* One character more of a word.
LEMMA OneMore ==
  ASSUME NEW a \in Seq(Int), NEW w \in Seq(Int), NEW k \in Nat, k < Len(w)
  PROVE  Append(a \o SubSeq(w, 1, k), w[k + 1]) = a \o SubSeq(w, 1, k + 1)
  <1> DEFINE q == SubSeq(w, 1, k)
             e == w[k + 1]
  <1>1. q \in Seq(Int) /\ e \in Int /\ SubSeq(w, 1, k + 1) = Append(q, e)
    OBVIOUS
  <1> HIDE DEF q, e
  <1>2. Append(a \o q, e) = a \o Append(q, e)
    BY <1>1, AppendLast
  <1> QED BY <1>1, <1>2 DEF q, e

\* What is gone of a word is a prefix of it, at its end the word itself.
LEMMA PartGone ==
  ASSUME NEW w \in Seq(Int), NEW k \in Nat, k <= Len(w)
  PROVE  /\ SubSeq(w, 1, k) \in Seq(Int) /\ IsPrefix(SubSeq(w, 1, k), w)
         /\ k = Len(w) => SubSeq(w, 1, k) = w
         /\ k = 0 => SubSeq(w, 1, k) = <<>>
  <1> DEFINE q == SubSeq(w, 1, k)
  <1>1. /\ q \in Seq(Int) /\ Len(q) = k
        /\ \A n \in 1 .. k : q[n] = w[n]
    OBVIOUS
  <1>2. k = Len(w) => q = w
    BY SubSeqFull
  <1>3. k = 0 => q = <<>>
    OBVIOUS
  <1> HIDE DEF q
  <1>4. IsPrefix(q, w)
    BY <1>1, PrefixPlaces
  <1> QED BY <1>1, <1>2, <1>3, <1>4 DEF q

\* What has been put together is a prefix of the whole.
LEMMA SumsGrow ==
  ASSUME NEW s \in Seq(Seq(Int)), NEW m \in 0 .. Len(s)
  PROVE  IsPrefix(Sums(s)[m], FlattenSeq(s))
  <1> DEFINE Grown(n) == IsPrefix(Sums(s)[m], Sums(s)[m + n])
             T == {n \in Nat : m + n <= Len(s) => Grown(n)}
  <1>1. /\ Len(s) \in Nat /\ m \in Nat /\ \A k \in 1 .. Len(s) : s[k] \in Seq(Int)
        /\ Sums(s) \in [0 .. Len(s) -> Seq(Int)] /\ SumsOf(s, Sums(s))
    BY SumsExist
  <1>2. Grown(0)
    <2>1. Sums(s)[m] \in Seq(Int)
      BY <1>1
    <2>2. m + 0 = m
      BY <1>1
    <2> QED BY <2>1, <2>2, PrefixConcat
  <1>3. ASSUME NEW n \in Nat, m + (n + 1) <= Len(s), Grown(n) PROVE Grown(n + 1)
    <2>1. /\ n \in Nat /\ m + n \in 0 .. Len(s) /\ m + (n + 1) \in 1 .. Len(s)
          /\ (m + (n + 1)) - 1 = m + n /\ m + (n + 1) \in 0 .. Len(s)
      BY <1>1, <1>3
    <2>2. IsPrefix(Sums(s)[m], Sums(s)[m + n])
      BY <1>3
    <2>3. Sums(s)[m + (n + 1)] = Sums(s)[m + n] \o s[m + (n + 1)]
      BY <1>1, <2>1 DEF SumsOf
    <2>4. /\ Sums(s)[m] \in Seq(Int) /\ Sums(s)[m + n] \in Seq(Int)
          /\ Sums(s)[m + (n + 1)] \in Seq(Int) /\ s[m + (n + 1)] \in Seq(Int)
      BY <1>1, <2>1
    <2>5. IsPrefix(Sums(s)[m + n], Sums(s)[m + (n + 1)])
      BY <2>3, <2>4, PrefixConcat
    <2> QED BY <2>2, <2>4, <2>5, PrefixConcat
  <1> HIDE DEF Grown
  <1>4. T = Nat
    <2>1. T \in SUBSET Nat /\ 0 \in T
      BY <1>2
    <2>2. ASSUME NEW n \in T PROVE n + 1 \in T
      BY <1>1, <1>3
    <2> HIDE DEF T
    <2> QED BY <2>1, <2>2, SetInduction
  <1>5. Len(s) - m \in Nat /\ m + (Len(s) - m) = Len(s)
    BY <1>1
  <1>6. Grown(Len(s) - m)
    BY <1>4, <1>5
  <1>7. IsPrefix(Sums(s)[m], Sums(s)[Len(s)])
    BY <1>5, <1>6 DEF Grown
  <1> QED BY <1>7, FlattenIsSum

-----------------------------------------------------------------------------
\* The words of a table, element by element.
Parts(a) == [k \in DOMAIN a.val |-> BytesOf(a.val[k])]

\* What was offered before the item in work.
Before == IF arg.type = "table" THEN Sums(Parts(arg))[i - 1] ELSE <<>>

\* The place of a call: the item in work is the argument or the table's i-th element, j of
\* its characters are gone, and whatever came before it was offered.
SendInv ==
  /\ pc = "element" =>
       arg.type = "table" /\ i \in 1 .. Len(arg.val) + 1 /\ j = 0 /\ tried = Before
  /\ pc \in {"number", "chars"} =>
       /\ item.type = IF pc = "number" THEN "number" ELSE "string"
       /\ IF arg.type = "table" THEN i \in 1 .. Len(arg.val) /\ item = arg.val[i]
                                ELSE item = arg
  /\ pc = "number" => tried = Before
  /\ pc = "chars" =>
       j <= Len(item.val) /\ tried = Before \o SubSeq(BytesOf(item), 1, j)
  /\ pc = "idle" => tried = Bytes(arg)
  /\ pc = "raised" => IsPrefix(tried, Bytes(arg))

\* The element in work is the only slot above the two arguments.
TopInv ==
  /\ pc \in {"number", "chars"} => top = IF arg.type = "table" THEN 3 ELSE 2
  /\ pc = "element" => top = 2 /\ arg.type = "table"
  /\ pc \in {"idle", "raised"} => top <= 2

\* An argument is one of the four kinds, and its words are sequences of integers.
LEMMA WordType ==
  ASSUME NEW x \in Item
  PROVE  /\ BytesOf(x) \in Seq(Int)
         /\ x.type \in {"number", "string"}
         /\ x.type = "number" => x.val \in Int /\ BytesOf(x) = <<x.val>>
         /\ x.type = "string" =>
              /\ x.val \in Seq(Int) /\ Len(BytesOf(x)) = Len(x.val)
              /\ \A k \in 1 .. Len(x.val) : BytesOf(x)[k] = CharToInt(x.val[k])
  <1>1. CASE x \in [type : {"number"}, val : Int]
    BY <1>1 DEF BytesOf
  <1>2. CASE x \in [type : {"string"}, val : Seq(0 .. UcharSize - 1)]
    <2>1. x.type = "string" /\ x.val \in Seq(0 .. UcharSize - 1)
      BY <1>2
    <2>2. /\ Len(x.val) \in Nat /\ DOMAIN x.val = 1 .. Len(x.val)
          /\ \A k \in 1 .. Len(x.val) : x.val[k] \in 0 .. UcharSize - 1
      BY <2>1, LenProperties, ElementOfSeq
    <2>3. \A k \in 1 .. Len(x.val) : CharToInt(x.val[k]) \in Int /\ x.val[k] \in Int
      BY <2>2, UcharAssumption DEF CharToInt
    <2>4. BytesOf(x) = [k \in 1 .. Len(x.val) |-> CharToInt(x.val[k])]
      BY <2>1, <2>2 DEF BytesOf
    <2>5. BytesOf(x) \in Seq(Int) /\ Len(BytesOf(x)) = Len(x.val)
      BY <2>2, <2>3, <2>4
    <2>6. x.val \in Seq(Int)
      BY <2>1, UcharAssumption, SeqMonotonic
    <2> QED BY <2>1, <2>3, <2>4, <2>5, <2>6
  <1> QED BY <1>1, <1>2 DEF Item

\* The kinds of an argument.
LEMMA ArgKinds ==
  ASSUME NEW a \in Args \cup {Nothing}
  PROVE  /\ a.type \in {"number", "string", "table", "other"}
         /\ a.type \in {"number", "string"} => a \in Item
         /\ a.type = "table" => /\ a.val \in Seq(Item)
                                /\ Parts(a) \in Seq(Seq(Int))
                                /\ Len(Parts(a)) = Len(a.val)
                                /\ \A k \in 1 .. Len(a.val) : Parts(a)[k] = BytesOf(a.val[k])
  <1>1. Nothing \in Item
    BY DEF Nothing, Item
  <1>2. a \in Item \cup [type : {"table"}, val : Seq(Item)] \cup [type : {"other"}, val : {<<>>}]
    BY <1>1, ArgsAssumption DEF Arg
  <1>3. CASE a \in Item
    BY <1>3, WordType
  <1>4. CASE a \in [type : {"table"}, val : Seq(Item)]
    <2>1. a.type = "table" /\ a.val \in Seq(Item)
      BY <1>4
    <2>2. /\ Len(a.val) \in Nat /\ DOMAIN a.val = 1 .. Len(a.val)
          /\ \A k \in 1 .. Len(a.val) : a.val[k] \in Item
      BY <2>1
    <2>3. \A k \in 1 .. Len(a.val) : BytesOf(a.val[k]) \in Seq(Int)
      BY <2>2, WordType
    <2>4. Parts(a) = [k \in 1 .. Len(a.val) |-> BytesOf(a.val[k])]
      BY <2>2 DEF Parts
    <2> QED BY <2>1, <2>2, <2>3, <2>4
  <1>5. CASE a \in [type : {"other"}, val : {<<>>}]
    BY <1>5
  <1> QED BY <1>2, <1>3, <1>4, <1>5

\* What a whole argument stands for.
LEMMA Wholes ==
  ASSUME NEW a \in Args \cup {Nothing}
  PROVE  /\ Bytes(a) \in Seq(Int)
         /\ a.type \in {"number", "string"} => Bytes(a) = BytesOf(a)
         /\ a.type = "other" => Bytes(a) = <<>>
         /\ a.type = "table" => /\ Bytes(a) = FlattenSeq(Parts(a))
                                /\ Bytes(a) = Sums(Parts(a))[Len(a.val)]
  <1>1. CASE a.type = "table"
    <2>1. Bytes(a) = FlattenSeq(Parts(a))
      BY <1>1 DEF Bytes, Parts
    <2>2. Parts(a) \in Seq(Seq(Int)) /\ Len(Parts(a)) = Len(a.val) /\ Len(a.val) \in Nat
      BY <1>1, ArgKinds
    <2>3. Bytes(a) = Sums(Parts(a))[Len(a.val)]
      <3> DEFINE s == Parts(a)
      <3>1. s \in Seq(Seq(Int)) /\ Bytes(a) = FlattenSeq(s) /\ Len(s) = Len(a.val)
        BY <2>1, <2>2
      <3> HIDE DEF s
      <3>2. FlattenSeq(s) = Sums(s)[Len(s)]
        BY <3>1, FlattenIsSum
      <3> QED BY <3>1, <3>2 DEF s
    <2>4. Sums(Parts(a)) \in [0 .. Len(a.val) -> Seq(Int)]
      BY <2>2, SumsExist
    <2> QED BY <1>1, <2>1, <2>2, <2>3, <2>4
  <1>2. CASE a.type \in {"number", "string"}
    BY <1>2, ArgKinds, WordType DEF Bytes
  <1>3. CASE a.type = "other"
    BY <1>3 DEF Bytes
  <1> QED BY <1>1, <1>2, <1>3, ArgKinds

\* The sum before an element and its word make the sum after it.
LEMMA SumSteps ==
  ASSUME NEW a \in Args \cup {Nothing}, a.type = "table", NEW k \in 1 .. Len(a.val)
  PROVE  /\ Sums(Parts(a))[0] = <<>>
         /\ Sums(Parts(a))[k - 1] \in Seq(Int)
         /\ Sums(Parts(a))[(k + 1) - 1] = Sums(Parts(a))[k - 1] \o BytesOf(a.val[k])
         /\ BytesOf(a.val[k]) \in Seq(Int) /\ a.val[k] \in Item
         /\ IsPrefix(Sums(Parts(a))[k - 1] \o BytesOf(a.val[k]), Bytes(a))
  <1>1. /\ Parts(a) \in Seq(Seq(Int)) /\ Len(Parts(a)) = Len(a.val) /\ a.val \in Seq(Item)
        /\ Parts(a)[k] = BytesOf(a.val[k])
    BY ArgKinds
  <1>2. /\ Sums(Parts(a)) \in [0 .. Len(a.val) -> Seq(Int)] /\ SumsOf(Parts(a), Sums(Parts(a)))
    BY <1>1, SumsExist
  <1>3. a.val[k] \in Item /\ BytesOf(a.val[k]) \in Seq(Int)
    BY <1>1, WordType
  <1>4. k - 1 \in 0 .. Len(a.val) /\ k \in 0 .. Len(a.val) /\ (k + 1) - 1 = k
    BY <1>1
  <1>5. Sums(Parts(a))[0] = <<>> /\ Sums(Parts(a))[k] = Sums(Parts(a))[k - 1] \o BytesOf(a.val[k])
    BY <1>1, <1>2 DEF SumsOf
  <1>6. IsPrefix(Sums(Parts(a))[k], Bytes(a))
    BY <1>1, <1>4, SumsGrow, Wholes
  <1> QED BY <1>2, <1>3, <1>4, <1>5, <1>6

-----------------------------------------------------------------------------
\* The calls keep their types; only an element of a table is fetched.
LEMMA NextType == TypeOK /\ SendInv /\ TopInv /\ [Next]_vars => TypeOK'
  <1> SUFFICES ASSUME TypeOK, SendInv, TopInv, [Next]_vars PROVE TypeOK'
    OBVIOUS
  <1> USE DEF TypeOK
  <1>1. Nothing \in Item
    BY DEF Nothing, Item
  <1>2. ASSUME NEW a \in Args, plSerialSend(a) PROVE TypeOK'
    <2>1. a.type \in {"number", "string"} => a \in Item
      BY ArgKinds
    <2>2. a.type \in {"number", "string", "table", "other"}
      BY ArgKinds
    <2>3. item' \in Item /\ pc' \in {"number", "chars", "element", "idle"}
      BY <1>1, <1>2, <2>1, <2>2 DEF plSerialSend
    <2> QED BY <1>2, <2>3 DEF plSerialSend
  <1>3. CASE Element
    <2>1. CASE i <= Len(arg.val)
      <3>1. arg.val[i] \in Item
        BY <1>3, <2>1, ArgKinds DEF Element, SendInv
      <3> QED BY <1>3, <2>1, <3>1 DEF Element
    <2>2. CASE ~(i <= Len(arg.val))
      BY <1>1, <1>3, <2>2 DEF Element, Return
    <2> QED BY <2>1, <2>2
  <1>4. CASE ElementRaises
    BY <1>1, <1>4 DEF ElementRaises
  <1>5. ASSUME ItemSent, pc \in {"number", "chars"}
        PROVE  /\ pc' \in {"element", "idle"} /\ i' \in Nat /\ j' \in Nat /\ item' \in Item
               /\ top' \in Nat
    BY <1>1, <1>5 DEF ItemSent, Return, PopElement, TopInv
  <1>6. ASSUME NEW byte \in Int, NEW accepted, Offer(byte, accepted)
        PROVE  tried' \in Seq(Int) /\ line' \in Seq(Int)
    BY <1>6 DEF Offer
  <1>7. CASE Number
    <2>1. item.val \in Int
      BY <1>7, WordType DEF Number, SendInv
    <2>2. PICK accepted \in BOOLEAN : Offer(item.val, accepted) /\ ret' = AsCount(accepted)
      BY <1>7 DEF Number
    <2>3. ret' \in Nat
      BY <2>2 DEF AsCount
    <2> QED BY <1>5, <1>6, <1>7, <2>1, <2>2, <2>3 DEF Number
  <1>8. CASE Char
    <2>1. CharToInt(item.val[j + 1]) \in Int
      <3>1. item \in Item /\ item.type = "string" /\ j + 1 \in 1 .. Len(item.val)
        <4>1. item \in Item /\ item.type = "string" /\ j \in Nat /\ j < Len(item.val)
          BY <1>8 DEF Char, CharsLeft, SendInv
        <4>2. Len(item.val) \in Nat
          BY <4>1, WordType
        <4> QED BY <4>1, <4>2
      <3>2. BytesOf(item)[j + 1] \in Int
        BY <3>1, WordType, ElementOfSeq
      <3> QED BY <3>1, <3>2, WordType
    <2>2. PICK accepted \in BOOLEAN : /\ Offer(CharToInt(item.val[j + 1]), accepted)
                                     /\ AddCount(accepted)
      BY <1>8 DEF Char, CharsLeft
    <2>3. ret' \in Nat
      BY <2>2 DEF AddCount, AsCount
    <2> QED BY <1>6, <1>8, <2>1, <2>2, <2>3 DEF Char
  <1>9. CASE StringSent
    BY <1>5, <1>9 DEF StringSent
  <1>10. CASE UNCHANGED vars
    BY <1>10 DEF vars
  <1> QED BY <1>2, <1>3, <1>4, <1>7, <1>8, <1>9, <1>10 DEF Next

\* Every fetched element is popped before the next one.
LEMMA NextTop == TypeOK /\ SendInv /\ TopInv /\ [Next]_vars => TopInv'
  <1> SUFFICES ASSUME TypeOK, SendInv, TopInv, [Next]_vars PROVE TopInv'
    OBVIOUS
  <1> USE DEF TypeOK, TopInv
  <1>1. ASSUME NEW a \in Args, plSerialSend(a) PROVE TopInv'
    <2>1. a.type \in {"number", "string", "table", "other"}
      BY ArgKinds
    <2>2. arg' = a /\ top' = 2
      BY <1>1 DEF plSerialSend
    <2>3. pc' = CASE a.type = "number" -> "number" [] a.type = "string" -> "chars"
                  [] a.type = "table" -> "element" [] a.type = "other" -> "idle"
      BY <1>1, <2>1 DEF plSerialSend
    <2>4. CASE a.type \in {"number", "string"}
      <3>1. pc' \in {"number", "chars"}
        BY <2>3, <2>4
      <3> QED BY <2>2, <2>4, <3>1
    <2>5. CASE a.type = "table"
      BY <2>2, <2>3, <2>5
    <2>6. CASE a.type = "other"
      BY <2>2, <2>3, <2>6
    <2> QED BY <2>1, <2>4, <2>5, <2>6
  <1>2. CASE Element
    BY <1>2 DEF Element, Return
  <1>3. CASE ElementRaises
    BY <1>3 DEF ElementRaises
  <1>4. CASE Number \/ StringSent
    BY <1>4 DEF Number, StringSent, ItemSent, Return, PopElement
  <1>5. CASE Char
    BY <1>5 DEF Char
  <1>6. CASE UNCHANGED vars
    BY <1>6 DEF vars
  <1> QED BY <1>1, <1>2, <1>3, <1>4, <1>5, <1>6 DEF Next

\* The word in work, and what follows when all of it is gone.
LEMMA WordDone ==
  ASSUME TypeOK, SendInv, pc \in {"number", "chars"}, UNCHANGED arg, ItemSent,
         tried' = Before \o BytesOf(item)
  PROVE  SendInv'
  <1>1. CASE arg.type = "table"
    <2>1. /\ i \in 1 .. Len(arg.val) /\ item = arg.val[i] /\ arg \in Args \cup {Nothing}
          /\ pc' = "element" /\ i' = i + 1 /\ j' = 0 /\ arg' = arg
      BY <1>1 DEF SendInv, TypeOK, ItemSent
    <2>2. Sums(Parts(arg))[(i + 1) - 1] = Sums(Parts(arg))[i - 1] \o BytesOf(item)
      BY <1>1, <2>1, SumSteps
    <2>3. Before' = Before \o BytesOf(item)
      BY <1>1, <2>1, <2>2 DEF Before
    <2>4. i' \in 1 .. Len(arg.val) + 1
      BY <1>1, <2>1, ArgKinds
    <2> QED BY <1>1, <2>1, <2>3, <2>4 DEF SendInv
  <1>2. CASE arg.type # "table"
    <2>1. pc' = "idle" /\ item = arg /\ item \in Item /\ arg \in Args \cup {Nothing}
      BY <1>2 DEF SendInv, TypeOK, ItemSent, Return
    <2>2. tried' = <<>> \o BytesOf(arg) /\ BytesOf(arg) \in Seq(Int)
      BY <1>2, <2>1, WordType DEF Before
    <2>3. tried' = Bytes(arg)
      BY <2>1, <2>2, Wholes, WordType, ConcatEmptySeq
    <2> QED BY <2>1, <2>3 DEF SendInv
  <1> QED BY <1>1, <1>2

\* What was sent before the item in work is a sequence, and the word in work may follow.
LEMMA BeforeType ==
  ASSUME TypeOK, SendInv, pc \in {"number", "chars"}
  PROVE  /\ Before \in Seq(Int) /\ BytesOf(item) \in Seq(Int)
         /\ IsPrefix(Before \o BytesOf(item), Bytes(arg))
  <1>1. arg \in Args \cup {Nothing} /\ item \in Item /\ BytesOf(item) \in Seq(Int)
    BY WordType DEF TypeOK
  <1>2. CASE arg.type = "table"
    BY <1>1, <1>2, SumSteps DEF SendInv, Before
  <1>3. CASE arg.type # "table"
    <2>1. item = arg /\ Before = <<>>
      BY <1>3 DEF SendInv, Before
    <2>2. <<>> \o BytesOf(item) = BytesOf(item) /\ Bytes(arg) = BytesOf(item)
      BY <1>1, <2>1, Wholes, WordType, ConcatEmptySeq
    <2>3. IsPrefix(BytesOf(item), BytesOf(item))
      BY <1>1, PrefixConcat
    <2> QED BY <1>1, <2>1, <2>2, <2>3
  <1> QED BY <1>2, <1>3

\* What is due is offered next, and nothing twice.
LEMMA NextSend == TypeOK /\ SendInv /\ TopInv /\ [Next]_vars => SendInv'
  <1> SUFFICES ASSUME TypeOK, SendInv, TopInv, [Next]_vars PROVE SendInv'
    OBVIOUS
  <1>1. ASSUME NEW a \in Args, plSerialSend(a) PROVE SendInv'
    <2>1. CASE a.type = "table"
      <3>1. /\ arg' = a /\ i' = 1 /\ tried' = <<>> /\ pc' = "element"
        BY <1>1, <2>1 DEF plSerialSend
      <3>2. Before' = Sums(Parts(a))[1 - 1]
        BY <2>1, <3>1 DEF Before
      <3>3. 1 - 1 = 0 /\ Parts(a) \in Seq(Seq(Int)) /\ Len(a.val) \in Nat
        BY <2>1, ArgKinds
      <3>4. Sums(Parts(a))[0] = <<>>
        BY <3>3, SumsExist DEF SumsOf
      <3>5. 1 \in 1 .. Len(a.val) + 1
        BY <3>3
      <3>6. tried' = Before' /\ j' = 0
        BY <1>1, <2>1, <3>1, <3>2, <3>3, <3>4 DEF plSerialSend
      <3> QED BY <2>1, <3>1, <3>5, <3>6 DEF SendInv
    <2>2. CASE a.type = "string"
      <3>1. /\ arg' = a /\ tried' = <<>> /\ pc' = "chars" /\ item' = a /\ j' = 0
            /\ a \in Item /\ Before' = <<>>
        BY <1>1, <2>2, ArgKinds DEF plSerialSend, Before
      <3>2. /\ BytesOf(a) \in Seq(Int) /\ Len(a.val) \in Nat /\ Len(BytesOf(a)) = Len(a.val)
        BY <2>2, <3>1, WordType
      <3>3. SubSeq(BytesOf(a), 1, 0) = <<>>
        BY <3>2, PartGone
      <3>4. <<>> \o <<>> = <<>>
        OBVIOUS
      <3> QED BY <2>2, <3>1, <3>2, <3>3, <3>4 DEF SendInv
    <2>3. CASE a.type = "number"
      BY <1>1, <2>3 DEF plSerialSend, SendInv, Before
    <2>4. CASE a.type = "other"
      BY <1>1, <2>4, Wholes DEF plSerialSend, SendInv
    <2> QED BY <2>1, <2>2, <2>3, <2>4, ArgKinds
  <1>2. CASE Element
    <2>1. /\ pc = "element" /\ arg.type = "table" /\ i \in 1 .. Len(arg.val) + 1
          /\ tried = Before /\ arg' = arg /\ tried' = tried /\ j = 0
          /\ arg \in Args \cup {Nothing}
      BY <1>2 DEF Element, SendInv, TypeOK
    <2>2. CASE i <= Len(arg.val)
      <3>1. /\ item' = arg.val[i] /\ i' = i /\ j' = j
            /\ pc' = IF item'.type = "number" THEN "number" ELSE "chars"
        BY <1>2, <2>2 DEF Element
      <3>2. i \in 1 .. Len(arg.val) /\ item' \in Item
        BY <2>1, <2>2, <3>1, ArgKinds
      <3>3. Before' = Before /\ Before \in Seq(Int)
        BY <2>1, <3>1, <3>2, SumSteps DEF Before
      <3>4. CASE item'.type = "number"
        BY <2>1, <3>1, <3>2, <3>3, <3>4 DEF SendInv
      <3>5. CASE item'.type = "string"
        <4>1. BytesOf(item') \in Seq(Int) /\ Len(item'.val) \in Nat
          BY <3>2, <3>5, WordType
        <4>2. SubSeq(BytesOf(item'), 1, 0) = <<>>
          BY <4>1, PartGone
        <4>3. Before \o <<>> = Before
          BY <3>3, ConcatEmptySeq
        <4> QED BY <2>1, <3>1, <3>2, <3>3, <3>5, <4>1, <4>2, <4>3 DEF SendInv
      <3> QED BY <3>2, <3>4, <3>5, WordType
    <2>3. CASE ~(i <= Len(arg.val))
      <3>1. pc' = "idle"
        BY <1>2, <2>3 DEF Element, Return
      <3>2. i - 1 = Len(arg.val)
        BY <2>1, <2>3, ArgKinds
      <3>3. tried = Bytes(arg)
        BY <2>1, <3>2, Wholes DEF Before
      <3> QED BY <2>1, <3>1, <3>3 DEF SendInv
    <2> QED BY <2>2, <2>3
  <1>3. CASE ElementRaises
    <2>1. /\ arg \in Args \cup {Nothing} /\ arg.type = "table" /\ i - 1 \in 0 .. Len(arg.val)
          /\ tried = Sums(Parts(arg))[i - 1] /\ tried' = tried /\ arg' = arg /\ pc' = "raised"
      BY <1>3, ArgKinds DEF ElementRaises, SendInv, TypeOK, Before
    <2>2. Parts(arg) \in Seq(Seq(Int)) /\ Len(Parts(arg)) = Len(arg.val)
      BY <2>1, ArgKinds
    <2>3. IsPrefix(Sums(Parts(arg))[i - 1], FlattenSeq(Parts(arg)))
      BY <2>1, <2>2, SumsGrow
    <2>4. IsPrefix(tried, Bytes(arg))
      BY <2>1, <2>3, Wholes
    <2> QED BY <2>1, <2>4 DEF SendInv
  <1>4. CASE Number
    <2>1. /\ item \in Item /\ item.type = "number" /\ tried = Before /\ pc = "number"
          /\ tried' = Append(tried, item.val) /\ arg' = arg /\ ItemSent
      BY <1>4 DEF Number, Offer, SendInv, TypeOK
    <2>2. item.val \in Int /\ BytesOf(item) = <<item.val>>
      BY <2>1, WordType
    <2>3. Append(Before, item.val) = Before \o <<item.val>>
      BY <2>1, <2>2, BeforeType, AppendIsConcat
    <2> QED BY <2>1, <2>2, <2>3, WordDone
  <1>5. CASE Char
    <2> DEFINE w == BytesOf(item)
    <2>1. /\ item \in Item /\ item.type = "string" /\ j \in Nat /\ pc = "chars"
          /\ tried = Before \o SubSeq(w, 1, j) /\ j < Len(item.val)
      BY <1>5 DEF Char, CharsLeft, SendInv, TypeOK
    <2>2. /\ tried' = Append(tried, CharToInt(item.val[j + 1])) /\ j' = j + 1
          /\ UNCHANGED <<pc, arg, i, item>>
      BY <1>5, <2>1 DEF Char, Offer
    <2>3. /\ w \in Seq(Int) /\ Len(w) = Len(item.val) /\ j < Len(w) /\ Len(w) \in Nat
          /\ w[j + 1] = CharToInt(item.val[j + 1])
      <3>1. /\ Len(w) = Len(item.val) /\ w \in Seq(Int)
            /\ \A k \in 1 .. Len(item.val) : w[k] = CharToInt(item.val[k])
        BY <2>1, WordType
      <3>2. j + 1 \in 1 .. Len(item.val)
        BY <2>1, <3>1
      <3> QED BY <2>1, <3>1, <3>2
    <2> HIDE DEF w
    <2>4. tried' = Before \o SubSeq(w, 1, j + 1)
      <3>1. Before \in Seq(Int)
        BY <2>1, BeforeType
      <3> QED BY <2>1, <2>2, <2>3, <3>1, OneMore
    <2>5. Before' = Before /\ w' = w
      BY <2>2 DEF Before, w
    <2>6. j + 1 <= Len(item.val)
      BY <2>1, <2>3
    <2> QED BY <2>1, <2>2, <2>4, <2>5, <2>6 DEF SendInv, w
  <1>6. CASE StringSent
    <2>1. /\ item \in Item /\ item.type = "string" /\ j \in Nat /\ pc = "chars"
          /\ tried = Before \o SubSeq(BytesOf(item), 1, j) /\ j <= Len(item.val)
          /\ ~(j < Len(item.val)) /\ tried' = tried /\ arg' = arg /\ ItemSent
      BY <1>6 DEF StringSent, CharsLeft, SendInv, TypeOK
    <2>2. BytesOf(item) \in Seq(Int) /\ Len(BytesOf(item)) = Len(item.val)
      BY <2>1, WordType
    <2>3. j = Len(BytesOf(item))
      BY <2>1, <2>2
    <2>4. SubSeq(BytesOf(item), 1, j) = BytesOf(item)
      BY <2>2, <2>3, SubSeqFull
    <2> QED BY <2>1, <2>4, WordDone
  <1>7. CASE UNCHANGED vars
    BY <1>7 DEF vars, SendInv, Before
  <1> QED BY <1>1, <1>2, <1>3, <1>4, <1>5, <1>6, <1>7 DEF Next

\* Initially an empty string has been sent.
LEMMA InitSend == Init => TypeOK /\ SendInv /\ TopInv
  <1> SUFFICES ASSUME Init PROVE TypeOK /\ SendInv /\ TopInv
    OBVIOUS
  <1>1. Nothing \in Item /\ <<>> \in Seq(Int) /\ Len(<<>>) = 0
    BY DEF Nothing, Item
  <1>2. Bytes(Nothing) = <<>>
    BY DEF Bytes, BytesOf, Nothing
  <1> QED BY <1>1, <1>2 DEF Init, TypeOK, SendInv, TopInv

\* In every state of a call the bytes offered are the first ones of the argument.
LEMMA SendInOrder == TypeOK /\ SendInv => InOrder
  <1> SUFFICES ASSUME TypeOK, SendInv PROVE InOrder
    OBVIOUS
  <1>1. arg \in Args \cup {Nothing} /\ Bytes(arg) \in Seq(Int)
    BY Wholes DEF TypeOK
  <1>2. pc = "idle" => tried = Bytes(arg) /\ IsPrefix(Bytes(arg), Bytes(arg))
    BY <1>1, PrefixConcat DEF SendInv
  <1>3. ASSUME pc \in {"number", "chars"} PROVE IsPrefix(tried, Bytes(arg))
    <2>1. /\ Before \in Seq(Int) /\ BytesOf(item) \in Seq(Int)
          /\ IsPrefix(Before \o BytesOf(item), Bytes(arg))
          /\ Before \o BytesOf(item) \in Seq(Int)
      BY <1>3, BeforeType, ConcatProperties
    <2>2. CASE pc = "number"
      <3>1. tried = Before /\ IsPrefix(Before, Before \o BytesOf(item))
        BY <2>1, <2>2, PrefixConcat DEF SendInv
      <3> QED BY <1>1, <2>1, <3>1, PrefixConcat
    <2>3. CASE pc = "chars"
      <3>1. /\ item \in Item /\ item.type = "string" /\ j \in Nat /\ j <= Len(item.val)
            /\ tried = Before \o SubSeq(BytesOf(item), 1, j) /\ tried \in Seq(Int)
        BY <2>3 DEF SendInv, TypeOK
      <3>2. Len(BytesOf(item)) = Len(item.val)
        BY <3>1, WordType
      <3>3. /\ SubSeq(BytesOf(item), 1, j) \in Seq(Int)
            /\ IsPrefix(SubSeq(BytesOf(item), 1, j), BytesOf(item))
        BY <2>1, <3>1, <3>2, PartGone
      <3>4. PICK b, q, w : b = Before /\ q = SubSeq(BytesOf(item), 1, j) /\ w = BytesOf(item)
        OBVIOUS
      <3>5. /\ b \in Seq(Int) /\ q \in Seq(Int) /\ w \in Seq(Int)
            /\ IsPrefix(q, w) /\ tried = b \o q
        BY <2>1, <3>1, <3>3, <3>4
      <3>6. IsPrefix(b \o q, b \o w)
        BY <3>5, PrefixConcat
      <3>7. PICK x, y : x = b \o w /\ y = Bytes(arg)
        OBVIOUS
      <3>8. x \in Seq(Int) /\ y \in Seq(Int) /\ IsPrefix(x, y)
        BY <1>1, <2>1, <3>4, <3>7
      <3>9. tried \in Seq(Int) /\ IsPrefix(tried, x)
        BY <3>1, <3>5, <3>6, <3>7
      <3>10. IsPrefix(tried, y)
        BY <3>8, <3>9, PrefixConcat
      <3> QED BY <3>7, <3>10
    <2> QED BY <1>3, <2>2, <2>3
  <1>4. ASSUME pc = "element" PROVE IsPrefix(tried, Bytes(arg))
    <2>1. arg.type = "table" /\ i - 1 \in 0 .. Len(arg.val) /\ tried = Sums(Parts(arg))[i - 1]
      BY <1>1, <1>4, ArgKinds DEF SendInv, Before
    <2>2. Parts(arg) \in Seq(Seq(Int)) /\ Len(Parts(arg)) = Len(arg.val)
      BY <1>1, <2>1, ArgKinds
    <2>3. IsPrefix(Sums(Parts(arg))[i - 1], FlattenSeq(Parts(arg)))
      BY <2>1, <2>2, SumsGrow
    <2> QED BY <1>1, <2>1, <2>3, Wholes
  <1> QED BY <1>2, <1>3, <1>4 DEF InOrder, SendInv, TypeOK

-----------------------------------------------------------------------------
\* plSerialSend offers every byte of its argument once and in order, for every
\* argument and every refusal of the serial library.
THEOREM SendsInOrder == Spec => []InOrder
  BY InitSend, NextType, NextSend, NextTop, SendInOrder, PTL DEF Spec

\* However long the table, the stack holds one element of it at most.
THEOREM SendsOnFlatStack == Spec => []StackFlat
  <1>1. TypeOK /\ TopInv => StackFlat
    BY DEF TypeOK, TopInv, StackFlat
  <1> QED BY <1>1, InitSend, NextType, NextSend, NextTop, PTL DEF Spec

\* The count returned is never more than the number of bytes accepted.
THEOREM CountNeverOverstates == Spec => []NeverOverstates
  <1>1. Init => NeverOverstates
    BY DEF Init, NeverOverstates
  <1>2. TypeOK /\ NeverOverstates /\ [Next]_vars => NeverOverstates'
    <2> SUFFICES ASSUME TypeOK, NeverOverstates, [Next]_vars PROVE NeverOverstates'
      OBVIOUS
    <2> USE DEF NeverOverstates
    <2>1. ASSUME NEW a \in Args, plSerialSend(a) PROVE NeverOverstates'
      BY <2>1 DEF plSerialSend
    <2>2. CASE Element \/ ElementRaises \/ StringSent
      BY <2>2 DEF Element, ElementRaises, StringSent
    <2>3. ASSUME NEW byte, NEW accepted \in BOOLEAN, Offer(byte, accepted)
          PROVE  Len(line') = Len(line) + AsCount(accepted) /\ Len(line) \in Nat
      BY <2>3 DEF Offer, AsCount, TypeOK
    <2>4. CASE Number
      BY <2>3, <2>4 DEF Number, AsCount
    <2>5. CASE Char
      BY <2>3, <2>5 DEF Char, AddCount, AsCount, TypeOK
    <2>6. CASE UNCHANGED vars
      BY <2>6 DEF vars
    <2> QED BY <2>1, <2>2, <2>4, <2>5, <2>6 DEF Next
  <1> QED BY <1>1, <1>2, InitSend, NextType, NextSend, NextTop, PTL DEF Spec
=============================================================================
