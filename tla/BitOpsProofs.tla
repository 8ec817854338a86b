--------------------------- MODULE BitOpsProofs ---------------------------
(***************************************************************************)
(* Facts about the words of profibit.c, for words of any width: what the   *)
(* bits of a word are worth, what the operations make of that, and that    *)
(* the rotations undo each other.                                          *)
(***************************************************************************)
EXTENDS BitOps, NaturalLemmas, TLAPS

-----------------------------------------------------------------------------
(* Numbers                                                                 *)

\* Quotient and rest put a number together,
LEMMA Divided ==
  ASSUME NEW a \in Int, NEW m \in Int, m > 0
  PROVE  /\ a \div m \in Int /\ a % m \in 0 .. m - 1
         /\ a = m * (a \div m) + (a % m)
  OBVIOUS

\* and are the only ones that do.
LEMMA Quotient ==
  ASSUME NEW a \in Int, NEW m \in Int, m > 0,
         NEW q \in Int, NEW r \in Int, 0 <= r, r < m, a = m * q + r
  PROVE  a \div m = q /\ a % m = r
  OBVIOUS

LEMMA Positive ==
  ASSUME NEW a \in Int, NEW m \in Int, a > 0, m > 0
  PROVE  a * m \in Int /\ a * m > 0
  OBVIOUS

\* A function on 0 .. N that is given by its first value and by a step from each value
\* to the next
Steps(f, N, a, c, d) == f = [n \in 0 .. N |-> IF n = 0 THEN c ELSE a * f[n - 1] + d[n]]

\* exists,
LEMMA Recurrence ==
  ASSUME NEW N \in Nat, NEW a \in Int, NEW c \in Int, NEW d \in [1 .. N -> Int]
  PROVE  \E f : Steps(f, N, a, c, d)
  <1> DEFINE Upto(n, f) == f[0] = c /\ \A k \in 1 .. n : f[k] = a * f[k - 1] + d[k]
             Has(n) == \E f \in [0 .. n -> Int] : Upto(n, f)
             T == {n \in Nat : n <= N => Has(n)}
  <1>1. Has(0)
    <2> DEFINE f == [k \in 0 .. 0 |-> c]
    <2>1. f \in [0 .. 0 -> Int] /\ Upto(0, f)
      OBVIOUS
    <2> QED BY <2>1
  <1>2. ASSUME NEW n \in Nat, n + 1 <= N, Has(n) PROVE Has(n + 1)
    <2>1. d[n + 1] \in Int
      BY <1>2
    <2>2. PICK f \in [0 .. n -> Int] : Upto(n, f)
      BY <1>2
    <2> DEFINE last == a * f[n] + d[n + 1]
               g == [k \in 0 .. n + 1 |-> IF k <= n THEN f[k] ELSE last]
    <2>3. last \in Int
      BY <2>1
    <2> HIDE DEF last
    <2>4. g \in [0 .. n + 1 -> Int]
      BY <2>3
    <2>5. (\A k \in 0 .. n : g[k] = f[k]) /\ g[n + 1] = last
      OBVIOUS
    <2> HIDE DEF g
    <2>6. g[0] = c
      BY <2>2, <2>5
    <2>7. ASSUME NEW k \in 1 .. n + 1 PROVE g[k] = a * g[k - 1] + d[k]
      <3>1. CASE k \in 1 .. n
        BY <2>2, <2>5, <3>1
      <3>2. CASE k = n + 1
        <4>1. k - 1 = n /\ n \in 0 .. n
          BY <3>2
        <4> QED BY <2>5, <3>2, <4>1 DEF last
      <3> QED BY <3>1, <3>2
    <2> QED BY <2>4, <2>6, <2>7
  <1> HIDE DEF Has
  <1>3. T = Nat
    <2>1. T \in SUBSET Nat /\ 0 \in T
      BY <1>1
    <2>2. ASSUME NEW n \in T PROVE n + 1 \in T
      BY <1>2
    <2> HIDE DEF T
    <2> QED BY <2>1, <2>2, SetInduction
  <1>4. PICK f \in [0 .. N -> Int] : Upto(N, f)
    <2>1. Has(N)
      BY <1>3
    <2> QED BY <2>1 DEF Has
  <1>5. Steps(f, N, a, c, d)
    <2>1. ASSUME NEW n \in 0 .. N
          PROVE  f[n] = IF n = 0 THEN c ELSE a * f[n - 1] + d[n]
      BY <1>4
    <2> QED BY <2>1 DEF Steps
  <1> QED BY <1>5

\* and its values are whole.
LEMMA RecurrenceType ==
  ASSUME NEW N \in Nat, NEW a \in Int, NEW c \in Int, NEW d \in [1 .. N -> Int], NEW f,
         Steps(f, N, a, c, d)
  PROVE  \A n \in 0 .. N : f[n] \in Int
  <1> DEFINE T == {n \in Nat : n <= N => f[n] \in Int}
  <1>0. f[0] = c /\ \A n \in 1 .. N : f[n] = a * f[n - 1] + d[n]
    BY DEF Steps
  <1>1. 0 \in T
    BY <1>0
  <1>2. ASSUME NEW n \in T PROVE n + 1 \in T
    <2>0. n \in Nat /\ (n <= N => f[n] \in Int)
      OBVIOUS
    <2> SUFFICES ASSUME n + 1 <= N PROVE f[n + 1] \in Int
      OBVIOUS
    <2>1. n + 1 \in 1 .. N /\ (n + 1) - 1 = n /\ f[n] \in Int
      BY <2>0
    <2>2. f[n + 1] = a * f[n] + d[n + 1] /\ d[n + 1] \in Int
      BY <1>0, <2>1
    <2> QED BY <2>1, <2>2
  <1> HIDE DEF T
  <1>3. T = Nat
    BY <1>1, <1>2, SetInduction DEF T
  <1>4. \A n \in Nat : n <= N => f[n] \in Int
    BY <1>3 DEF T
  <1> QED BY <1>4

-----------------------------------------------------------------------------
(* Powers of two                                                           *)

\* The widths: a word is shorter than the significand of a double, that than the range of
\* its exponents.
LEMMA Widths ==
  /\ W \in Nat /\ W > 0 /\ MantissaBits \in Nat /\ MaxExponent \in Nat /\ MaxExponent + 1 \in Nat
  /\ W <= MantissaBits - 1 /\ MantissaBits - 1 \in Nat /\ MantissaBits + 1 <= MaxExponent
  /\ MantissaBits - 1 \in 0 .. MaxExponent /\ MantissaBits \in 0 .. MaxExponent
  /\ (MantissaBits - 1) + 1 = MantissaBits
  BY WAssumption, DoubleAssumption

LEMMA AllPowers ==
  /\ Pow2[0] = 1
  /\ \A n \in 0 .. MaxExponent : Pow2[n + 1] = 2 * Pow2[n]
  /\ \A n \in 0 .. MaxExponent + 1 : Pow2[n] \in Nat /\ Pow2[n] > 0
  <1> DEFINE N == MaxExponent + 1
             d == [n \in 1 .. N |-> 0]
  <1>0. N \in Nat /\ N - 1 = MaxExponent /\ N = MaxExponent + 1
    BY Widths
  <1>1. /\ N \in Nat /\ 1 \in Int /\ 2 \in Int
        /\ d \in [1 .. N -> Int] /\ \A n \in 1 .. N : d[n] = 0
    BY Widths
  <1> HIDE DEF d, N
  <1>2. PICK f : Steps(f, N, 2, 1, d)
    BY <1>1, Recurrence
  <1>3. \A n \in 0 .. N : f[n] \in Int
    BY <1>1, <1>2, RecurrenceType
  <1>4. f = [n \in 0 .. N |-> IF n = 0 THEN 1 ELSE 2 * f[n - 1]]
    <2>1. ASSUME NEW n \in 0 .. N PROVE f[n] = IF n = 0 THEN 1 ELSE 2 * f[n - 1]
      BY <1>1, <1>2, <1>3 DEF Steps
    <2> QED BY <1>2, <2>1 DEF Steps
  <1>5. Pow2 = [n \in 0 .. N |-> IF n = 0 THEN 1 ELSE 2 * Pow2[n - 1]]
    BY <1>0, <1>4 DEF Pow2
  <1>6. Pow2[0] = 1 /\ \A n \in 0 .. N - 1 : Pow2[n + 1] = 2 * Pow2[n]
    BY <1>1, <1>5
  <1> DEFINE T == {n \in Nat : n <= N => Pow2[n] \in Nat /\ Pow2[n] > 0}
  <1>7. 0 \in T
    BY <1>6
  <1>8. ASSUME NEW n \in T PROVE n + 1 \in T
    BY <1>1, <1>6
  <1> HIDE DEF T
  <1>9. T = Nat
    BY <1>7, <1>8, SetInduction DEF T
  <1> QED BY <1>0, <1>1, <1>6, <1>9 DEF T

LEMMA Powers ==
  /\ Pow2[0] = 1
  /\ \A n \in 0 .. W - 1 : Pow2[n + 1] = 2 * Pow2[n]
  /\ \A n \in 0 .. W : Pow2[n] \in Nat /\ Pow2[n] > 0
  BY AllPowers, Widths

LEMMA AllPowersMultiply ==
  ASSUME NEW m \in Nat, NEW n \in Nat, m + n <= MaxExponent + 1
  PROVE  Pow2[m + n] = Pow2[m] * Pow2[n]
  <1> DEFINE T == {k \in Nat : m + k <= MaxExponent + 1 => Pow2[m + k] = Pow2[m] * Pow2[k]}
  <1>0. MaxExponent + 1 \in Nat /\ MaxExponent \in Nat
    BY Widths
  <1>1. 0 \in T
    BY <1>0, AllPowers
  <1>2. ASSUME NEW k \in T PROVE k + 1 \in T
    <2> SUFFICES ASSUME m + (k + 1) <= MaxExponent + 1 PROVE Pow2[m + (k + 1)] = Pow2[m] * Pow2[k + 1]
      OBVIOUS
    <2>1. k \in Nat /\ m + (k + 1) = (m + k) + 1 /\ m + k \in 0 .. MaxExponent /\ k \in 0 .. MaxExponent
          /\ m \in 0 .. MaxExponent + 1
      BY <1>0
    <2>2. Pow2[m + (k + 1)] = 2 * Pow2[m + k] /\ Pow2[k + 1] = 2 * Pow2[k]
      BY <2>1, AllPowers
    <2>3. Pow2[m] \in Int /\ Pow2[k] \in Int /\ Pow2[m + k] = Pow2[m] * Pow2[k]
      BY <1>0, <2>1, AllPowers
    <2> QED BY <2>2, <2>3
  <1> HIDE DEF T
  <1>3. T = Nat
    BY <1>1, <1>2, SetInduction DEF T
  <1> QED BY <1>3 DEF T

LEMMA PowersMultiply ==
  ASSUME NEW m \in Nat, NEW n \in Nat, m + n <= W
  PROVE  Pow2[m + n] = Pow2[m] * Pow2[n]
  BY AllPowersMultiply, Widths

-----------------------------------------------------------------------------
(* Words and numbers                                                       *)

LEMMA LowFacts ==
  ASSUME NEW b \in Word
  PROVE  /\ Low(b)[0] = 0
         /\ \A n \in 0 .. W - 1 : Low(b)[n + 1] = Low(b)[n] + b[n] * Pow2[n]
         /\ \A n \in 0 .. W : Low(b)[n] \in 0 .. Pow2[n] - 1
  <1> DEFINE d == [n \in 1 .. W |-> b[n - 1] * Pow2[n - 1]]
             Step(f) == [n \in 0 .. W |-> IF n = 0 THEN 0 ELSE f[n - 1] + b[n - 1] * Pow2[n - 1]]
  <1>0. W \in Nat /\ \A n \in 0 .. W - 1 : b[n] \in 0 .. 1
    BY WAssumption DEF Word, Positions
  <1>1. \A n \in 1 .. W : b[n - 1] * Pow2[n - 1] \in Int
    <2> SUFFICES ASSUME NEW n \in 1 .. W PROVE b[n - 1] * Pow2[n - 1] \in Int
      OBVIOUS
    <2>1. n - 1 \in 0 .. W - 1 /\ n - 1 \in 0 .. W
      BY <1>0
    <2>2. b[n - 1] \in Int /\ Pow2[n - 1] \in Int
      BY <1>0, <2>1, Powers
    <2> QED BY <2>2
  <1>2. /\ 0 \in Int /\ 1 \in Int /\ d \in [1 .. W -> Int]
        /\ \A n \in 1 .. W : d[n] = b[n - 1] * Pow2[n - 1]
    BY <1>1
  <1> HIDE DEF d
  <1>3. PICK f : Steps(f, W, 1, 0, d)
    BY <1>0, <1>2, Recurrence
  <1>4. \A n \in 0 .. W : f[n] \in Int
    BY <1>0, <1>2, <1>3, RecurrenceType
  <1>5. f = Step(f)
    <2>1. ASSUME NEW n \in 0 .. W
          PROVE  f[n] = IF n = 0 THEN 0 ELSE f[n - 1] + b[n - 1] * Pow2[n - 1]
      <3>1. f[n] = IF n = 0 THEN 0 ELSE 1 * f[n - 1] + d[n]
        BY <1>3 DEF Steps
      <3>2. n # 0 => n \in 1 .. W /\ n - 1 \in 0 .. W
        BY <1>0
      <3> QED BY <1>2, <1>4, <3>1, <3>2
    <2> QED BY <1>3, <2>1 DEF Steps
  <1>6. Low(b) = Step(Low(b))
    BY <1>5 DEF Low
  <1>7. Low(b)[0] = 0 /\ \A n \in 0 .. W - 1 : Low(b)[n + 1] = Low(b)[n] + b[n] * Pow2[n]
    <2>1. Low(b)[0] = 0
      BY <1>0, <1>6
    <2>2. ASSUME NEW n \in 0 .. W - 1 PROVE Low(b)[n + 1] = Low(b)[n] + b[n] * Pow2[n]
      <3>1. n + 1 \in 0 .. W /\ n + 1 # 0 /\ (n + 1) - 1 = n
        BY <1>0
      <3> QED BY <1>6, <3>1
    <2> QED BY <2>1, <2>2
  <1> DEFINE T == {n \in Nat : n <= W => Low(b)[n] \in 0 .. Pow2[n] - 1}
  <1>8. 0 \in T
    BY <1>7, Powers
  <1>9. ASSUME NEW n \in T PROVE n + 1 \in T
    <2>0. n \in Nat /\ (n <= W => Low(b)[n] \in 0 .. Pow2[n] - 1)
      OBVIOUS
    <2> SUFFICES ASSUME n + 1 <= W PROVE Low(b)[n + 1] \in 0 .. Pow2[n + 1] - 1
      BY <2>0
    <2>1. n \in 0 .. W - 1 /\ n \in 0 .. W
      BY <1>0, <2>0
    <2>2. Low(b)[n + 1] = Low(b)[n] + b[n] * Pow2[n] /\ b[n] \in 0 .. 1
      BY <1>0, <1>7, <2>1
    <2>3. Pow2[n + 1] = 2 * Pow2[n] /\ Pow2[n] \in Nat
      BY <2>1, Powers
    <2>4. b[n] = 0 \/ b[n] = 1
      BY <2>2
    <2>5. b[n] * Pow2[n] = 0 \/ b[n] * Pow2[n] = Pow2[n]
      BY <2>3, <2>4
    <2> QED BY <2>0, <2>1, <2>2, <2>3, <2>5
  <1> HIDE DEF T
  <1>10. T = Nat
    BY <1>8, <1>9, SetInduction DEF T
  <1>11. \A n \in Nat : n <= W => Low(b)[n] \in 0 .. Pow2[n] - 1
    BY <1>10 DEF T
  <1> QED BY <1>7, <1>11

\* Words that agree in their lowest n bits are worth the same there.
LEMMA LowAgree ==
  ASSUME NEW b \in Word, NEW c \in Word, NEW n \in 0 .. W,
         \A k \in 0 .. n - 1 : b[k] = c[k]
  PROVE  Low(b)[n] = Low(c)[n]
  <1> DEFINE T == {m \in Nat : m <= n => Low(b)[m] = Low(c)[m]}
  <1>0. W \in Nat /\ n \in Nat /\ n <= W
    BY WAssumption
  <1>1. 0 \in T
    BY LowFacts
  <1>2. ASSUME NEW m \in T PROVE m + 1 \in T
    <2>0. m \in Nat /\ (m <= n => Low(b)[m] = Low(c)[m])
      OBVIOUS
    <2> SUFFICES ASSUME m + 1 <= n PROVE Low(b)[m + 1] = Low(c)[m + 1]
      BY <2>0
    <2>1. m \in 0 .. W - 1 /\ m \in 0 .. n - 1 /\ m <= n
      BY <1>0, <2>0
    <2>2. /\ Low(b)[m + 1] = Low(b)[m] + b[m] * Pow2[m]
          /\ Low(c)[m + 1] = Low(c)[m] + c[m] * Pow2[m]
      BY <2>1, LowFacts
    <2> QED BY <2>0, <2>1, <2>2
  <1> HIDE DEF T
  <1>3. T = Nat
    BY <1>1, <1>2, SetInduction DEF T
  <1> QED BY <1>0, <1>3 DEF T

LEMMA LowZero ==
  ASSUME NEW b \in Word, NEW n \in 0 .. W, \A k \in 0 .. n - 1 : b[k] = 0
  PROVE  Low(b)[n] = 0
  <1> DEFINE T == {m \in Nat : m <= n => Low(b)[m] = 0}
  <1>0. W \in Nat /\ n \in Nat /\ n <= W
    BY WAssumption
  <1>1. 0 \in T
    BY LowFacts
  <1>2. ASSUME NEW m \in T PROVE m + 1 \in T
    <2>0. m \in Nat /\ (m <= n => Low(b)[m] = 0)
      OBVIOUS
    <2> SUFFICES ASSUME m + 1 <= n PROVE Low(b)[m + 1] = 0
      BY <2>0
    <2>1. m \in 0 .. W - 1 /\ m \in 0 .. n - 1 /\ m <= n /\ m \in 0 .. W
      BY <1>0, <2>0
    <2>2. Low(b)[m + 1] = Low(b)[m] + b[m] * Pow2[m] /\ Pow2[m] \in Int
      BY <2>1, LowFacts, Powers
    <2> QED BY <2>0, <2>1, <2>2
  <1> HIDE DEF T
  <1>3. T = Nat
    BY <1>1, <1>2, SetInduction DEF T
  <1> QED BY <1>0, <1>3 DEF T

\* The bits of shifted words
LEMMA ShiftedBits ==
  ASSUME NEW b \in Word, NEW n \in 0 .. W
  PROVE  /\ bshl(b, n) \in Word /\ bshr(b, n) \in Word /\ bsar(b, n) \in Word
         /\ \A k \in Positions : bshl(b, n)[k] = IF k >= n THEN b[k - n] ELSE 0
         /\ \A k \in Positions : bshr(b, n)[k] = IF k + n < W THEN b[k + n] ELSE 0
         /\ \A k \in Positions : bsar(b, n)[k] = IF k + n < W THEN b[k + n] ELSE b[W - 1]
  <1> USE WAssumption DEF Word, Positions
  <1>1. bshl(b, n) \in Word
    BY DEF bshl
  <1>2. bshr(b, n) \in Word
    BY DEF bshr
  <1>3. bsar(b, n) \in Word
    BY DEF bsar
  <1> QED BY <1>1, <1>2, <1>3 DEF bshl, bshr, bsar

LEMMA ShiftTwice ==
  ASSUME NEW b \in Word, NEW m \in Nat, NEW n \in Nat, m + n <= W
  PROVE  bshr(bshr(b, m), n) = bshr(b, m + n)
  <1>1. W \in Nat /\ m \in 0 .. W /\ n \in 0 .. W /\ m + n \in 0 .. W
    BY WAssumption
  <1>2. /\ bshr(b, m) \in Word
        /\ \A k \in Positions : bshr(b, m)[k] = IF k + m < W THEN b[k + m] ELSE 0
    BY <1>1, ShiftedBits
  <1> DEFINE c == bshr(b, m)
  <1> HIDE DEF c
  <1>3. ASSUME NEW k \in Positions
        PROVE  (IF k + n < W THEN c[k + n] ELSE 0)
                 = IF k + (m + n) < W THEN b[k + (m + n)] ELSE 0
    <2>1. CASE k + n < W
      <3>1. k + n \in Positions /\ (k + n) + m = k + (m + n)
        BY <1>1, <2>1 DEF Positions
      <3> QED BY <1>2, <2>1, <3>1 DEF c
    <2>2. CASE ~(k + n < W)
      <3>1. ~(k + (m + n) < W)
        BY <1>1, <2>2 DEF Positions
      <3> QED BY <2>2, <3>1
    <2> QED BY <2>1, <2>2
  <1> QED BY <1>3 DEF bshr, c

\* The lowest n bits of a word and the ones above them
LEMMA LowSplit ==
  ASSUME NEW b \in Word, NEW n \in Nat, NEW m \in Nat, n + m <= W
  PROVE  Low(b)[n + m] = Low(b)[n] + Pow2[n] * Low(bshr(b, n))[m]
  <1> DEFINE high == bshr(b, n)
             T == {k \in Nat : n + k <= W => Low(b)[n + k] = Low(b)[n] + Pow2[n] * Low(high)[k]}
  <1>0. W \in Nat /\ n \in 0 .. W
    BY WAssumption
  <1>1. /\ high \in Word
        /\ \A k \in Positions : high[k] = IF k + n < W THEN b[k + n] ELSE 0
    BY <1>0, ShiftedBits
  <1> HIDE DEF high
  <1>2. Pow2[n] \in Int /\ Low(b)[n] \in Int
    BY <1>0, Powers, LowFacts
  <1>3. 0 \in T
    BY <1>0, <1>1, <1>2, LowFacts
  <1>4. ASSUME NEW k \in T PROVE k + 1 \in T
    <2>0. k \in Nat /\ (n + k <= W => Low(b)[n + k] = Low(b)[n] + Pow2[n] * Low(high)[k])
      OBVIOUS
    <2> SUFFICES ASSUME n + (k + 1) <= W
                 PROVE  Low(b)[n + (k + 1)] = Low(b)[n] + Pow2[n] * Low(high)[k + 1]
      BY <2>0
    <2>1. /\ n + k \in 0 .. W - 1 /\ k \in 0 .. W - 1 /\ k \in 0 .. W /\ (n + k) + 1 = n + (k + 1)
          /\ k \in Positions /\ k + n < W /\ k + n = n + k /\ n + k <= W
      BY <1>0, <2>0 DEF Positions
    <2>2. /\ Low(b)[n + (k + 1)] = Low(b)[n + k] + b[n + k] * Pow2[n + k]
          /\ Low(high)[k + 1] = Low(high)[k] + high[k] * Pow2[k]
          /\ Low(high)[k] \in Int
      BY <1>1, <2>1, LowFacts
    <2>3. high[k] = b[n + k] /\ b[n + k] \in Int
      BY <1>1, <2>1 DEF Word, Positions
    <2>4. Pow2[n + k] = Pow2[n] * Pow2[k] /\ Pow2[k] \in Int
      BY <1>0, <2>0, <2>1, PowersMultiply, Powers
    <2>5. \A bit, p, q, l, h \in Int : (l + p * h) + bit * (p * q) = l + p * (h + bit * q)
      OBVIOUS
    <2> QED BY <1>2, <2>0, <2>1, <2>2, <2>3, <2>4, <2>5
  <1> HIDE DEF T
  <1>5. T = Nat
    BY <1>3, <1>4, SetInduction DEF T
  <1> QED BY <1>5 DEF T, high

\* A word is its lowest n bits and, 2^n fold, the word shifted by n: the rest and the
\* quotient of a division.
LEMMA Halves ==
  ASSUME NEW b \in Word, NEW n \in 0 .. W
  PROVE  /\ Unsigned(b) \in 0 .. Pow2[W] - 1
         /\ Unsigned(b) = Low(b)[n] + Pow2[n] * Unsigned(bshr(b, n))
         /\ Low(b)[n] = Unsigned(b) % Pow2[n]
         /\ Unsigned(bshr(b, n)) = Unsigned(b) \div Pow2[n]
         /\ Unsigned(bshr(b, n)) = Low(bshr(b, n))[W - n]
  <1> DEFINE high == bshr(b, n)
  <1>0. W \in Nat /\ n \in Nat /\ W - n \in Nat /\ W - n \in 0 .. W /\ W \in 0 .. W
        /\ (W - n) + n = W /\ n + (W - n) = W
    BY WAssumption
  <1>1. /\ high \in Word
        /\ \A k \in Positions : high[k] = IF k + n < W THEN b[k + n] ELSE 0
    BY ShiftedBits
  <1>2. Unsigned(b) = Low(b)[n] + Pow2[n] * Low(high)[W - n]
    BY <1>0, LowSplit DEF Unsigned
  <1> HIDE DEF high
  <1>3. Unsigned(high) = Low(high)[W - n]
    <2>1. Unsigned(high) = Low(high)[W - n] + Pow2[W - n] * Low(bshr(high, W - n))[n]
      BY <1>0, <1>1, LowSplit DEF Unsigned
    <2>2. /\ bshr(high, W - n) \in Word
          /\ \A k \in Positions :
               bshr(high, W - n)[k] = IF k + (W - n) < W THEN high[k + (W - n)] ELSE 0
      BY <1>0, <1>1, ShiftedBits
    <2>3. ASSUME NEW k \in 0 .. n - 1 PROVE bshr(high, W - n)[k] = 0
      <3>1. k \in Positions /\ k + (W - n) \in Positions /\ ~((k + (W - n)) + n < W)
        BY <1>0 DEF Positions
      <3> QED BY <1>1, <2>2, <3>1
    <2>4. Low(bshr(high, W - n))[n] = 0
      BY <2>2, <2>3, LowZero
    <2>5. Pow2[W - n] \in Int /\ Low(high)[W - n] \in Int
      BY <1>0, <1>1, Powers, LowFacts
    <2> QED BY <2>1, <2>4, <2>5
  <1>4. Pow2[n] \in Int /\ Pow2[n] > 0 /\ Low(b)[n] \in 0 .. Pow2[n] - 1
    BY Powers, LowFacts
  <1>5. Unsigned(high) \in Int /\ Unsigned(b) \in 0 .. Pow2[W] - 1 /\ Pow2[W] \in Int
    BY <1>0, <1>1, LowFacts, Powers DEF Unsigned
  <1>6. Unsigned(b) = Pow2[n] * Unsigned(high) + Low(b)[n]
    BY <1>2, <1>3, <1>4, <1>5
  <1>7. Unsigned(b) \div Pow2[n] = Unsigned(high) /\ Unsigned(b) % Pow2[n] = Low(b)[n]
    <2>1. Unsigned(b) \in Int /\ Low(b)[n] \in Int /\ 0 <= Low(b)[n] /\ Low(b)[n] < Pow2[n]
      BY <1>4, <1>5
    <2> QED BY <1>4, <1>5, <1>6, <2>1, Quotient, Zenon
  <1> QED BY <1>2, <1>3, <1>5, <1>7 DEF high

\* Bit n of what is divided by 2^n is the lowest.
LEMMA RestOfDouble ==
  ASSUME NEW a \in Int, NEW m \in Int, m > 0
  PROVE  a % (2 * m) = (a % m) + m * ((a \div m) % 2)
  <1> DEFINE q == a \div m  r == a % m
  <1>1. q \in Int /\ r \in 0 .. m - 1 /\ a = m * q + r
    BY Divided
  <1> HIDE DEF q, r
  <1> DEFINE h == q \div 2  e == q % 2
  <1>2. h \in Int /\ e \in 0 .. 1 /\ q = 2 * h + e
    BY <1>1
  <1> HIDE DEF h, e
  <1>3. a = (2 * m) * h + (r + m * e)
    BY <1>1, <1>2
  <1>4. 2 * m \in Int /\ 2 * m > 0 /\ r + m * e \in Int /\ 0 <= r + m * e /\ r + m * e < 2 * m
    <2>1. e = 0 \/ e = 1
      BY <1>2
    <2>2. m * e = 0 \/ m * e = m
      BY <2>1
    <2> QED BY <1>1, <2>2
  <1>5. a % (2 * m) = r + m * e
    BY <1>2, <1>3, <1>4, Quotient, Zenon
  <1> QED BY <1>5 DEF q, r, e, h

-----------------------------------------------------------------------------
(* Doubles                                                                 *)

LEMMA PowersGrow ==
  ASSUME NEW m \in Nat, NEW n \in Nat, m <= n, n <= MaxExponent + 1
  PROVE  Pow2[m] <= Pow2[n]
  <1>1. PICK k \in Nat : k = n - m
    OBVIOUS
  <1>2. m + k = n /\ m \in 0 .. MaxExponent + 1 /\ k \in 0 .. MaxExponent + 1
    BY <1>1, Widths
  <1>3. Pow2[n] = Pow2[m] * Pow2[k]
    BY <1>2, AllPowersMultiply
  <1>4. Pow2[m] \in Nat /\ Pow2[k] \in Nat /\ Pow2[k] >= 1
    BY <1>2, AllPowers
  <1>5. \A a, c \in Nat : c >= 1 => a <= a * c
    OBVIOUS
  <1> QED BY <1>3, <1>4, <1>5

\* A number has one exponent,
LEMMA ExponentIs ==
  ASSUME NEW n \in Int, NEW e \in 0 .. MaxExponent, Pow2[e] <= n, n < Pow2[e + 1]
  PROVE  Exponent(n) = e
  <1>0. MaxExponent \in Nat
    BY Widths
  <1>1. ASSUME NEW f \in 0 .. MaxExponent, Pow2[f] <= n, n < Pow2[f + 1] PROVE f = e
    <2>1. /\ e \in Nat /\ f \in Nat /\ e + 1 \in Nat /\ f + 1 \in Nat
          /\ e <= MaxExponent + 1 /\ f <= MaxExponent + 1
          /\ {e, f, e + 1, f + 1} \subseteq 0 .. MaxExponent + 1
      BY <1>0
    <2>2. Pow2[e] \in Int /\ Pow2[f] \in Int /\ Pow2[e + 1] \in Int /\ Pow2[f + 1] \in Int
      BY <2>1, AllPowers
    <2>3. ASSUME e + 1 <= f PROVE FALSE
      <3>1. Pow2[e + 1] <= Pow2[f]
        BY <2>1, <2>3, PowersGrow
      <3> QED BY <1>1, <2>2, <3>1
    <2>4. ASSUME f + 1 <= e PROVE FALSE
      <3>1. Pow2[f + 1] <= Pow2[e]
        BY <2>1, <2>4, PowersGrow
      <3> QED BY <1>1, <2>2, <3>1
    <2> QED BY <2>1, <2>3, <2>4
  <1> QED BY <1>1 DEF Exponent

\* and every positive one of the range has one.
LEMMA ExponentType ==
  ASSUME NEW n \in Int, n > 0, n < Pow2[MaxExponent + 1]
  PROVE  Exponent(n) \in 0 .. MaxExponent
  <1> DEFINE Found == \E e \in 0 .. MaxExponent : Pow2[e] <= n /\ n < Pow2[e + 1]
             T == {k \in Nat : k <= MaxExponent + 1 /\ n < Pow2[k] => Found}
  <1>0. MaxExponent \in Nat /\ MaxExponent + 1 \in Nat
    BY Widths
  <1> HIDE DEF Found
  <1>1. 0 \in T
    BY AllPowers
  <1>2. ASSUME NEW k \in T PROVE k + 1 \in T
    <2>0. k \in Nat /\ (k <= MaxExponent + 1 /\ n < Pow2[k] => Found)
      OBVIOUS
    <2> SUFFICES ASSUME k + 1 <= MaxExponent + 1, n < Pow2[k + 1] PROVE Found
      BY <2>0
    <2>1. k \in 0 .. MaxExponent /\ k \in 0 .. MaxExponent + 1 /\ k <= MaxExponent + 1
      BY <1>0, <2>0
    <2>2. Pow2[k] \in Int
      BY <2>1, AllPowers
    <2>3. CASE n < Pow2[k]
      BY <2>0, <2>1, <2>3
    <2>4. CASE ~(n < Pow2[k])
      <3>1. Pow2[k] <= n
        BY <2>2, <2>4
      <3> QED BY <2>1, <3>1 DEF Found
    <2> QED BY <2>3, <2>4
  <1> HIDE DEF T
  <1>3. T = Nat
    BY <1>1, <1>2, SetInduction DEF T
  <1>4. Found
    BY <1>0, <1>3 DEF T
  <1> QED BY <1>4 DEF Found, Exponent

LEMMA SignificandType ==
  ASSUME NEW n \in Int, n > 0, n < Pow2[MaxExponent + 1]
  PROVE  Significand(n) \in Int
  <1> DEFINE e == Exponent(n)
  <1>1. e \in 0 .. MaxExponent /\ MaxExponent \in Nat /\ MantissaBits \in Nat
    BY ExponentType, Widths
  <1> HIDE DEF e
  <1>2. CASE e <= MantissaBits
    <2>1. MantissaBits - e \in 0 .. MaxExponent + 1
      BY <1>1, <1>2, Widths
    <2>2. Pow2[MantissaBits - e] \in Int
      BY <2>1, AllPowers
    <2> QED BY <1>2, <2>2 DEF Significand, e
  <1>3. CASE ~(e <= MantissaBits)
    <2>1. e - MantissaBits \in 0 .. MaxExponent + 1
      BY <1>1, <1>3
    <2>2. Pow2[e - MantissaBits] \in Int /\ Pow2[e - MantissaBits] > 0
      BY <2>1, AllPowers
    <2>3. ASSUME NEW d \in Int, d > 0 PROVE Nearest(n, d) \in Int
      BY <2>3 DEF Nearest
    <2> QED BY <1>3, <2>2, <2>3 DEF Significand, e
  <1> QED BY <1>2, <1>3

LEMMA AddedFacts ==
  /\ Added = 3 * Pow2[MantissaBits - 1] /\ Pow2[MantissaBits] = 2 * Pow2[MantissaBits - 1]
  /\ Pow2[MantissaBits + 1] = 4 * Pow2[MantissaBits - 1]
  /\ Pow2[MantissaBits + 1] <= Pow2[MaxExponent]
  /\ Pow2[MaxExponent + 1] = 2 * Pow2[MaxExponent]
  /\ Pow2[MantissaBits - 1] \in Nat /\ Pow2[MantissaBits - 1] > 0 /\ Pow2[MaxExponent] \in Nat
  /\ Added \in Nat
  <1> DEFINE p == MantissaBits - 1
  <1>1. /\ p \in 0 .. MaxExponent /\ p \in 0 .. MaxExponent + 1 /\ p + 1 = MantissaBits
        /\ MantissaBits \in 0 .. MaxExponent
        /\ MaxExponent \in 0 .. MaxExponent /\ MaxExponent \in 0 .. MaxExponent + 1
        /\ MantissaBits + 1 \in Nat /\ MaxExponent \in Nat /\ MantissaBits + 1 <= MaxExponent
        /\ MaxExponent <= MaxExponent + 1
    BY Widths
  <1>2. Pow2[MantissaBits] = 2 * Pow2[p] /\ Pow2[p] \in Nat /\ Pow2[p] > 0
    BY <1>1, AllPowers
  <1>3. Pow2[MantissaBits + 1] = 2 * Pow2[MantissaBits] /\ Pow2[MaxExponent] \in Nat
        /\ Pow2[MaxExponent + 1] = 2 * Pow2[MaxExponent]
    BY <1>1, AllPowers
  <1>4. Pow2[MantissaBits + 1] <= Pow2[MaxExponent]
    BY <1>1, PowersGrow
  <1>5. Added = Pow2[MantissaBits] + Pow2[p]
    BY DEF Added
  <1> HIDE DEF p
  <1>6. Added = 3 * Pow2[p] /\ Pow2[MantissaBits + 1] = 4 * Pow2[p]
    BY <1>2, <1>3, <1>5
  <1> QED BY <1>2, <1>3, <1>4, <1>6 DEF p

\* barg makes a word of every whole number,
LEMMA BargWord ==
  ASSUME NEW a \in Whole
  PROVE  barg(a) \in Word
  <1> DEFINE sum  == a + Added
             size == IF sum < 0 THEN -sum ELSE sum
             b    == IF sum = 0 THEN 0 ELSE Significand(size)
  <1>1. a \in Int /\ a > -Pow2[MaxExponent] /\ a < Pow2[MaxExponent]
    BY AddedFacts DEF Whole
  <1>2. b \in Int
    <2>1. CASE sum = 0
      BY <2>1
    <2>2. CASE sum # 0
      <3>1. sum \in Int /\ size \in Int /\ size > 0 /\ size < Pow2[MaxExponent + 1]
        BY <1>1, <2>2, AddedFacts
      <3> HIDE DEF size
      <3>2. Significand(size) \in Int
        BY <3>1, SignificandType
      <3> QED BY <2>2, <3>2
    <2> QED BY <2>1, <2>2
  <1>3. barg(a) = [k \in Positions |-> (b \div Pow2[k]) % 2]
    BY DEF barg
  <1> HIDE DEF b
  <1>4. ASSUME NEW k \in Positions PROVE (b \div Pow2[k]) % 2 \in 0 .. 1
    <2>1. Pow2[k] \in Int /\ Pow2[k] > 0
      BY WAssumption, Powers DEF Positions
    <2>2. b \div Pow2[k] \in Int
      BY <1>2, <2>1
    <2> QED BY <2>2
  <1> QED BY <1>3, <1>4 DEF Word

\* of one below 2^51 the word of its low bits: the sum has the exponent of 2^52, so its
\* significand is the sum itself, and what has been added has no low bits.
LEMMA BargExact ==
  ASSUME NEW a \in Exact
  PROVE  a \in Whole /\ a \in Int /\ \A k \in Positions : barg(a)[k] = (a \div Pow2[k]) % 2
  <1> DEFINE sum == a + Added
  <1>1. /\ a \in Int /\ a \in Whole
        /\ sum \in Int /\ sum > 0 /\ Pow2[MantissaBits] <= sum /\ sum < Pow2[MantissaBits + 1]
    BY AddedFacts DEF Exact, Whole
  <1>2. Significand(sum) = sum
    <2> HIDE DEF sum
    <2>1. MantissaBits \in 0 .. MaxExponent /\ MantissaBits - MantissaBits = 0
          /\ MantissaBits <= MantissaBits
      BY Widths
    <2>2. Exponent(sum) = MantissaBits
      BY <1>1, <2>1, ExponentIs
    <2> QED BY <1>1, <2>1, <2>2, AllPowers DEF Significand
  <1>3. barg(a) = [k \in Positions |-> (sum \div Pow2[k]) % 2]
    BY <1>1, <1>2 DEF barg
  <1>4. ASSUME NEW k \in Positions PROVE (sum \div Pow2[k]) % 2 = (a \div Pow2[k]) % 2
    <2>0. PICK d \in Nat : d = (MantissaBits - 1) - (k + 1)
      BY Widths DEF Positions
    <2>1. /\ k \in Nat /\ k + 1 \in Nat /\ (k + 1) + d = MantissaBits - 1
          /\ MantissaBits - 1 <= MaxExponent + 1 /\ k \in 0 .. MaxExponent
          /\ k \in 0 .. MaxExponent + 1 /\ d \in 0 .. MaxExponent + 1
      BY <2>0, Widths DEF Positions
    <2>2. Pow2[MantissaBits - 1] = Pow2[k + 1] * Pow2[d]
      BY <2>1, AllPowersMultiply
    <2>3. /\ Pow2[k + 1] = 2 * Pow2[k] /\ Pow2[d] \in Int
          /\ Pow2[k] \in Int /\ Pow2[k] > 0
      BY <2>1, AllPowers
    <2> DEFINE q == a \div Pow2[k]  r == a % Pow2[k]
    <2>4. q \in Int /\ r \in 0 .. Pow2[k] - 1 /\ a = Pow2[k] * q + r
      BY <1>1, <2>3, Divided
    <2> HIDE DEF q, r
    <2>5. sum = Pow2[k] * (q + 2 * (3 * Pow2[d])) + r
      <3>1. \A m, c, w, z \in Int : (m * w + z) + 3 * ((2 * m) * c) = m * (w + 2 * (3 * c)) + z
        OBVIOUS
      <3>2. sum = (Pow2[k] * q + r) + 3 * ((2 * Pow2[k]) * Pow2[d])
        BY <2>2, <2>3, <2>4, AddedFacts
      <3>3. r \in Int
        BY <2>4
      <3> QED BY <2>3, <2>4, <3>1, <3>2, <3>3
    <2> HIDE DEF sum
    <2>6. sum \div Pow2[k] = q + 2 * (3 * Pow2[d])
      <3>1. q + 2 * (3 * Pow2[d]) \in Int /\ r \in Int /\ 0 <= r /\ r < Pow2[k]
        BY <2>3, <2>4
      <3> QED BY <1>1, <2>3, <2>5, <3>1, Quotient, Zenon
    <2> QED BY <2>3, <2>4, <2>6 DEF q
  <1> QED BY <1>1, <1>3, <1>4

-----------------------------------------------------------------------------
(* Words and numbers                                                       *)

LEMMA LowOfBarg ==
  ASSUME NEW a \in Exact, NEW n \in 0 .. W
  PROVE  Low(barg(a))[n] = a % Pow2[n]
  <1> DEFINE b == barg(a)
             T == {m \in Nat : m <= W => Low(b)[m] = a % Pow2[m]}
  <1>0. W \in Nat
    BY WAssumption
  <1>1. a \in Int /\ b \in Word /\ \A k \in Positions : b[k] = (a \div Pow2[k]) % 2
    BY BargWord, BargExact
  <1> HIDE DEF b
  <1>2. 0 \in T
    BY <1>1, LowFacts, Powers
  <1>3. ASSUME NEW m \in T PROVE m + 1 \in T
    <2>0. m \in Nat /\ (m <= W => Low(b)[m] = a % Pow2[m])
      OBVIOUS
    <2> SUFFICES ASSUME m + 1 <= W PROVE Low(b)[m + 1] = a % Pow2[m + 1]
      BY <2>0
    <2>1. m \in 0 .. W - 1 /\ m \in 0 .. W /\ m \in Positions /\ m <= W
      BY <1>0, <2>0 DEF Positions
    <2>2. Low(b)[m + 1] = Low(b)[m] + b[m] * Pow2[m] /\ b[m] \in 0 .. 1
      BY <1>1, <2>1, LowFacts DEF Word
    <2>3. Pow2[m + 1] = 2 * Pow2[m] /\ Pow2[m] \in Int /\ Pow2[m] > 0
      BY <2>1, Powers
    <2>4. a % (2 * Pow2[m]) = (a % Pow2[m]) + Pow2[m] * b[m]
      BY <1>1, <2>1, <2>3, RestOfDouble
    <2>5. b[m] * Pow2[m] = Pow2[m] * b[m]
      BY <2>2, <2>3
    <2> QED BY <2>0, <2>1, <2>2, <2>3, <2>4, <2>5
  <1> HIDE DEF T
  <1>4. T = Nat
    BY <1>2, <1>3, SetInduction DEF T
  <1>5. \A m \in Nat : m <= W => Low(b)[m] = a % Pow2[m]
    BY <1>4 DEF T
  <1> QED BY <1>0, <1>5 DEF b

LEMMA UnsignedOfBarg ==
  ASSUME NEW a \in Exact
  PROVE  Unsigned(barg(a)) = a % Pow2[W]
  <1>1. W \in 0 .. W
    BY WAssumption
  <1> QED BY <1>1, LowOfBarg DEF Unsigned

\* The lowest bits of a count are its rest modulo the width, whatever the others.
LEMMA RestOfRest ==
  ASSUME NEW a \in Int
  PROVE  (a % Pow2[W]) % W = a % W
  <1>0. W \in Int /\ W > 0
    BY Widths
  <1>1. PICK c \in Int : Pow2[W] = W * c
    <2>1. PICK k \in 0 .. W : W = Pow2[k]
      BY WIsPower
    <2>2. PICK d \in Nat : d = W - k
      BY <1>0, <2>1
    <2>3. k \in Nat /\ k + d = W /\ d \in 0 .. W
      BY <1>0, <2>2
    <2>4. Pow2[W] = Pow2[k] * Pow2[d] /\ Pow2[d] \in Int
      BY <2>3, PowersMultiply, Powers
    <2> QED BY <2>1, <2>4
  <1>2. Pow2[W] \in Int /\ Pow2[W] > 0
    BY <1>0, Powers
  <1> DEFINE q == a \div Pow2[W]  r == a % Pow2[W]  h == r \div W  e == r % W
  <1>3. q \in Int /\ r \in Int /\ a = Pow2[W] * q + r
    BY <1>2, Divided
  <1> HIDE DEF q, r
  <1>4. h \in Int /\ e \in 0 .. W - 1 /\ r = W * h + e
    BY <1>0, <1>3, Divided
  <1> HIDE DEF h, e
  <1>5. a = W * (c * q + h) + e
    <2>1. \A w, n, m, s, z \in Int : (w * n) * m + (w * s + z) = w * (n * m + s) + z
      OBVIOUS
    <2>2. a = (W * c) * q + (W * h + e) /\ e \in Int
      BY <1>1, <1>3, <1>4
    <2> QED BY <1>0, <1>1, <1>3, <1>4, <2>1, <2>2
  <1>6. a % W = e
    <2>1. c * q + h \in Int /\ e \in Int /\ 0 <= e /\ e < W
      BY <1>0, <1>1, <1>3, <1>4
    <2> QED BY <1>0, <1>5, <2>1, Quotient, Zenon
  <1> QED BY <1>6 DEF e, r

LEMMA CountOfBarg ==
  ASSUME NEW a \in Exact
  PROVE  ShiftCount(barg(a)) = a % W
  BY UnsignedOfBarg, RestOfRest, BargExact DEF ShiftCount

\* A number below 2^W taken for an SBits
WithSign(n) == IF n >= Pow2[W - 1] THEN n - Pow2[W] ELSE n

LEMMA SignedFacts ==
  ASSUME NEW b \in Word
  PROVE  /\ Signed(b) = WithSign(Unsigned(b))
         /\ Signed(b) \in -Pow2[W - 1] .. Pow2[W - 1] - 1
         /\ b[W - 1] = 1 <=> Unsigned(b) >= Pow2[W - 1]
  <1>0. W \in Nat /\ W - 1 \in 0 .. W - 1 /\ W - 1 \in 0 .. W /\ (W - 1) + 1 = W
    BY WAssumption
  <1>1. Unsigned(b) = Low(b)[W - 1] + b[W - 1] * Pow2[W - 1]
    BY <1>0, LowFacts DEF Unsigned
  <1>2. /\ Pow2[W] = 2 * Pow2[W - 1] /\ Pow2[W - 1] \in Nat
        /\ Low(b)[W - 1] \in 0 .. Pow2[W - 1] - 1
    BY <1>0, Powers, LowFacts
  <1>3. b[W - 1] = 0 \/ b[W - 1] = 1
    BY <1>0 DEF Word, Positions
  <1>4. CASE b[W - 1] = 0
    BY <1>1, <1>2, <1>4 DEF Signed, WithSign
  <1>5. CASE b[W - 1] = 1
    BY <1>1, <1>2, <1>5 DEF Signed, WithSign
  <1> QED BY <1>3, <1>4, <1>5

LEMMA BitOf ==
  ASSUME NEW b \in Word, NEW k \in Positions
  PROVE  Unsigned(bshr(b, k)) = b[k] + 2 * Unsigned(bshr(b, k + 1))
  <1> DEFINE c == bshr(b, k)
  <1>0. /\ W \in Nat /\ k \in 0 .. W /\ k \in Nat /\ 1 \in Nat /\ 1 \in 0 .. W /\ k + 1 <= W
        /\ 0 \in Positions /\ 0 + k < W /\ 0 + k = k /\ 0 \in 0 .. W - 1 /\ k + 1 \in 0 .. W
        /\ 0 + 1 = 1
    BY WAssumption DEF Positions
  <1>1. c \in Word /\ c[0] = b[k]
    BY <1>0, ShiftedBits
  <1>2. bshr(c, 1) = bshr(b, k + 1)
    BY <1>0, ShiftTwice
  <1> HIDE DEF c
  <1>3. Unsigned(c) = Low(c)[1] + Pow2[1] * Unsigned(bshr(c, 1))
    BY <1>0, <1>1, Halves
  <1>4. Low(c)[1] = b[k] /\ Pow2[1] = 2
    <2>1. Low(c)[0 + 1] = Low(c)[0] + c[0] * Pow2[0] /\ Low(c)[0] = 0
      BY <1>0, <1>1, LowFacts
    <2>2. Pow2[0] = 1 /\ Pow2[0 + 1] = 2 * Pow2[0]
      BY <1>0, Powers
    <2>3. b[k] \in Int
      BY DEF Word
    <2> QED BY <1>0, <1>1, <2>1, <2>2, <2>3
  <1> QED BY <1>2, <1>3, <1>4 DEF c

\* An SBits is below 2^51: barg takes it for what it is.
LEMMA SignedExact ==
  ASSUME NEW b \in Word
  PROVE  Signed(b) \in Exact
  <1>1. W - 1 \in Nat /\ W - 1 <= MantissaBits - 1 /\ W - 1 \in 0 .. MaxExponent + 1
        /\ MantissaBits - 1 \in Nat /\ MantissaBits - 1 <= MaxExponent + 1
    BY Widths
  <1>2. Pow2[W - 1] <= Pow2[MantissaBits - 1]
    BY <1>1, PowersGrow
  <1>3. Pow2[W - 1] \in Int /\ Pow2[MantissaBits - 1] \in Int
    BY <1>1, AllPowers, AddedFacts
  <1> QED BY <1>2, <1>3, SignedFacts DEF Exact

\* The bits of the number that BRET makes of a word are the word's: what one function
\* of the library returns the next one takes as it was.
THEOREM WordComesBack ==
  ASSUME NEW b \in Word
  PROVE  barg(BRET(b)) = b /\ Signed(b) \in Int
  <1>0. W \in Nat /\ W \in 0 .. W /\ W - 1 \in Positions
    BY WAssumption DEF Positions
  <1>1. Signed(b) \in Int /\ b[W - 1] \in Int
    <2>1. Unsigned(b) \in Int /\ Pow2[W] \in Int /\ b[W - 1] \in 0 .. 1
      BY <1>0, Halves, Powers DEF Word
    <2> QED BY <2>1 DEF Signed
  <1>2. ASSUME NEW k \in Positions PROVE (Signed(b) \div Pow2[k]) % 2 = b[k]
    <2> DEFINE low  == Low(b)[k]
               q    == Unsigned(bshr(b, k + 1))
               rest == q - b[W - 1] * Pow2[W - (k + 1)]
    <2>0. /\ k \in 0 .. W /\ k \in Nat /\ W - k \in Nat /\ k + (W - k) = W /\ k + 1 \in 0 .. W
          /\ W - (k + 1) \in 0 .. W - 1 /\ W - (k + 1) \in 0 .. W /\ (W - (k + 1)) + 1 = W - k
      BY <1>0 DEF Positions
    <2>1. Unsigned(b) = low + Pow2[k] * Unsigned(bshr(b, k))
      BY <2>0, Halves
    <2>2. Unsigned(bshr(b, k)) = b[k] + 2 * q
      BY BitOf
    <2>3. Pow2[W] = Pow2[k] * (2 * Pow2[W - (k + 1)])
      BY <2>0, PowersMultiply, Powers
    <2>4. low \in 0 .. Pow2[k] - 1 /\ b[k] \in 0 .. 1 /\ Pow2[k] \in Int /\ Pow2[k] > 0
      BY <2>0, LowFacts, Powers DEF Word
    <2>5. q \in Int /\ Pow2[W - (k + 1)] \in Int
      <3>1. bshr(b, k + 1) \in Word
        BY <2>0, ShiftedBits
      <3> QED BY <1>0, <2>0, <3>1, Halves, Powers
    <2> HIDE DEF low, q
    <2>6. rest \in Int
      BY <1>1, <2>5
    <2>7. Signed(b) = Pow2[k] * (b[k] + 2 * rest) + low
      <3>1. \A l, p, a, h, s, t \in Int :
              (l + p * (a + 2 * h)) - s * (p * (2 * t)) = p * (a + 2 * (h - s * t)) + l
        OBVIOUS
      <3>2. low \in Int /\ b[k] \in Int
        BY <2>4
      <3>3. Signed(b) = (low + Pow2[k] * (b[k] + 2 * q)) - b[W - 1] * (Pow2[k] * (2 * Pow2[W - (k + 1)]))
        BY <2>1, <2>2, <2>3 DEF Signed
      <3> QED BY <1>1, <2>4, <2>5, <3>1, <3>2, <3>3
    <2> HIDE DEF rest
    <2>8. Signed(b) \div Pow2[k] = b[k] + 2 * rest
      <3>1. b[k] + 2 * rest \in Int /\ low \in Int /\ 0 <= low /\ low < Pow2[k]
        BY <2>4, <2>6
      <3> QED BY <1>1, <2>4, <2>7, <3>1, Quotient, Zenon
    <2> QED BY <2>4, <2>6, <2>8
  <1>3. barg(Signed(b)) = b
    <2>1. barg(Signed(b)) \in Word /\ \A k \in Positions : barg(Signed(b))[k] = b[k]
      BY <1>2, SignedExact, BargExact, BargWord
    <2> DEFINE c == barg(Signed(b))
    <2> HIDE DEF c
    <2> QED BY <2>1 DEF Word, c
  <1> QED BY <1>1, <1>3 DEF BRET

-----------------------------------------------------------------------------
(* Shifts                                                                  *)

LEMMA Products ==
  ASSUME NEW a \in Int, NEW m \in Int, m > 0, NEW n \in Int, n > 0
  PROVE  /\ (a * n) % (m * n) = n * (a % m)
         /\ (a * n) \div (m * n) = a \div m
  <1> DEFINE q == a \div m  r == a % m
  <1>1. q \in Int /\ r \in 0 .. m - 1 /\ a = m * q + r
    BY Divided
  <1> HIDE DEF q, r
  <1>2. a * n = (m * n) * q + n * r
    BY <1>1
  <1>3. n * r \in Int /\ 0 <= n * r /\ n * r < m * n
    <2>1. r + 1 <= m /\ r \in Int
      BY <1>1
    <2>2. n * (r + 1) <= n * m /\ 0 <= n * r
      BY <1>1, <2>1
    <2>3. n * (r + 1) = n * r + n /\ n * m = m * n /\ n * r \in Int /\ m * n \in Int
      BY <2>1
    <2> QED BY <2>2, <2>3
  <1>4. m * n \in Int /\ m * n > 0 /\ a * n \in Int
    BY Positive
  <1>5. (a * n) \div (m * n) = q /\ (a * n) % (m * n) = n * r
    <2> DEFINE an == a * n  mn == m * n  nr == n * r
    <2>1. /\ an \in Int /\ mn \in Int /\ mn > 0 /\ nr \in Int /\ 0 <= nr /\ nr < mn
          /\ an = mn * q + nr
      BY <1>2, <1>3, <1>4
    <2> HIDE DEF an, mn, nr
    <2>2. an \div mn = q /\ an % mn = nr
      BY <1>1, <2>1, Quotient
    <2> QED BY <2>2 DEF an, mn, nr
  <1> QED BY <1>5 DEF q, r

\* A word multiplied by 2^n: what stays below 2^W and what goes over
LEMMA Turned ==
  ASSUME NEW b \in Word, NEW n \in 0 .. W
  PROVE  /\ (Unsigned(b) * Pow2[n]) % Pow2[W] = Pow2[n] * Low(b)[W - n]
         /\ (Unsigned(b) * Pow2[n]) \div Pow2[W] = Low(bshr(b, W - n))[n]
  <1>0. /\ W \in Nat /\ n \in Nat /\ n \in 0 .. W /\ W - n \in Nat /\ W - n \in 0 .. W
        /\ (W - n) + n = W /\ W - (W - n) = n /\ W \in 0 .. W
    BY WAssumption
  <1>1. Pow2[W] = Pow2[W - n] * Pow2[n]
    BY <1>0, PowersMultiply
  <1>2. /\ Pow2[n] \in Int /\ Pow2[n] > 0 /\ Pow2[W - n] \in Int /\ Pow2[W - n] > 0
        /\ Pow2[W] \in Int
    BY <1>0, Powers
  <1>3. Unsigned(b) \in Int
    BY <1>0, <1>2, Halves
  <1>4. /\ (Unsigned(b) * Pow2[n]) % (Pow2[W - n] * Pow2[n]) = Pow2[n] * (Unsigned(b) % Pow2[W - n])
        /\ (Unsigned(b) * Pow2[n]) \div (Pow2[W - n] * Pow2[n]) = Unsigned(b) \div Pow2[W - n]
    BY <1>2, <1>3, Products, Zenon
  <1>5. /\ Low(b)[W - n] = Unsigned(b) % Pow2[W - n]
        /\ Low(bshr(b, W - n))[n] = Unsigned(b) \div Pow2[W - n]
    <2>1. /\ Low(b)[W - n] = Unsigned(b) % Pow2[W - n]
          /\ Unsigned(bshr(b, W - n)) = Unsigned(b) \div Pow2[W - n]
          /\ Unsigned(bshr(b, W - n)) = Low(bshr(b, W - n))[W - (W - n)]
      BY <1>0, Halves
    <2> QED BY <1>0, <2>1
  <1> QED BY <1>1, <1>4, <1>5, Zenon

\* bit_lshift multiplies.
LEMMA ShlValue ==
  ASSUME NEW b \in Word, NEW n \in Positions
  PROVE  Unsigned(bshl(b, n)) = (Unsigned(b) * Pow2[n]) % Pow2[W]
  <1> DEFINE c == bshl(b, n)
  <1>0. /\ W \in Nat /\ n \in Nat /\ n \in 0 .. W /\ W - n \in Nat /\ W - n \in 0 .. W
        /\ n + (W - n) = W /\ (W - n) + n = W
    BY WAssumption DEF Positions
  <1>1. c \in Word /\ \A k \in Positions : c[k] = IF k >= n THEN b[k - n] ELSE 0
    BY <1>0, ShiftedBits
  <1> HIDE DEF c
  <1>2. Unsigned(c) = Low(c)[n] + Pow2[n] * Low(bshr(c, n))[W - n]
    BY <1>0, <1>1, LowSplit DEF Unsigned
  <1>3. Low(c)[n] = 0
    <2>1. \A k \in 0 .. n - 1 : c[k] = 0
      BY <1>0, <1>1 DEF Positions
    <2> QED BY <1>0, <1>1, <2>1, LowZero
  <1>4. Low(bshr(c, n))[W - n] = Low(b)[W - n]
    <2>1. /\ bshr(c, n) \in Word
          /\ \A k \in Positions : bshr(c, n)[k] = IF k + n < W THEN c[k + n] ELSE 0
      BY <1>0, <1>1, ShiftedBits
    <2>2. ASSUME NEW k \in 0 .. (W - n) - 1 PROVE bshr(c, n)[k] = b[k]
      <3>1. k \in Positions /\ k + n \in Positions /\ k + n < W /\ k + n >= n /\ (k + n) - n = k
        BY <1>0 DEF Positions
      <3> QED BY <1>1, <2>1, <3>1
    <2> QED BY <1>0, <2>1, <2>2, LowAgree
  <1>5. (Unsigned(b) * Pow2[n]) % Pow2[W] = Pow2[n] * Low(b)[W - n]
    BY <1>0, Turned
  <1>6. Pow2[n] \in Int /\ Low(b)[W - n] \in Int
    BY <1>0, Powers, LowFacts
  <1> QED BY <1>2, <1>3, <1>4, <1>5, <1>6 DEF c

LEMMA LowOnes ==
  ASSUME NEW b \in Word, NEW n \in 0 .. W, \A k \in 0 .. n - 1 : b[k] = 1
  PROVE  Low(b)[n] = Pow2[n] - 1
  <1> DEFINE T == {m \in Nat : m <= n => Low(b)[m] = Pow2[m] - 1}
  <1>0. W \in Nat /\ n \in Nat /\ n <= W
    BY WAssumption
  <1>1. 0 \in T
    BY LowFacts, Powers
  <1>2. ASSUME NEW m \in T PROVE m + 1 \in T
    <2>0. m \in Nat /\ (m <= n => Low(b)[m] = Pow2[m] - 1)
      OBVIOUS
    <2> SUFFICES ASSUME m + 1 <= n PROVE Low(b)[m + 1] = Pow2[m + 1] - 1
      BY <2>0
    <2>1. m \in 0 .. W - 1 /\ m \in 0 .. n - 1 /\ m <= n /\ m \in 0 .. W
      BY <1>0, <2>0
    <2>2. Low(b)[m + 1] = Low(b)[m] + b[m] * Pow2[m] /\ Pow2[m] \in Int
          /\ Pow2[m + 1] = 2 * Pow2[m]
      BY <2>1, LowFacts, Powers
    <2> QED BY <2>0, <2>1, <2>2
  <1> HIDE DEF T
  <1>3. T = Nat
    BY <1>1, <1>2, SetInduction DEF T
  <1> QED BY <1>0, <1>3 DEF T

\* bit_arshift divides, rounding down, negative numbers too.
LEMMA SarValue ==
  ASSUME NEW b \in Word, NEW n \in Positions
  PROVE  bsar(b, n) \in Word /\ Signed(bsar(b, n)) = Signed(b) \div Pow2[n]
  <1> DEFINE c == bsar(b, n)
             h == bshr(c, W - n)
             q == Unsigned(bshr(b, n))
             l == Low(b)[n]
  <1>0. /\ W \in Nat /\ n \in Nat /\ n \in 0 .. W /\ W - n \in Nat /\ W - n \in 0 .. W
        /\ (W - n) + n = W /\ W - 1 \in Positions /\ W \in 0 .. W
    BY WAssumption DEF Positions
  <1>1. c \in Word /\ \A k \in Positions : c[k] = IF k + n < W THEN b[k + n] ELSE b[W - 1]
    BY <1>0, ShiftedBits
  <1>2. c[W - 1] = b[W - 1] /\ (b[W - 1] = 0 \/ b[W - 1] = 1)
    <2>1. (W - 1) + n < W => (W - 1) + n = W - 1
      BY <1>0
    <2> QED BY <1>0, <1>1, <2>1 DEF Word
  <1>3. Unsigned(b) = l + Pow2[n] * q /\ q \in Int /\ l \in 0 .. Pow2[n] - 1
    <2>1. bshr(b, n) \in Word
      BY <1>0, ShiftedBits
    <2> QED BY <1>0, <2>1, Halves, LowFacts, Powers
  <1>4. Low(c)[W - n] = q
    <2>1. /\ bshr(b, n) \in Word
          /\ \A k \in Positions : bshr(b, n)[k] = IF k + n < W THEN b[k + n] ELSE 0
      BY <1>0, ShiftedBits
    <2>2. ASSUME NEW k \in 0 .. (W - n) - 1 PROVE c[k] = bshr(b, n)[k]
      <3>1. k \in Positions /\ k + n < W
        BY <1>0 DEF Positions
      <3> QED BY <1>1, <2>1, <3>1
    <2>3. Low(c)[W - n] = Low(bshr(b, n))[W - n]
      BY <1>0, <1>1, <2>1, <2>2, LowAgree
    <2>4. q = Low(bshr(b, n))[W - n]
      BY <1>0, Halves
    <2> QED BY <2>3, <2>4
  <1> HIDE DEF c, q, l
  <1>5. h \in Word /\ \A k \in 0 .. n - 1 : h[k] = b[W - 1]
    <2>1. /\ h \in Word
          /\ \A k \in Positions : h[k] = IF k + (W - n) < W THEN c[k + (W - n)] ELSE 0
      BY <1>0, <1>1, ShiftedBits
    <2>2. ASSUME NEW k \in 0 .. n - 1 PROVE h[k] = b[W - 1]
      <3>1. /\ k \in Positions /\ k + (W - n) < W /\ k + (W - n) \in Positions
            /\ ~((k + (W - n)) + n < W)
        BY <1>0 DEF Positions
      <3>2. h[k] = c[k + (W - n)]
        BY <2>1, <3>1
      <3>3. c[k + (W - n)] = b[W - 1]
        BY <1>1, <3>1
      <3> QED BY <3>2, <3>3
    <2> QED BY <2>1, <2>2
  <1>6. Unsigned(c) = q + Pow2[W - n] * Low(h)[n]
    <2>1. Unsigned(c) = Low(c)[W - n] + Pow2[W - n] * Low(h)[n]
      BY <1>0, <1>1, LowSplit DEF Unsigned
    <2> QED BY <1>4, <2>1
  <1> HIDE DEF h
  <1>7. /\ Pow2[W] = Pow2[W - n] * Pow2[n]
        /\ Pow2[W - n] \in Int /\ Pow2[n] \in Int /\ Pow2[n] > 0 /\ Pow2[W] \in Int
    BY <1>0, PowersMultiply, Powers
  <1>8. CASE b[W - 1] = 0
    <2>1. Low(h)[n] = 0
      BY <1>0, <1>5, <1>8, LowZero
    <2>2. Signed(c) = q /\ Signed(b) = Pow2[n] * q + l
      BY <1>2, <1>3, <1>6, <1>7, <1>8, <2>1 DEF Signed
    <2>3. Signed(b) \in Int /\ l \in Int /\ 0 <= l /\ l < Pow2[n]
      BY <1>3, <1>7, <2>2
    <2>4. Signed(b) \div Pow2[n] = q
      BY <1>3, <1>7, <2>2, <2>3, Quotient, Zenon
    <2> QED BY <2>2, <2>4, <1>1 DEF c
  <1>9. CASE b[W - 1] = 1
    <2>1. Low(h)[n] = Pow2[n] - 1
      BY <1>0, <1>5, <1>9, LowOnes
    <2>2. Signed(c) = q - Pow2[W - n] /\ Signed(b) = Pow2[n] * (q - Pow2[W - n]) + l
      <3>1. Signed(c) = (q + Pow2[W - n] * (Pow2[n] - 1)) - 1 * (Pow2[W - n] * Pow2[n])
        BY <1>2, <1>6, <1>7, <1>9, <2>1 DEF Signed
      <3>2. Signed(b) = (l + Pow2[n] * q) - 1 * (Pow2[W - n] * Pow2[n])
        BY <1>3, <1>7, <1>9 DEF Signed
      <3>3. l \in Int
        BY <1>3, <1>7
      <3>4. \A k, m, o, a \in Int : /\ (k + m * (o - 1)) - 1 * (m * o) = k - m
                                    /\ (a + o * k) - 1 * (m * o) = o * (k - m) + a
        OBVIOUS
      <3> QED BY <1>3, <1>7, <3>1, <3>2, <3>3, <3>4
    <2>3. /\ Signed(b) \in Int /\ l \in Int /\ 0 <= l /\ l < Pow2[n]
          /\ q - Pow2[W - n] \in Int
      BY <1>3, <1>7, <2>2
    <2>4. Signed(b) \div Pow2[n] = q - Pow2[W - n]
      BY <1>7, <2>2, <2>3, Quotient, Zenon
    <2> QED BY <2>2, <2>4, <1>1 DEF c
  <1> QED BY <1>2, <1>8, <1>9

\* bit_bnot
LEMMA NotValue ==
  ASSUME NEW b \in Word
  PROVE  Not(b) \in Word /\ Signed(Not(b)) = -1 - Signed(b)
  <1> DEFINE c == Not(b)
             T == {m \in Nat : m <= W => Low(c)[m] = (Pow2[m] - 1) - Low(b)[m]}
  <1>0. W \in Nat /\ W - 1 \in Positions /\ W \in 0 .. W
    BY WAssumption DEF Positions
  <1>1. c \in Word /\ \A k \in Positions : c[k] = 1 - b[k]
    BY DEF Not, Word
  <1> HIDE DEF c
  <1>2. 0 \in T
    BY <1>1, LowFacts, Powers
  <1>3. ASSUME NEW m \in T PROVE m + 1 \in T
    <2>0. m \in Nat /\ (m <= W => Low(c)[m] = (Pow2[m] - 1) - Low(b)[m])
      OBVIOUS
    <2> SUFFICES ASSUME m + 1 <= W PROVE Low(c)[m + 1] = (Pow2[m + 1] - 1) - Low(b)[m + 1]
      BY <2>0
    <2>1. m \in 0 .. W - 1 /\ m \in Positions /\ m <= W /\ m \in 0 .. W
      BY <1>0, <2>0 DEF Positions
    <2>2. /\ Low(b)[m + 1] = Low(b)[m] + b[m] * Pow2[m] /\ Low(b)[m] \in Int
          /\ Low(c)[m + 1] = Low(c)[m] + c[m] * Pow2[m]
          /\ Pow2[m + 1] = 2 * Pow2[m] /\ Pow2[m] \in Int
      <3>1. Pow2[m + 1] = 2 * Pow2[m] /\ Pow2[m] \in Int
        BY <2>1, Powers
      <3>2. Low(b)[m + 1] = Low(b)[m] + b[m] * Pow2[m] /\ Low(b)[m] \in Int
        BY <2>1, <3>1, LowFacts
      <3>3. Low(c)[m + 1] = Low(c)[m] + c[m] * Pow2[m]
        BY <1>1, <2>1, LowFacts
      <3> QED BY <3>1, <3>2, <3>3
    <2>3. c[m] = 1 - b[m] /\ (b[m] = 0 \/ b[m] = 1)
      BY <1>1, <2>1 DEF Word
    <2>4. CASE b[m] = 0
      BY <2>0, <2>1, <2>2, <2>3, <2>4
    <2>5. CASE b[m] = 1
      BY <2>0, <2>1, <2>2, <2>3, <2>5
    <2> QED BY <2>3, <2>4, <2>5
  <1> HIDE DEF T
  <1>4. T = Nat
    BY <1>2, <1>3, SetInduction DEF T
  <1>5. Unsigned(c) = (Pow2[W] - 1) - Unsigned(b)
    BY <1>0, <1>4 DEF T, Unsigned
  <1>6. Unsigned(b) \in Int /\ Pow2[W] \in Int
    BY <1>0, Halves, Powers
  <1>7. c[W - 1] = 1 - b[W - 1] /\ (b[W - 1] = 0 \/ b[W - 1] = 1)
    BY <1>0, <1>1 DEF Word
  <1>8. CASE b[W - 1] = 0
    BY <1>1, <1>5, <1>6, <1>7, <1>8 DEF Signed, c
  <1>9. CASE b[W - 1] = 1
    BY <1>1, <1>5, <1>6, <1>7, <1>9 DEF Signed, c
  <1> QED BY <1>7, <1>8, <1>9

-----------------------------------------------------------------------------
(* Rotations                                                               *)

\* What both operands of brol's | put together: the bits, moved round by n.
LEMMA RolBits ==
  ASSUME NEW b \in Word, NEW n \in Positions
  PROVE  brol(b, n) = {[k \in Positions |-> IF k >= n THEN b[k - n] ELSE b[k + W - n]]}
<1> USE WAssumption DEF Positions, Word
<1>1. CASE n = 0
  <2>1. bshl(b, 0) = b
    BY SMT DEF bshl
  <2>2. Or(b, b) = b /\ Or(b, Zero) = b
    BY SMT DEF Or, Zero
  <2>3. brol(b, n) = {b}
    BY <1>1, <2>1, <2>2, Zenon DEF brol, ByTheRest
  <2>4. b = [k \in Positions |-> IF k >= n THEN b[k - n] ELSE b[k + W - n]]
    BY <1>1, SMT
  <2> QED BY <2>3, <2>4
<1>2. CASE n # 0
  <2> DEFINE rest == bshr(b, W - n)
             moved == [k \in Positions |-> IF k >= n THEN b[k - n] ELSE b[k + W - n]]
  <2>1. brol(b, n) = {Or(bshl(b, n), rest)}
    BY <1>2, Zenon DEF brol, ByTheRest
  <2>2. ASSUME NEW k \in Positions PROVE Or(bshl(b, n), rest)[k] = moved[k]
    <3>1. bshl(b, n)[k] = IF k >= n THEN b[k - n] ELSE 0
      BY SMT DEF bshl
    <3>2. rest[k] = IF k < n THEN b[k + W - n] ELSE 0
      BY <1>2, SMT DEF bshr
    <3>3. Or(bshl(b, n), rest)[k] = IF bshl(b, n)[k] = 1 THEN 1 ELSE rest[k]
      BY SMT DEF Or
    <3>4. CASE k >= n
      <4>1. b[k - n] \in 0 .. 1
        BY <3>4, SMT
      <4> QED BY <3>1, <3>2, <3>3, <3>4, <4>1, SMT
    <3>5. CASE k < n
      BY <3>1, <3>2, <3>3, <3>5, SMT
    <3> QED BY <3>4, <3>5, SMT
  <2>3. Or(bshl(b, n), rest) = moved
    BY <2>2, SMT DEF Or
  <2> QED BY <2>1, <2>3
<1> QED BY <1>1, <1>2

\* The same for bror
LEMMA RorBits ==
  ASSUME NEW b \in Word, NEW n \in Positions
  PROVE  bror(b, n) = {[k \in Positions |-> IF k + n < W THEN b[k + n] ELSE b[k + n - W]]}
<1> USE WAssumption DEF Positions, Word
<1>1. CASE n = 0
  <2>1. bshr(b, 0) = b
    BY SMT DEF bshr
  <2>2. Or(b, b) = b /\ Or(Zero, b) = b
    BY SMT DEF Or, Zero
  <2>3. bror(b, n) = {b}
    BY <1>1, <2>1, <2>2, Zenon DEF bror, ByTheRest
  <2>4. b = [k \in Positions |-> IF k + n < W THEN b[k + n] ELSE b[k + n - W]]
    BY <1>1, SMT
  <2> QED BY <2>3, <2>4
<1>2. CASE n # 0
  <2> DEFINE rest == bshl(b, W - n)
             moved == [k \in Positions |-> IF k + n < W THEN b[k + n] ELSE b[k + n - W]]
  <2>1. bror(b, n) = {Or(rest, bshr(b, n))}
    BY <1>2, Zenon DEF bror, ByTheRest
  <2>2. ASSUME NEW k \in Positions PROVE Or(rest, bshr(b, n))[k] = moved[k]
    <3>1. bshr(b, n)[k] = IF k + n < W THEN b[k + n] ELSE 0
      BY SMT DEF bshr
    <3>2. rest[k] = IF k + n >= W THEN b[k + n - W] ELSE 0
      BY <1>2, SMT DEF bshl
    <3>3. Or(rest, bshr(b, n))[k] = IF rest[k] = 1 THEN 1 ELSE bshr(b, n)[k]
      BY SMT DEF Or
    <3>4. CASE k + n >= W
      <4>1. b[k + n - W] \in 0 .. 1
        BY <3>4, SMT
      <4> QED BY <3>1, <3>2, <3>3, <3>4, <4>1, SMT
    <3>5. CASE k + n < W
      BY <3>1, <3>2, <3>3, <3>5, SMT
    <3> QED BY <3>4, <3>5, SMT
  <2>3. Or(rest, bshr(b, n)) = moved
    BY <2>2, SMT DEF Or
  <2> QED BY <2>1, <2>3
<1> QED BY <1>1, <1>2

\* profibit.c: bit_ror takes back what bit_rol did, for every word of every width and
\* every count the mask lets through, by no bit included: the shift by the whole width
\* that C leaves undefined there does not matter.
THEOREM RotateBack ==
  \A b \in Word, n \in Positions : \A r \in brol(b, n) : bror(r, n) = {b}
<1> SUFFICES ASSUME NEW b \in Word, NEW n \in Positions, NEW r \in brol(b, n)
             PROVE  bror(r, n) = {b}
  OBVIOUS
<1>1. r = [k \in Positions |-> IF k >= n THEN b[k - n] ELSE b[k + W - n]]
  BY RolBits
<1>2. r \in Word
  BY <1>1, WAssumption, SMT DEF Word, Positions
<1>3. bror(r, n) = {[k \in Positions |-> IF k + n < W THEN r[k + n] ELSE r[k + n - W]]}
  BY <1>2, RorBits
<1>4. [k \in Positions |-> IF k + n < W THEN r[k + n] ELSE r[k + n - W]] = b
  BY <1>1, WAssumption, SMT DEF Word, Positions
<1> QED BY <1>3, <1>4

\* brol after bror
LEMMA RotateForth ==
  \A b \in Word, n \in Positions : \A r \in bror(b, n) : brol(r, n) = {b}
<1> SUFFICES ASSUME NEW b \in Word, NEW n \in Positions, NEW r \in bror(b, n)
             PROVE  brol(r, n) = {b}
  OBVIOUS
<1>1. r = [k \in Positions |-> IF k + n < W THEN b[k + n] ELSE b[k + n - W]]
  BY RorBits
<1>2. r \in Word
  BY <1>1, WAssumption, SMT DEF Word, Positions
<1>3. brol(r, n) = {[k \in Positions |-> IF k >= n THEN r[k - n] ELSE r[k + W - n]]}
  BY <1>2, RolBits
<1>4. [k \in Positions |-> IF k >= n THEN r[k - n] ELSE r[k + W - n]] = b
  BY <1>1, WAssumption, SMT DEF Word, Positions
<1> QED BY <1>3, <1>4

LEMMA RotatedWords ==
  ASSUME NEW b \in Word, NEW n \in Positions
  PROVE  brol(b, n) \subseteq Word /\ bror(b, n) \subseteq Word
  <1>1. [k \in Positions |-> IF k >= n THEN b[k - n] ELSE b[k + W - n]] \in Word
    BY WAssumption DEF Word, Positions
  <1>2. [k \in Positions |-> IF k + n < W THEN b[k + n] ELSE b[k + n - W]] \in Word
    BY WAssumption DEF Word, Positions
  <1>3. brol(b, n) = {[k \in Positions |-> IF k >= n THEN b[k - n] ELSE b[k + W - n]]}
    BY RolBits
  <1>4. bror(b, n) = {[k \in Positions |-> IF k + n < W THEN b[k + n] ELSE b[k + n - W]]}
    BY RorBits
  <1> QED BY <1>1, <1>2, <1>3, <1>4, Zenon

\* bit_rol multiplies, and adds what goes over.
LEMMA RolValue ==
  ASSUME NEW b \in Word, NEW n \in Positions, NEW r \in brol(b, n)
  PROVE  Unsigned(r) = ((Unsigned(b) * Pow2[n]) % Pow2[W])
                         + ((Unsigned(b) * Pow2[n]) \div Pow2[W])
  <1>0. /\ W \in Nat /\ n \in Nat /\ n \in 0 .. W /\ W - n \in Nat /\ W - n \in 0 .. W
        /\ n + (W - n) = W
    BY WAssumption DEF Positions
  <1>1. r \in Word /\ r = [k \in Positions |-> IF k >= n THEN b[k - n] ELSE b[k + W - n]]
    BY RolBits, RotatedWords
  <1>2. Unsigned(r) = Low(r)[n] + Pow2[n] * Low(bshr(r, n))[W - n]
    BY <1>0, <1>1, LowSplit DEF Unsigned
  <1>3. Low(r)[n] = Low(bshr(b, W - n))[n]
    <2>1. /\ bshr(b, W - n) \in Word
          /\ \A k \in Positions : bshr(b, W - n)[k] = IF k + (W - n) < W THEN b[k + (W - n)] ELSE 0
      BY <1>0, ShiftedBits
    <2>2. ASSUME NEW k \in 0 .. n - 1 PROVE r[k] = bshr(b, W - n)[k]
      <3>1. k \in Positions /\ ~(k >= n) /\ k + (W - n) < W /\ k + (W - n) = k + W - n
        BY <1>0 DEF Positions
      <3> QED BY <1>1, <2>1, <3>1
    <2> QED BY <1>0, <1>1, <2>1, <2>2, LowAgree
  <1>4. Low(bshr(r, n))[W - n] = Low(b)[W - n]
    <2>1. /\ bshr(r, n) \in Word
          /\ \A k \in Positions : bshr(r, n)[k] = IF k + n < W THEN r[k + n] ELSE 0
      BY <1>0, <1>1, ShiftedBits
    <2>2. ASSUME NEW k \in 0 .. (W - n) - 1 PROVE bshr(r, n)[k] = b[k]
      <3>1. k \in Positions /\ k + n \in Positions /\ k + n < W /\ k + n >= n /\ (k + n) - n = k
        BY <1>0 DEF Positions
      <3> QED BY <1>1, <2>1, <3>1
    <2> QED BY <1>0, <2>1, <2>2, LowAgree
  <1>5. /\ (Unsigned(b) * Pow2[n]) % Pow2[W] = Pow2[n] * Low(b)[W - n]
        /\ (Unsigned(b) * Pow2[n]) \div Pow2[W] = Low(bshr(b, W - n))[n]
    BY <1>0, Turned
  <1>6. Pow2[n] \in Int /\ Low(b)[W - n] \in Int /\ Low(bshr(b, W - n))[n] \in Int
    <2>1. bshr(b, W - n) \in Word
      BY <1>0, ShiftedBits
    <2> QED BY <1>0, <2>1, Powers, LowFacts
  <1> QED BY <1>2, <1>3, <1>4, <1>5, <1>6

-----------------------------------------------------------------------------
(* bit_bswap                                                               *)

LEMMA SwapBits ==
  ASSUME NEW b \in Word, NEW q, q = W \div 4
  PROVE  /\ q \in Nat /\ W = 4 * q /\ q > 0
         /\ bit_bswap(b) \in Word
         /\ \A k \in Positions : bit_bswap(b)[k] =
              IF k < q THEN b[k + 3 * q] ELSE IF k < 2 * q THEN b[k + q]
              ELSE IF k < 3 * q THEN b[k - q] ELSE b[k - 3 * q]
  <1>0. W \in Nat /\ q \in Nat /\ W = 4 * q /\ q > 0 /\ W \div 2 = 2 * q
    BY WAssumption
  <1>1. q \in 0 .. W /\ 3 * q \in 0 .. W
    BY <1>0
  <1>2. Byte1 \in Word /\ \A k \in Positions : Byte1[k] = IF k >= q /\ k < 2 * q THEN 1 ELSE 0
    BY <1>0 DEF Byte1, Word, Positions
  <1> DEFINE masked == And(b, Byte1)
             a1 == bshr(b, 3 * q)
             a2 == And(bshr(b, q), Byte1)
             a3 == bshl(masked, q)
             a4 == bshl(b, 3 * q)
             sw == Or(Or(Or(a1, a2), a3), a4)
  <1>3. bit_bswap(b) = sw
    BY Zenon DEF bit_bswap
  <1>4. masked \in Word /\ \A k \in Positions : masked[k] = IF k >= q /\ k < 2 * q THEN b[k] ELSE 0
    <2>1. ASSUME NEW k \in Positions
          PROVE  b[k] * Byte1[k] = IF k >= q /\ k < 2 * q THEN b[k] ELSE 0
      <3>1. b[k] \in 0 .. 1 /\ (Byte1[k] = 0 \/ Byte1[k] = 1)
        BY <1>2 DEF Word
      <3> QED BY <1>2, <3>1
    <2>2. \A k \in Positions : b[k] \in 0 .. 1
      BY DEF Word
    <2> QED BY <2>1, <2>2 DEF And, Word
  <1>5. a1 \in Word /\ \A k \in Positions : a1[k] = IF k + 3 * q < W THEN b[k + 3 * q] ELSE 0
    BY <1>1, ShiftedBits
  <1>6. a2 \in Word /\ \A k \in Positions : a2[k] = IF k >= q /\ k < 2 * q THEN b[k + q] ELSE 0
    <2>1. /\ bshr(b, q) \in Word
          /\ \A k \in Positions : bshr(b, q)[k] = IF k + q < W THEN b[k + q] ELSE 0
      BY <1>1, ShiftedBits
    <2>2. ASSUME NEW k \in Positions
          PROVE  bshr(b, q)[k] * Byte1[k] = IF k >= q /\ k < 2 * q THEN b[k + q] ELSE 0
      <3>1. bshr(b, q)[k] \in 0 .. 1
        BY <2>1 DEF Word
      <3>2. CASE k >= q /\ k < 2 * q
        <4>1. Byte1[k] = 1 /\ k + q < W
          BY <1>0, <1>2, <3>2 DEF Positions
        <4> QED BY <2>1, <3>1, <3>2, <4>1
      <3>3. CASE ~(k >= q /\ k < 2 * q)
        <4>1. Byte1[k] = 0
          BY <1>2, <3>3
        <4> QED BY <3>1, <3>3, <4>1
      <3> QED BY <3>2, <3>3
    <2>3. \A k \in Positions : bshr(b, q)[k] * Byte1[k] \in 0 .. 1
      <3>1. ASSUME NEW k \in Positions, k >= q, k < 2 * q PROVE b[k + q] \in 0 .. 1
        <4>1. k + q \in Positions
          BY <1>0, <3>1 DEF Positions
        <4> QED BY <4>1 DEF Word
      <3> QED BY <2>2, <3>1
    <2> QED BY <2>2, <2>3 DEF And, Word
  <1> HIDE DEF masked, a1, a2
  <1>7. a3 \in Word /\ \A k \in Positions : a3[k] = IF k >= q THEN masked[k - q] ELSE 0
    BY <1>1, <1>4, ShiftedBits
  <1>8. a4 \in Word /\ \A k \in Positions : a4[k] = IF k >= 3 * q THEN b[k - 3 * q] ELSE 0
    BY <1>1, ShiftedBits
  <1> HIDE DEF a3, a4
  <1>9. ASSUME NEW k \in Positions
        PROVE  sw[k] = IF a1[k] = 1 THEN 1 ELSE IF a2[k] = 1 THEN 1 ELSE
                       IF a3[k] = 1 THEN 1 ELSE a4[k]
    BY DEF Or
  <1>10. sw = [k \in Positions |-> sw[k]]
    BY DEF Or
  <1> HIDE DEF sw
  <1>11. ASSUME NEW k \in Positions
         PROVE  /\ sw[k] \in 0 .. 1
                /\ sw[k] = IF k < q THEN b[k + 3 * q] ELSE IF k < 2 * q THEN b[k + q]
                           ELSE IF k < 3 * q THEN b[k - q] ELSE b[k - 3 * q]
    <2>0. k \in Int /\ 0 <= k /\ k < W
      BY <1>0 DEF Positions
    <2>1. CASE k < q
      <3>1. k + 3 * q \in Positions /\ k + 3 * q < W /\ ~(k >= q) /\ ~(k >= 3 * q)
        BY <1>0, <2>0, <2>1 DEF Positions
      <3>2. a1[k] = b[k + 3 * q] /\ a2[k] = 0 /\ a3[k] = 0 /\ a4[k] = 0 /\ b[k + 3 * q] \in 0 .. 1
        BY <1>5, <1>6, <1>7, <1>8, <3>1 DEF Word
      <3> QED BY <1>9, <2>1, <3>2
    <2>2. CASE k >= q /\ k < 2 * q
      <3>1. /\ k + q \in Positions /\ ~(k + 3 * q < W) /\ ~(k >= 3 * q)
            /\ k - q \in Positions /\ ~(k - q >= q) /\ ~(k < q)
        BY <1>0, <2>0, <2>2 DEF Positions
      <3>2. a1[k] = 0 /\ a2[k] = b[k + q] /\ a4[k] = 0 /\ b[k + q] \in 0 .. 1
        BY <1>5, <1>6, <1>8, <2>2, <3>1 DEF Word
      <3>3. a3[k] = 0
        BY <1>4, <1>7, <2>2, <3>1
      <3> QED BY <1>9, <2>2, <3>1, <3>2, <3>3
    <2>3. CASE k >= 2 * q /\ k < 3 * q
      <3>1. /\ ~(k + 3 * q < W) /\ ~(k >= 3 * q) /\ k >= q /\ ~(k < 2 * q)
            /\ k - q \in Positions /\ k - q >= q /\ k - q < 2 * q /\ ~(k < q)
        BY <1>0, <2>0, <2>3 DEF Positions
      <3>2. a1[k] = 0 /\ a2[k] = 0 /\ a4[k] = 0
        BY <1>5, <1>6, <1>8, <3>1
      <3>3. a3[k] = b[k - q] /\ b[k - q] \in 0 .. 1
        BY <1>4, <1>7, <3>1 DEF Word
      <3> QED BY <1>9, <2>3, <3>1, <3>2, <3>3
    <2>4. CASE k >= 3 * q
      <3>1. /\ ~(k + 3 * q < W) /\ k >= q /\ ~(k < 2 * q) /\ k - 3 * q \in Positions
            /\ k - q \in Positions /\ ~(k - q < 2 * q) /\ ~(k < q) /\ ~(k < 3 * q)
        BY <1>0, <2>0, <2>4 DEF Positions
      <3>2. a1[k] = 0 /\ a2[k] = 0 /\ a4[k] = b[k - 3 * q] /\ b[k - 3 * q] \in 0 .. 1
        BY <1>5, <1>6, <1>8, <2>4, <3>1 DEF Word
      <3>3. a3[k] = 0
        BY <1>4, <1>7, <3>1
      <3> QED BY <1>9, <2>4, <3>1, <3>2, <3>3
    <2> QED BY <1>0, <2>0, <2>1, <2>2, <2>3, <2>4
  <1>12. sw \in Word
    BY <1>10, <1>11 DEF Word
  <1> QED BY <1>0, <1>3, <1>11, <1>12

LEMMA SwapTwice ==
  ASSUME NEW b \in Word
  PROVE  bit_bswap(bit_bswap(b)) = b
  <1> DEFINE q == W \div 4  c == bit_bswap(b)  d == bit_bswap(c)
  <1>1. /\ q \in Nat /\ W = 4 * q /\ q > 0 /\ c \in Word
        /\ \A k \in Positions : c[k] =
             IF k < q THEN b[k + 3 * q] ELSE IF k < 2 * q THEN b[k + q]
             ELSE IF k < 3 * q THEN b[k - q] ELSE b[k - 3 * q]
    BY SwapBits
  <1> HIDE DEF c
  <1>2. /\ d \in Word
        /\ \A k \in Positions : d[k] =
             IF k < q THEN c[k + 3 * q] ELSE IF k < 2 * q THEN c[k + q]
             ELSE IF k < 3 * q THEN c[k - q] ELSE c[k - 3 * q]
    BY <1>1, SwapBits
  <1> HIDE DEF d, q
  <1>3. ASSUME NEW k \in Positions PROVE d[k] = b[k]
    <2>0. k \in Int /\ 0 <= k /\ k < 4 * q
      BY <1>1 DEF Positions
    <2>1. CASE k < q
      <3>1. /\ k + 3 * q \in Positions /\ ~(k + 3 * q < q) /\ ~(k + 3 * q < 2 * q)
            /\ ~(k + 3 * q < 3 * q) /\ (k + 3 * q) - 3 * q = k
        BY <1>1, <2>0, <2>1 DEF Positions
      <3> QED BY <1>1, <1>2, <2>1, <3>1
    <2>2. CASE k >= q /\ k < 2 * q
      <3>1. /\ k + q \in Positions /\ ~(k + q < q) /\ ~(k + q < 2 * q) /\ k + q < 3 * q
            /\ (k + q) - q = k /\ ~(k < q)
        BY <1>1, <2>0, <2>2 DEF Positions
      <3> QED BY <1>1, <1>2, <2>2, <3>1
    <2>3. CASE k >= 2 * q /\ k < 3 * q
      <3>1. /\ k - q \in Positions /\ ~(k - q < q) /\ k - q < 2 * q /\ (k - q) + q = k
            /\ ~(k < q) /\ ~(k < 2 * q)
        BY <1>1, <2>0, <2>3 DEF Positions
      <3> QED BY <1>1, <1>2, <2>3, <3>1
    <2>4. CASE k >= 3 * q
      <3>1. /\ k - 3 * q \in Positions /\ k - 3 * q < q /\ (k - 3 * q) + 3 * q = k
            /\ ~(k < q) /\ ~(k < 2 * q) /\ ~(k < 3 * q)
        BY <1>1, <2>0, <2>4 DEF Positions
      <3> QED BY <1>1, <1>2, <2>4, <3>1
    <2> QED BY <1>1, <2>0, <2>1, <2>2, <2>3, <2>4
  <1>4. d = b
    BY <1>2, <1>3 DEF Word
  <1> QED BY <1>4 DEF d, c

\* The lowest bits of what BRET returns are the word's.
LEMMA LowOfSigned ==
  ASSUME NEW b \in Word, NEW n \in 0 .. W
  PROVE  BRET(b) % Pow2[n] = Low(b)[n]
  BY WordComesBack, SignedExact, LowOfBarg DEF BRET

\* The highest byte comes out lowest.
LEMMA SwapLow ==
  ASSUME NEW b \in Word
  PROVE  BRET(bit_bswap(b)) % Pow2[W \div 4] = Unsigned(b) \div Pow2[3 * (W \div 4)]
  <1> DEFINE q == W \div 4  c == bit_bswap(b)  h == bshr(b, 3 * q)
  <1>1. /\ q \in Nat /\ W = 4 * q /\ q > 0 /\ c \in Word
        /\ \A k \in Positions : c[k] =
             IF k < q THEN b[k + 3 * q] ELSE IF k < 2 * q THEN b[k + q]
             ELSE IF k < 3 * q THEN b[k - q] ELSE b[k - 3 * q]
    BY SwapBits
  <1> HIDE DEF c, q
  <1>2. q \in 0 .. W /\ 3 * q \in 0 .. W /\ W - 3 * q = q
    BY <1>1
  <1>3. BRET(c) % Pow2[q] = Low(c)[q]
    BY <1>1, <1>2, LowOfSigned
  <1>4. h \in Word /\ \A k \in Positions : h[k] = IF k + 3 * q < W THEN b[k + 3 * q] ELSE 0
    BY <1>2, ShiftedBits
  <1>5. Unsigned(h) = Unsigned(b) \div Pow2[3 * q] /\ Unsigned(h) = Low(h)[W - 3 * q]
    BY <1>2, Halves
  <1> HIDE DEF h
  <1>6. Low(c)[q] = Low(h)[q]
    <2>1. ASSUME NEW k \in 0 .. q - 1 PROVE c[k] = h[k]
      <3>1. k \in Positions /\ k + 3 * q < W /\ k < q
        BY <1>1 DEF Positions
      <3> QED BY <1>1, <1>4, <3>1
    <2> QED BY <1>1, <1>2, <1>4, <2>1, LowAgree
  <1> QED BY <1>2, <1>3, <1>5, <1>6 DEF c, q

-----------------------------------------------------------------------------
(* Digits                                                                  *)

\* A digit is a piece of the word.
LEMMA DigitValue ==
  ASSUME NEW b \in Word, NEW bits \in 1 .. W, NEW d \in Nat, d * bits \in Nat,
         d * bits + bits <= W
  PROVE  /\ Digit(b, d, bits) = Low(bshr(b, d * bits))[bits]
         /\ Digit(b, d, bits) \in 0 .. Pow2[bits] - 1
  <1> DEFINE from == d * bits
             m == [k \in Positions |-> IF k < bits THEN b[k + from] ELSE 0]
             h == bshr(b, from)
  <1>0. /\ W \in Nat /\ bits \in 0 .. W /\ bits \in Nat /\ from \in Nat /\ from + bits <= W
        /\ from \in 0 .. W /\ W - bits \in 0 .. W
    BY WAssumption
  <1>1. Digit(b, d, bits) = Unsigned(m)
    BY DEF Digit
  <1> HIDE DEF from
  <1>2. m \in Word /\ \A k \in Positions : m[k] = IF k < bits THEN b[k + from] ELSE 0
    <2>1. ASSUME NEW k \in Positions, k < bits PROVE b[k + from] \in 0 .. 1
      <3>1. k + from \in Positions
        BY <1>0, <2>1 DEF Positions
      <3> QED BY <3>1 DEF Word
    <2> QED BY <2>1 DEF Word
  <1>3. h \in Word /\ \A k \in Positions : h[k] = IF k + from < W THEN b[k + from] ELSE 0
    BY <1>0, ShiftedBits
  <1> HIDE DEF m, h
  <1>4. Unsigned(m) = Low(m)[bits] + Pow2[bits] * Low(bshr(m, bits))[W - bits]
    BY <1>0, <1>2, Halves
  <1>5. Low(bshr(m, bits))[W - bits] = 0
    <2>1. /\ bshr(m, bits) \in Word
          /\ \A k \in Positions : bshr(m, bits)[k] = IF k + bits < W THEN m[k + bits] ELSE 0
      BY <1>0, <1>2, ShiftedBits
    <2>2. ASSUME NEW k \in 0 .. (W - bits) - 1 PROVE bshr(m, bits)[k] = 0
      <3>1. k \in Positions /\ k + bits \in Positions /\ ~(k + bits < bits)
        BY <1>0 DEF Positions
      <3> QED BY <1>2, <2>1, <3>1
    <2> QED BY <1>0, <2>1, <2>2, LowZero
  <1>6. Low(m)[bits] = Low(h)[bits]
    <2>1. ASSUME NEW k \in 0 .. bits - 1 PROVE m[k] = h[k]
      <3>1. k \in Positions /\ k + from < W /\ k < bits
        BY <1>0 DEF Positions
      <3> QED BY <1>2, <1>3, <3>1
    <2> QED BY <1>0, <1>2, <1>3, <2>1, LowAgree
  <1>7. Pow2[bits] \in Int /\ Low(h)[bits] \in 0 .. Pow2[bits] - 1
    BY <1>0, <1>3, Powers, LowFacts
  <1>8. Unsigned(m) = Low(h)[bits]
    BY <1>4, <1>5, <1>6, <1>7
  <1> QED BY <1>1, <1>7, <1>8 DEF h, from

LEMMA Places ==
  ASSUME NEW e \in Nat, NEW bits \in Nat, NEW k \in Nat
  PROVE  /\ (e + 1) * bits = e * bits + bits /\ bits * (k + 1) = bits + bits * k
         /\ e * bits \in Nat /\ bits * k \in Nat
         /\ bits * ((e + 1) + k) = (e * bits + bits) + bits * k
  OBVIOUS

\* f[k] is what the first k of the n digits of a word make.
Reads(f, b, bits, n) ==
  /\ f[0] = 0
  /\ \A k \in 1 .. n : f[k] = f[k - 1] * Pow2[bits] + Digit(b, n - k, bits)

\* n digits, most significant first, read back are the lowest n * bits bits.
LEMMA DigitsRead ==
  ASSUME NEW b \in Word, NEW bits \in 1 .. W, NEW n \in Nat, bits * n <= W,
         NEW f, Reads(f, b, bits, n)
  PROVE  f[n] = Unsigned(b) % Pow2[bits * n]
  <1> DEFINE Rest(k) == Low(bshr(b, (n - k) * bits))[bits * k]
             T == {k \in Nat : k <= n => f[k] = Rest(k)}
  <1>0. W \in Nat /\ bits \in Nat /\ bits > 0 /\ n \in Nat /\ bits * n \in 0 .. W
    <2>1. bits * n \in Nat
      OBVIOUS
    <2> QED BY <2>1, WAssumption
  <1>1. /\ f[0] = 0
        /\ \A k \in 1 .. n : f[k] = f[k - 1] * Pow2[bits] + Digit(b, n - k, bits)
    BY DEF Reads
  <1>2. 0 \in T
    <2>1. n * bits \in 0 .. W /\ (n - 0) * bits = n * bits /\ bits * 0 = 0
      BY <1>0
    <2>2. bshr(b, n * bits) \in Word
      BY <2>1, ShiftedBits
    <2> QED BY <1>1, <2>1, <2>2, LowFacts
  <1>3. ASSUME NEW k \in T PROVE k + 1 \in T
    <2>0. k \in Nat /\ (k <= n => f[k] = Rest(k))
      OBVIOUS
    <2> SUFFICES ASSUME k + 1 <= n PROVE f[k + 1] = Rest(k + 1)
      BY <2>0
    <2> DEFINE e == n - (k + 1)  from == e * bits  c == bshr(b, from)
    <2>1. e \in Nat /\ k + 1 \in 1 .. n /\ (k + 1) - 1 = k /\ k <= n /\ n - k = e + 1
          /\ n = (e + 1) + k
      BY <2>0
    <2>2. /\ from \in Nat /\ (n - k) * bits = from + bits /\ bits * (k + 1) = bits + bits * k
          /\ bits * k \in Nat /\ bits * n = (from + bits) + bits * k
          /\ e * bits \in Nat /\ from = e * bits
      <3> HIDE DEF e
      <3>1. /\ (e + 1) * bits = e * bits + bits /\ bits * (k + 1) = bits + bits * k
            /\ e * bits \in Nat /\ bits * k \in Nat
            /\ bits * ((e + 1) + k) = (e * bits + bits) + bits * k
        BY <1>0, <2>0, <2>1, Places
      <3> HIDE DEF from
      <3>2. from = e * bits
        BY DEF from
      <3> QED BY <2>1, <3>1, <3>2
    <2>3. f[k + 1] = f[k] * Pow2[bits] + Digit(b, e, bits)
      <3>1. f[k + 1] = f[(k + 1) - 1] * Pow2[bits] + Digit(b, n - (k + 1), bits)
        BY <1>1, <2>1
      <3> QED BY <2>1, <3>1
    <2>4. f[k] = Low(bshr(b, from + bits))[bits * k]
      BY <2>0, <2>1, <2>2
    <2> HIDE DEF e
    <2> HIDE DEF from
    <2>5. Digit(b, e, bits) = Low(c)[bits]
      <3>1. e * bits \in Nat /\ e * bits + bits <= W
        BY <1>0, <2>2
      <3> QED BY <2>1, <2>2, <3>1, DigitValue
    <2>6. from + bits <= W /\ from \in 0 .. W /\ bits + bits * k <= W /\ from + bits \in 0 .. W
          /\ bits \in 0 .. W /\ bits * k \in 0 .. W
      BY <1>0, <2>2
    <2>7. c \in Word /\ bshr(c, bits) = bshr(b, from + bits)
      BY <1>0, <2>2, <2>6, ShiftedBits, ShiftTwice
    <2> HIDE DEF c
    <2>8. Low(c)[bits + bits * k] = Low(c)[bits] + Pow2[bits] * Low(bshr(c, bits))[bits * k]
      BY <1>0, <2>2, <2>6, <2>7, LowSplit
    <2>9. /\ Low(c)[bits] \in Int /\ Pow2[bits] \in Int
          /\ Low(bshr(b, from + bits))[bits * k] \in Int
      <3>1. bshr(b, from + bits) \in Word
        BY <2>6, ShiftedBits
      <3> QED BY <2>6, <2>7, <3>1, LowFacts, Powers
    <2>10. f[k + 1] = Low(c)[bits + bits * k]
      BY <2>3, <2>4, <2>5, <2>7, <2>8, <2>9
    <2>11. Low(c)[bits + bits * k] = Rest(k + 1)
      BY <2>2 DEF c, from, e
    <2> QED BY <2>10, <2>11
  <1> HIDE DEF T
  <1>4. T = Nat
    BY <1>2, <1>3, SetInduction DEF T
  <1>5. f[n] = Low(bshr(b, 0))[bits * n]
    <2>1. f[n] = Rest(n)
      BY <1>4 DEF T
    <2>2. (n - n) * bits = 0
      BY <1>0
    <2> QED BY <2>1, <2>2
  <1>6. bshr(b, 0) = b
    <2>1. 0 \in 0 .. W
      BY <1>0
    <2>2. /\ bshr(b, 0) \in Word
          /\ \A k \in Positions : bshr(b, 0)[k] = IF k + 0 < W THEN b[k + 0] ELSE 0
      BY <2>1, ShiftedBits
    <2>3. \A k \in Positions : k + 0 = k /\ k < W
      BY <1>0 DEF Positions
    <2> QED BY <2>2, <2>3 DEF Word
  <1>7. Low(b)[bits * n] = Unsigned(b) % Pow2[bits * n]
    BY <1>0, Halves
  <1> QED BY <1>5, <1>6, <1>7

\* bit_band, bit_bor and bit_bxor make words of words.
LEMMA LogicWords ==
  ASSUME NEW a \in Word, NEW b \in Word
  PROVE  And(a, b) \in Word /\ Or(a, b) \in Word /\ Xor(a, b) \in Word
  <1>1. ASSUME NEW k \in Positions
        PROVE  /\ a[k] \in 0 .. 1 /\ b[k] \in 0 .. 1
               /\ a[k] * b[k] \in 0 .. 1 /\ (a[k] + b[k]) % 2 \in 0 .. 1
    <2>1. (a[k] = 0 \/ a[k] = 1) /\ b[k] \in 0 .. 1
      BY DEF Word
    <2> QED BY <2>1
  <1> QED BY <1>1 DEF And, Or, Xor, Word

\* Their digits, in the numbers that BRET makes of them
LEMMA LogicDigits ==
  ASSUME NEW m \in Exact, NEW n \in Exact, NEW k \in Positions,
         NEW a, a = (m \div Pow2[k]) % 2, NEW c, c = (n \div Pow2[k]) % 2
  PROVE  /\ (BRET(And(barg(m), barg(n))) \div Pow2[k]) % 2 = a * c
         /\ (BRET(Or(barg(m), barg(n))) \div Pow2[k]) % 2 = a + c - a * c
         /\ (a + c + ((BRET(Xor(barg(m), barg(n))) \div Pow2[k]) % 2)) % 2 = 0
  <1> DEFINE v == barg(m)  w == barg(n)
  <1>1. /\ v \in Word /\ w \in Word /\ v[k] = a /\ w[k] = c
    BY BargExact, BargWord
  <1> HIDE DEF v, w
  <1>2. ASSUME NEW b \in Word PROVE (BRET(b) \div Pow2[k]) % 2 = b[k]
    BY WordComesBack, SignedExact, BargExact DEF BRET
  <1>3. v[k] \in {0, 1} /\ w[k] \in {0, 1}
    BY <1>1 DEF Word
  <1>4. And(v, w)[k] = v[k] * w[k] /\ Or(v, w)[k] = v[k] + w[k] - v[k] * w[k]
    <2>1. And(v, w)[k] = v[k] * w[k] /\ Or(v, w)[k] = IF v[k] = 1 THEN 1 ELSE w[k]
      BY DEF And, Or
    <2>2. \A d, e \in {0, 1} : (IF d = 1 THEN 1 ELSE e) = d + e - d * e
      OBVIOUS
    <2> QED BY <1>3, <2>1, <2>2
  <1>5. (v[k] + w[k] + Xor(v, w)[k]) % 2 = 0
    <2>1. Xor(v, w)[k] = (v[k] + w[k]) % 2
      BY DEF Xor
    <2>2. \A d, e \in {0, 1} : (d + e + ((d + e) % 2)) % 2 = 0
      OBVIOUS
    <2> QED BY <1>3, <2>1, <2>2
  <1>6. And(v, w) \in Word /\ Or(v, w) \in Word /\ Xor(v, w) \in Word
    BY <1>1, LogicWords
  <1> QED BY <1>1, <1>2, <1>4, <1>5, <1>6, Zenon DEF v, w
=============================================================================
