------------------------------- MODULE BitOps -------------------------------
(***************************************************************************)
(* The bit operations of src/src/profibit.c.  A word is a function from    *)
(* bit positions to bits; a Lua number goes in through barg and comes out  *)
(* through BRET.                                                           *)
(***************************************************************************)
EXTENDS Integers, Sequences, FiniteSetsExt

CONSTANTS W,            \* bits of a word (32), a power of two
          MantissaBits, \* bits of a double behind the point (52)
          MaxExponent,  \* every number is below 2^MaxExponent in size (1024)
          Numbers, \* Lua numbers a script passes; all are whole
          Counts   \* those it passes second: operands, shifts, numbers of digits

ASSUME WAssumption == W \in Nat /\ W % 4 = 0 /\ W # 0
ASSUME DoubleAssumption ==
  /\ MantissaBits \in Nat /\ MaxExponent \in Nat
  /\ W < MantissaBits /\ MantissaBits < MaxExponent

Positions == 0 .. W - 1
Word == [Positions -> 0 .. 1]
Zero == [k \in Positions |-> 0]

-----------------------------------------------------------------------------
(* Words and numbers                                                       *)

\* The powers of two; a function, for ^ has no laws in proofs.
Pow2[n \in 0 .. MaxExponent + 1] == IF n = 0 THEN 1 ELSE 2 * Pow2[n - 1]

ASSUME WIsPower == \E k \in 0 .. W : W = Pow2[k]

\* The whole numbers of a Lua number's size, and those that barg takes for what they
\* are: the ones below 2^51
Whole == -Pow2[MaxExponent] + 1 .. Pow2[MaxExponent] - 1
Exact == -Pow2[MantissaBits - 1] .. Pow2[MantissaBits - 1] - 1

ASSUME InputsAssumption == Numbers \subseteq Whole /\ Counts \subseteq Whole

\* A double: the power of two below n, and n in units of its last bit, rounded to the
\* even one of two that are as near
Exponent(n) == CHOOSE e \in 0 .. MaxExponent : Pow2[e] <= n /\ n < Pow2[e + 1]

Nearest(n, d) ==
  LET q == n \div d  rest == 2 * (n % d) IN
  IF rest > d \/ (rest = d /\ q % 2 = 1) THEN q + 1 ELSE q

Significand(n) ==
  LET e == Exponent(n) IN
  IF e <= MantissaBits THEN n * Pow2[MantissaBits - e]
  ELSE Nearest(n, Pow2[e - MantissaBits])

\* What barg adds, 2^52 + 2^51; without the part that negative numbers take from
AddedOnce == Pow2[MantissaBits]
Added == Pow2[MantissaBits] + Pow2[MantissaBits - 1]

\* barg: the low word of the sum, a double
barg(x) ==
  LET sum == x + Added
      b   == IF sum = 0 THEN 0 ELSE Significand(IF sum < 0 THEN -sum ELSE sum)
  IN [k \in Positions |-> (b \div Pow2[k]) % 2]

\* What the lowest n bits of a word are worth, for each n
Low(b) ==
  LET low[n \in 0 .. W] == IF n = 0 THEN 0 ELSE low[n - 1] + b[n - 1] * Pow2[n - 1] IN low

Unsigned(b) == Low(b)[W]
Signed(b)   == Unsigned(b) - b[W - 1] * Pow2[W]

\* BRET: the number of a word, taken for an SBits
BRET(b) == Signed(b)

-----------------------------------------------------------------------------
(* C's operators on words                                                  *)

Not(b)    == [k \in Positions |-> 1 - b[k]]
And(a, b) == [k \in Positions |-> a[k] * b[k]]
Or(a, b)  == [k \in Positions |-> IF a[k] = 1 THEN 1 ELSE b[k]]
Xor(a, b) == [k \in Positions |-> (a[k] + b[k]) % 2]

bshl(b, n) == [k \in Positions |-> IF k >= n THEN b[k - n] ELSE 0]
bshr(b, n) == [k \in Positions |-> IF k + n < W THEN b[k + n] ELSE 0]

\* The one of a signed word
bsar(b, n) == [k \in Positions |-> IF k + n < W THEN b[k + n] ELSE b[W - 1]]

\* A shift by W is undefined in C: the processor shifts by nothing, a compiler that
\* sees it coming may give zero.
ByTheRest(shifted, b, n) == IF n = 0 THEN {b, Zero} ELSE {shifted}

\* A rotation whose rest is shifted one bit too far; brol and bror
brolShort(b, n) == {Or(bshl(b, n), rest) : rest \in ByTheRest(bshr(b, W - n + 1), b, n)}
brol(b, n) == {Or(bshl(b, n), rest) : rest \in ByTheRest(bshr(b, W - n), b, n)}
bror(b, n) == {Or(rest, bshr(b, n)) : rest \in ByTheRest(bshl(b, W - n), b, n)}

\* barg(L, 2) & 31
ShiftCount(b) == Unsigned(b) % W

\* The mask 0xff00 selects the second byte of the four.
Byte1 == [k \in Positions |-> IF k \in W \div 4 .. (W \div 2) - 1 THEN 1 ELSE 0]

bit_bswap(b) ==
  LET byte == W \div 4 IN
  Or(Or(Or(bshr(b, 3 * byte), And(bshr(b, byte), Byte1)), bshl(And(b, Byte1), byte)),
     bshl(b, 3 * byte))

-----------------------------------------------------------------------------
(* Digits                                                                  *)

\* -n, of the smallest SBits the smallest SBits
Negated(n) == IF n = -Pow2[W - 1] THEN n ELSE -n

\* The digit at position d; the one of a loop that shifts before it looks
DigitShifted(b, d, bits) == Unsigned([k \in Positions |->
  IF k < bits /\ k + (d + 1) * bits < W THEN b[k + (d + 1) * bits] ELSE 0])
Digit(b, d, bits) == Unsigned([k \in Positions |-> IF k < bits THEN b[k + d * bits] ELSE 0])

AtMost(n, most) == IF n > most THEN most ELSE n

\* buf[i] for i from n - 1 down to 0.  A count below zero writes nothing and is then
\* handed to lua_pushlstring as a size_t: no string of digits comes out of that.
NoDigits == <<-1>>

Digits(b, n, bits) ==
  IF n < 0 THEN NoDigits ELSE [i \in 1 .. n |-> Digit(b, n - i, bits)]

bit_tohex(b, n) == Digits(b, AtMost(IF n < 0 THEN Negated(n) ELSE n, W \div 4), 4)
bit_tobin(b, n) == Digits(b, AtMost(n, W), 1)
=============================================================================
