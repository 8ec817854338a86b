------------------------------ MODULE BitCalls ------------------------------
(* The functions of src/src/profibit.c as a script calls them: a call and  *)
(* its result, then the next call.                                         *)
EXTENDS BitOps

VARIABLES op,  \* the function called last
          x,   \* its first argument
          y,   \* its second one
          res  \* what it returned

vars == <<op, x, y, res>>

Init == op = "none" /\ x = 0 /\ y = 0 /\ res = 0

Call(name, a, n, results) ==
  /\ op' = name /\ x' = a /\ y' = n
  /\ res' \in results

Unary(a) ==
  \/ Call("tobit", a, 0, {BRET(barg(a))})
  \/ Call("bnot", a, 0, {BRET(Not(barg(a)))})
  \/ Call("bswap", a, 0, {BRET(bit_bswap(barg(a)))})

\* A round of the loop of BIT_OP.  The order of the rounds is all the same; with one
\* operand there is none, and the function is tobit.
Round(name, a, n) ==
  \/ name = "band" /\ Call(name, a, n, {BRET(And(barg(a), barg(n)))})
  \/ name = "bor"  /\ Call(name, a, n, {BRET(Or(barg(a), barg(n)))})
  \/ name = "bxor" /\ Call(name, a, n, {BRET(Xor(barg(a), barg(n)))})

Logic(a, n) == \E name \in {"band", "bor", "bxor"} : Round(name, a, n)

\* One more operand
Operand(n) == Round(op, res, n)

Shift(a, n) ==
  LET b == barg(a)  count == ShiftCount(barg(n)) IN
  \/ Call("lshift",  a, n, {BRET(bshl(b, count))})
  \/ Call("rshift",  a, n, {BRET(bshr(b, count))})
  \/ Call("arshift", a, n, {BRET(bsar(b, count))})
  \/ Call("rol",     a, n, {BRET(r) : r \in brol(b, count)})
  \/ Call("ror",     a, n, {BRET(r) : r \in bror(b, count)})

ToDigits(a, n) ==
  LET count == Signed(barg(n)) IN
  \/ Call("tohex", a, n, {bit_tohex(barg(a), count)})
  \/ Call("tobin", a, n, {bit_tobin(barg(a), count)})

\* barg gives zero for what is not a number, and then raises.
TypeError == Call("typerror", 0, 0, {0})

\* The script has its result.
Return == op # "none" /\ op' = "none" /\ x' = 0 /\ y' = 0 /\ res' = 0

Next ==
  \/ /\ op = "none"
     /\ \/ TypeError
        \/ \E a \in Numbers :
             \/ Unary(a)
             \/ \E n \in Counts : Logic(a, n) \/ Shift(a, n) \/ ToDigits(a, n)
  \/ \E n \in Counts : Operand(n)
  \/ Return

Spec == Init /\ [][Next]_vars

-----------------------------------------------------------------------------
(* Properties                                                              *)

SBits == -Pow2[W - 1] .. Pow2[W - 1] - 1

TypeOK ==
  /\ x \in Numbers \cup {0} \cup SBits /\ y \in Counts \cup {0}
  /\ IF op \in {"tohex", "tobin"}
     THEN res = NoDigits \/ (Len(res) <= W /\ \A k \in DOMAIN res : res[k] \in 0 .. 15)
     ELSE res \in SBits

\* The integers a Lua number stands for without a sign and with one
u == x % Pow2[W]
SignOf(n) == IF n >= Pow2[W - 1] THEN n - Pow2[W] ELSE n

\* A call with numbers that barg takes for what they are
Faithful == x \in Exact /\ y \in Exact

\* The binary digits of a number, of a negative one those of its two's complement
Binary(n, k) == (n \div Pow2[k]) % 2

\* Below 2^51 shifts multiply and divide by powers of two as the names of bit_lshift,
\* bit_rshift and bit_arshift say, whatever the signs of number and count; ~ is -1 - n;
\* bit_band, bit_bor and bit_bxor go by the digits of their two numbers.
OperatorsArithmetic ==
  Faithful =>
    LET m == Pow2[y % W] IN
    /\ op = "lshift"  => res = SignOf((u * m) % Pow2[W])
    /\ op = "rshift"  => res = SignOf(u \div m)
    /\ op = "arshift" => res = SignOf(u) \div m
    /\ op = "tobit"   => res = SignOf(u)
    /\ op = "bnot"    => res = -1 - SignOf(u)
    /\ \A k \in Positions :
         LET a == Binary(x, k)  b == Binary(y, k)  c == Binary(res, k) IN
         /\ op = "band" => c = a * b
         /\ op = "bor"  => c = a + b - a * b
         /\ op = "bxor" => (a + b + c) % 2 = 0

\* brol and bror rotate, below 2^51 the number itself, and undo each other, by no bit
\* as well, where C leaves the shift by 32 - n undefined; bit_bswap undoes itself and
\* reverses the bytes.
RotationsUndo ==
  LET n == ShiftCount(barg(y))  turned == u * Pow2[y % W] IN
  /\ op = "rol" => /\ Faithful => res = SignOf((turned % Pow2[W]) + (turned \div Pow2[W]))
                   /\ bror(barg(res), n) = {barg(x)}
  /\ op = "ror" => brol(barg(res), n) = {barg(x)}
  /\ op = "bswap" => /\ bit_bswap(barg(res)) = barg(x)
                     /\ Faithful => res % Pow2[W \div 4] = u \div Pow2[3 * (W \div 4)]

\* The number that the first k digits make, for each k
ReadBack(digits, bits) ==
  LET value[k \in 0 .. Len(digits)] ==
        IF k = 0 THEN 0 ELSE value[k - 1] * Pow2[bits] + digits[k]
  IN value

\* The digits of bit_tohex and bit_tobin read back are the low bits of a number below
\* 2^51, as many as asked for or there are; only a count below zero that cannot be negated
\* (tohex) or is not (tobin) has no digits.
DigitsReadBack ==
  Faithful /\ op \in {"tohex", "tobin"} =>
    LET bits == IF op = "tohex" THEN 4 ELSE 1
        n    == SignOf(y % Pow2[W])
        abs  == IF n < 0 THEN -n ELSE n
    IN IF res = NoDigits
       THEN IF op = "tohex" THEN n = -Pow2[W - 1] ELSE n < 0
       ELSE /\ Len(res) = Min({abs, W \div bits})
            /\ ReadBack(res, bits)[Len(res)] = u % Pow2[bits * Len(res)]
=============================================================================
