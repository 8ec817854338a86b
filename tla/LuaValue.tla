------------------------------ MODULE LuaValue ------------------------------
(* The values of Lua 5.1 (lobject.h) and the operations on them that need no *)
(* metatable: a value is a tuple whose first member is its type.  A number   *)
(* is a rational <<"num", p, q>> in lowest terms with q >= 0; q = 0 gives    *)
(* the two infinities (p = 1, -1) and NaN (p = 0).  The rounding of doubles  *)
(* and the sign of zero are left out.                                        *)
EXTENDS Integers, Sequences

Nil      == <<"nil">>
Bool(b)  == <<"bool", b>>
Str(s)   == <<"str", s>>
Tab(id)  == <<"tab", id>>
Fun(id)  == <<"fun", id>>
Thr(id)  == <<"thr", id>>

ttype(v) == v[1]

(* l_isfalse: nil and false are the only values that are false *)
l_isfalse(v) == v = Nil \/ v = Bool(FALSE)

-----------------------------------------------------------------------------
(* Numbers. *)

Abs(n) == IF n < 0 THEN -n ELSE n

gcd[a \in Nat, b \in Nat] == IF b = 0 THEN a ELSE gcd[b, a % b]

(* n/d for any integers, the way IEEE arithmetic has it when d is zero *)
Ratio(n, d) ==
  IF d = 0
  THEN <<"num", IF n = 0 THEN 0 ELSE n \div Abs(n), 0>>
  ELSE LET g == gcd[Abs(n), Abs(d)]
           s == IF d < 0 THEN -1 ELSE 1
       IN <<"num", (s * n) \div g, (s * d) \div g>>

Num(n) == <<"num", n, 1>>
NaN    == <<"num", 0, 0>>

IsNum(v)    == ttype(v) = "num"
IsFinite(v) == v[3] # 0
IsInt(v)    == v[3] = 1

luai_numisnan(v) == v = NaN

(* NaN is not equal to itself *)
luai_numeq(a, b) == a = b /\ a # NaN

luai_numunm(a) == <<"num", -a[2], a[3]>>

luai_numadd(a, b) ==
  CASE IsFinite(a) /\ IsFinite(b) -> Ratio(a[2] * b[3] + b[2] * a[3], a[3] * b[3])
    [] IsFinite(a) /\ ~IsFinite(b) -> b
    [] ~IsFinite(a) /\ IsFinite(b) -> a
    [] OTHER -> IF a = b THEN a ELSE NaN

luai_numsub(a, b) == luai_numadd(a, luai_numunm(b))

luai_nummul(a, b) ==
  IF a = NaN \/ b = NaN THEN NaN ELSE Ratio(a[2] * b[2], a[3] * b[3])

luai_numdiv(a, b) ==
  CASE a = NaN \/ b = NaN -> NaN
    [] ~IsFinite(b) -> IF IsFinite(a) THEN Num(0) ELSE NaN
    [] OTHER -> Ratio(a[2] * b[3], a[3] * b[2])

Floor(a) == IF IsFinite(a) THEN Num(a[2] \div a[3]) ELSE a

(* a - floor(a/b)*b, so that a modulo 0 or of an infinity is NaN *)
luai_nummod(a, b) == luai_numsub(a, luai_nummul(Floor(luai_numdiv(a, b)), b))

(* pow, for integral exponents *)
power[b \in Int, n \in Nat] == IF n = 0 THEN 1 ELSE b * power[b, n - 1]

luai_numpow(a, b) ==
  LET n == Abs(b[2])
  IN IF b[2] >= 0 THEN Ratio(power[a[2], n], power[a[3], n])
                  ELSE Ratio(power[a[3], n], power[a[2], n])

(* a < b is false whenever one of them is NaN *)
luai_numlt(a, b) ==
  /\ a # NaN /\ b # NaN
  /\ IF IsFinite(a) \/ IsFinite(b) THEN a[2] * b[3] < b[2] * a[3]
                                   ELSE a[2] < b[2]

luai_numle(a, b) == luai_numlt(a, b) \/ luai_numeq(a, b)

(* OP_ADD .. OP_UNM on two numbers *)
arith_op(op, a, b) ==
  CASE op = "OP_ADD" -> luai_numadd(a, b)
    [] op = "OP_SUB" -> luai_numsub(a, b)
    [] op = "OP_MUL" -> luai_nummul(a, b)
    [] op = "OP_DIV" -> luai_numdiv(a, b)
    [] op = "OP_MOD" -> luai_nummod(a, b)
    [] op = "OP_POW" -> luai_numpow(a, b)
    [] op = "OP_UNM" -> luai_numunm(a)

(* luaO_rawequalObj: no metamethod is asked *)
luaO_rawequalObj(a, b) == a = b /\ a # NaN
=============================================================================
