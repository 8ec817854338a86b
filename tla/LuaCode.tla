------------------------------- MODULE LuaCode -------------------------------
(* The code generator (lcode.c).  A FuncState is a record and every function *)
(* of the C file an operator that returns the state it leaves behind; those  *)
(* that change an expression descriptor too return both, as [fs, e], those   *)
(* that return a program counter or an RK operand as [fs, x].                *)
(* The list of the constants stands for the table fs->h as well.             *)
EXTENDS LuaOpcodes, FiniteSets

CONSTANT MAXSTACK  \* registers of one function

ASSUME StackAssumption == MAXSTACK \in Nat /\ 2 < MAXSTACK /\ MAXSTACK < NO_REG

LUA_MULTRET == -1

(* ops of BinOpr in the order of their metamethods *)
ArithOps == [add |-> "OP_ADD", sub |-> "OP_SUB", mul |-> "OP_MUL",
             div |-> "OP_DIV", mod |-> "OP_MOD", pow |-> "OP_POW"]

(* open_func: the state a function starts with *)
NewFuncState ==
  [code |-> <<>>, k |-> <<>>, p |-> <<>>, upvalues |-> <<>>,
   lasttarget |-> -1, jpc |-> NO_JUMP, freereg |-> 0,
   actvar |-> <<>>, nactvar |-> 0, bl |-> <<>>,
   maxstacksize |-> 2, is_vararg |-> {}, numparams |-> 0,
   failed |-> {}, err |-> ""]

pc(fs) == Len(fs.code)

(* lua_assert: remembered with its line; nothing is reached after an error *)
lua_assert(fs, line, c) ==
  IF c \/ fs.err # "" THEN fs ELSE [fs EXCEPT !.failed = @ \cup {line}]

(* luaX_syntaxerror: the parser stops at the first *)
FsError(fs, msg) == [fs EXCEPT !.err = IF @ = "" THEN msg ELSE @]

Exp(k, info) == [k |-> k, info |-> info, aux |-> 0, nval |-> NaN,
                 t |-> NO_JUMP, f |-> NO_JUMP]

hasjumps(e)    == e.t # e.f
isnumeral(e)   == e.k = "VKNUM" /\ e.t = NO_JUMP /\ e.f = NO_JUMP
getcode(fs, e) == At(fs.code, e.info)
SetCode(fs, at, i)     == [fs EXCEPT !.code[at + 1] = i]
SETARG_A(fs, at, v)    == [fs EXCEPT !.code[at + 1].a = v]
SETARG_B(fs, at, v)    == [fs EXCEPT !.code[at + 1].b = v]
SETARG_C(fs, at, v)    == [fs EXCEPT !.code[at + 1].c = v]

-----------------------------------------------------------------------------
(* Jump lists: the jumps of a list are chained through their own offsets.    *)

fixjump(fs, at, dest) ==
  LET offset == dest - (at + 1)
      s == lua_assert(fs, 83, dest # NO_JUMP)
  IN IF Abs(offset) > MAXARG_sBx
     THEN FsError(s, "control structure too long")
     ELSE SETARG_B(s, at, offset)

luaK_getlabel(fs) == [fs EXCEPT !.lasttarget = pc(fs)]

getjump(fs, at) ==
  LET offset == At(fs.code, at).b
  IN IF offset = NO_JUMP THEN NO_JUMP ELSE at + 1 + offset

(* where the test that controls a jump is *)
getjumpcontrol(fs, at) ==
  IF at >= 1 /\ testTMode(At(fs.code, at - 1).op) THEN at - 1 ELSE at

(* the jumps of a list, in its order *)
RECURSIVE Jumps(_, _)
Jumps(fs, list) ==
  IF list = NO_JUMP THEN <<>> ELSE <<list>> \o Jumps(fs, getjump(fs, list))

need_value(fs, list) ==
  LET js == Jumps(fs, list)
  IN \E i \in DOMAIN js : At(fs.code, getjumpcontrol(fs, js[i])).op # "OP_TESTSET"

(* whether patchtestreg could patch, and the code after it *)
CanPatch(fs, node) == At(fs.code, getjumpcontrol(fs, node)).op = "OP_TESTSET"
patchtestreg(fs, node, reg) ==
  LET at == getjumpcontrol(fs, node)
      i  == At(fs.code, at)
  IN IF i.op # "OP_TESTSET" THEN fs
     ELSE IF reg # NO_REG /\ reg # i.b
     THEN SETARG_A(fs, at, reg)
     ELSE SetCode(fs, at, CREATE_ABC("OP_TEST", i.b, 0, i.c))

RECURSIVE removevalues(_, _)
removevalues(fs, list) ==
  IF list = NO_JUMP THEN fs
  ELSE LET s == patchtestreg(fs, list, NO_REG) IN removevalues(s, getjump(s, list))

RECURSIVE patchlistaux(_, _, _, _, _)
patchlistaux(fs, list, vtarget, reg, dtarget) ==
  IF list = NO_JUMP \/ fs.err # "" THEN fs
  ELSE LET s == patchtestreg(fs, list, reg)
           dest == IF CanPatch(fs, list) THEN vtarget ELSE dtarget
       IN patchlistaux(fixjump(s, list, dest), getjump(fs, list), vtarget, reg, dtarget)

dischargejpc(fs) ==
  [patchlistaux(fs, fs.jpc, pc(fs), NO_REG, pc(fs)) EXCEPT !.jpc = NO_JUMP]

(* luaK_concat: the list l1 with l2 hung on its end *)
luaK_concat(fs, l1, l2) ==
  CASE l2 = NO_JUMP -> [fs |-> fs, x |-> l1]
    [] l2 # NO_JUMP /\ l1 = NO_JUMP -> [fs |-> fs, x |-> l2]
    [] OTHER -> LET js == Jumps(fs, l1)
                IN [fs |-> fixjump(fs, js[Len(js)], l2), x |-> l1]

luaK_patchtohere(fs, list) ==
  LET s == luaK_getlabel(fs)
      c == luaK_concat(s, s.jpc, list)
  IN [c.fs EXCEPT !.jpc = c.x]

luaK_patchlist(fs, list, target) ==
  IF target = pc(fs) THEN luaK_patchtohere(fs, list)
  ELSE patchlistaux(lua_assert(fs, 173, target < pc(fs)), list, target, NO_REG, target)

-----------------------------------------------------------------------------
(* Emitting instructions. *)

luaK_code(fs, i) ==
  LET s == dischargejpc(fs)
  IN [s EXCEPT !.code = Append(@, i)]

luaK_codeABC(fs, o, a, b, c) ==
  LET s == lua_assert(fs, 813, getOpMode(o) = "iABC")
      r == lua_assert(s, 814, getBMode(o) # "N" \/ b = 0)
      q == lua_assert(r, 815, getCMode(o) # "N" \/ c = 0)
  IN luaK_code(q, CREATE_ABC(o, a, b, c))

luaK_codeABx(fs, o, a, bx) ==
  LET s == lua_assert(fs, 821, getOpMode(o) \in {"iABx", "iAsBx"})
      r == lua_assert(s, 822, getCMode(o) = "N")
  IN luaK_code(r, CREATE_ABx(o, a, bx))

(* luaK_jump keeps the jumps that were to land here on hold *)
luaK_jump(fs) ==
  LET s == luaK_codeABx([fs EXCEPT !.jpc = NO_JUMP], "OP_JMP", 0, NO_JUMP)
  IN luaK_concat(s, pc(fs), fs.jpc)

condjump(fs, op, a, b, c) == luaK_jump(luaK_codeABC(fs, op, a, b, c))

luaK_ret(fs, first, nret) == luaK_codeABC(fs, "OP_RETURN", first, nret + 1, 0)

(* a new LOADNIL, unless the registers are nil already or the one before     *)
(* can be made longer                                                        *)
luaK_nil(fs, from, n) ==
  LET prev   == At(fs.code, pc(fs) - 1)
      direct == pc(fs) > fs.lasttarget
      joins  == /\ direct /\ pc(fs) > 0
                /\ prev.op = "OP_LOADNIL"
                /\ prev.a <= from /\ from <= prev.b + 1
  IN CASE direct /\ pc(fs) = 0 /\ from >= fs.nactvar -> fs
       [] joins /\ from + n - 1 > prev.b -> SETARG_B(fs, pc(fs) - 1, from + n - 1)
       [] joins /\ from + n - 1 <= prev.b -> fs
       [] OTHER -> luaK_codeABC(fs, "OP_LOADNIL", from, from + n - 1, 0)

-----------------------------------------------------------------------------
(* Registers and constants. *)

luaK_checkstack(fs, n) ==
  LET newstack == fs.freereg + n
  IN CASE newstack <= fs.maxstacksize -> fs
       [] newstack > fs.maxstacksize /\ newstack >= MAXSTACK ->
            FsError(fs, "function or expression too complex")
       [] OTHER -> [fs EXCEPT !.maxstacksize = newstack]

luaK_reserveregs(fs, n) == [luaK_checkstack(fs, n) EXCEPT !.freereg = @ + n]

freereg(fs, reg) ==
  IF ISK(reg) \/ reg < fs.nactvar THEN fs
  ELSE lua_assert([fs EXCEPT !.freereg = @ - 1], 218, reg = fs.freereg - 1)

freeexp(fs, e) == IF e.k = "VNONRELOC" THEN freereg(fs, e.info) ELSE fs

(* the index of a constant, which is added unless it is there: luaK_stringK, *)
(* luaK_numberK, boolK and nilK differ in the constant only                  *)
addk(fs, v) ==
  IF \E i \in DOMAIN fs.k : fs.k[i] = v
  THEN [fs |-> fs, x |-> (CHOOSE i \in DOMAIN fs.k : fs.k[i] = v) - 1]
  ELSE [fs |-> [fs EXCEPT !.k = Append(@, v)], x |-> Len(fs.k)]

luaK_setreturns(fs, e, nresults) ==
  CASE e.k = "VCALL" -> SETARG_C(fs, e.info, nresults + 1)
    [] e.k = "VVARARG" ->
         luaK_reserveregs(SETARG_A(SETARG_B(fs, e.info, nresults + 1), e.info, fs.freereg), 1)
    [] OTHER -> fs

luaK_setoneret(fs, e) ==
  CASE e.k = "VCALL" ->
         [fs |-> fs, e |-> [e EXCEPT !.k = "VNONRELOC", !.info = getcode(fs, e).a]]
    [] e.k = "VVARARG" ->
         [fs |-> SETARG_B(fs, e.info, 2), e |-> [e EXCEPT !.k = "VRELOCABLE"]]
    [] OTHER -> [fs |-> fs, e |-> e]

-----------------------------------------------------------------------------
(* Discharging expressions into registers. *)

luaK_dischargevars(fs, e) ==
  LET reloc(s) == [fs |-> s, e |-> [e EXCEPT !.k = "VRELOCABLE", !.info = pc(s) - 1]]
  IN CASE e.k = "VLOCAL"   -> [fs |-> fs, e |-> [e EXCEPT !.k = "VNONRELOC"]]
       [] e.k = "VUPVAL"   -> reloc(luaK_codeABC(fs, "OP_GETUPVAL", 0, e.info, 0))
       [] e.k = "VGLOBAL"  -> reloc(luaK_codeABx(fs, "OP_GETGLOBAL", 0, e.info))
       [] e.k = "VINDEXED" ->
            reloc(luaK_codeABC(freereg(freereg(fs, e.aux), e.info),
                               "OP_GETTABLE", 0, e.info, e.aux))
       [] e.k \in {"VVARARG", "VCALL"} -> luaK_setoneret(fs, e)
       [] OTHER -> [fs |-> fs, e |-> e]

code_label(fs, a, b, jump) ==
  LET s == luaK_codeABC(luaK_getlabel(fs), "OP_LOADBOOL", a, b, jump)
  IN [fs |-> s, x |-> pc(s) - 1]

discharge2reg(fs0, e0, reg) ==
  LET d  == luaK_dischargevars(fs0, e0)
      fs == d.fs
      e  == d.e
      in(s) == [fs |-> s, e |-> [e EXCEPT !.k = "VNONRELOC", !.info = reg]]
      const(v) == LET c == addk(fs, v) IN luaK_codeABx(c.fs, "OP_LOADK", reg, c.x)
  IN CASE e.k = "VNIL"   -> in(luaK_nil(fs, reg, 1))
       [] e.k \in {"VFALSE", "VTRUE"} ->
            in(luaK_codeABC(fs, "OP_LOADBOOL", reg, IF e.k = "VTRUE" THEN 1 ELSE 0, 0))
       [] e.k = "VK"     -> in(luaK_codeABx(fs, "OP_LOADK", reg, e.info))
       [] e.k = "VKNUM"  -> in(const(e.nval))
       [] e.k = "VRELOCABLE" -> in(SETARG_A(fs, e.info, reg))
       [] e.k = "VNONRELOC"  ->
            in(IF reg # e.info THEN luaK_codeABC(fs, "OP_MOVE", reg, e.info, 0) ELSE fs)
       [] OTHER -> [fs |-> lua_assert(fs, 373, e.k \in {"VVOID", "VJMP"}), e |-> e]

discharge2anyreg(fs, e) ==
  IF e.k = "VNONRELOC" THEN [fs |-> fs, e |-> e]
  ELSE LET s == luaK_reserveregs(fs, 1) IN discharge2reg(s, e, s.freereg - 1)

(* the two LOADBOOLs that give a value to the jumps that carry none *)
LoadBools(fs, e, reg) ==
  IF ~need_value(fs, e.t) /\ ~need_value(fs, e.f)
  THEN [fs |-> fs, pf |-> NO_JUMP, pt |-> NO_JUMP]
  ELSE LET fj == IF e.k = "VJMP" THEN [fs |-> fs, x |-> NO_JUMP] ELSE luaK_jump(fs)
           f  == code_label(fj.fs, reg, 0, 1)
           t  == code_label(f.fs, reg, 1, 0)
       IN [fs |-> luaK_patchtohere(t.fs, fj.x), pf |-> f.x, pt |-> t.x]

exp2reg(fs, e, reg) ==
  LET d == discharge2reg(fs, e, reg)
      c == IF d.e.k = "VJMP" THEN luaK_concat(d.fs, d.e.t, d.e.info)
                             ELSE [fs |-> d.fs, x |-> d.e.t]
      x == [d.e EXCEPT !.t = c.x]
      b == LoadBools(c.fs, x, reg)
      final == pc(b.fs)
      f == patchlistaux(luaK_getlabel(b.fs), x.f, final, reg, b.pf)
      t == patchlistaux(f, x.t, final, reg, b.pt)
  IN [fs |-> IF hasjumps(x) THEN t ELSE c.fs,
      e  |-> [x EXCEPT !.t = NO_JUMP, !.f = NO_JUMP, !.k = "VNONRELOC", !.info = reg]]

luaK_exp2nextreg(fs, e) ==
  LET d == luaK_dischargevars(fs, e)
      s == luaK_reserveregs(freeexp(d.fs, d.e), 1)
  IN exp2reg(s, d.e, s.freereg - 1)

luaK_exp2anyreg(fs, e) ==
  LET d == luaK_dischargevars(fs, e)
      there == d.e.k = "VNONRELOC"
  IN CASE there /\ ~hasjumps(d.e) -> d
       [] there /\ hasjumps(d.e) /\ d.e.info >= d.fs.nactvar ->
            exp2reg(d.fs, d.e, d.e.info)
       [] OTHER -> luaK_exp2nextreg(d.fs, d.e)

luaK_exp2val(fs, e) ==
  IF hasjumps(e) THEN luaK_exp2anyreg(fs, e) ELSE luaK_dischargevars(fs, e)

(* [fs, e, x]: x is the operand *)
luaK_exp2RK(fs, e) ==
  LET v == luaK_exp2val(fs, e)
      const == CASE v.e.k = "VNIL" -> Nil
                 [] v.e.k = "VKNUM" -> v.e.nval
                 [] OTHER -> Bool(v.e.k = "VTRUE")
      a == addk(v.fs, const)
      r == luaK_exp2anyreg(v.fs, v.e)
  IN CASE v.e.k \in {"VKNUM", "VTRUE", "VFALSE", "VNIL"} /\ Len(v.fs.k) <= MAXINDEXRK ->
            [fs |-> a.fs, e |-> [v.e EXCEPT !.k = "VK", !.info = a.x], x |-> RKASK(a.x)]
       [] v.e.k = "VK" /\ v.e.info <= MAXINDEXRK ->
            [fs |-> v.fs, e |-> v.e, x |-> RKASK(v.e.info)]
       [] OTHER -> [fs |-> r.fs, e |-> r.e, x |-> r.e.info]

luaK_storevar(fs, var, ex) ==
  LET a == luaK_exp2anyreg(fs, ex)
      r == luaK_exp2RK(fs, ex)
  IN CASE var.k = "VLOCAL"   -> exp2reg(freeexp(fs, ex), ex, var.info).fs
       [] var.k = "VUPVAL"   ->
            freeexp(luaK_codeABC(a.fs, "OP_SETUPVAL", a.e.info, var.info, 0), a.e)
       [] var.k = "VGLOBAL"  ->
            freeexp(luaK_codeABx(a.fs, "OP_SETGLOBAL", a.e.info, var.info), a.e)
       [] var.k = "VINDEXED" ->
            freeexp(luaK_codeABC(r.fs, "OP_SETTABLE", var.info, var.aux, r.x), r.e)
       [] OTHER -> lua_assert(fs, 495, FALSE)

luaK_self(fs, e, key) ==
  LET a == luaK_exp2anyreg(fs, e)
      f == freeexp(a.fs, a.e)
      r == luaK_exp2RK(luaK_reserveregs(f, 2), key)
      c == luaK_codeABC(r.fs, "OP_SELF", f.freereg, a.e.info, r.x)
  IN [fs |-> freeexp(c, r.e),
      e  |-> [a.e EXCEPT !.info = f.freereg, !.k = "VNONRELOC"]]

luaK_indexed(fs, t, k) ==
  LET r == luaK_exp2RK(fs, k)
  IN [fs |-> r.fs, e |-> [t EXCEPT !.aux = r.x, !.k = "VINDEXED"]]

-----------------------------------------------------------------------------
(* Conditions. *)

(* the comparison that controls the jump of e accepts the opposite *)
invertjump(fs, e) ==
  LET at == getjumpcontrol(fs, e.info)
      op == At(fs.code, at).op
      s  == lua_assert(fs, 518, testTMode(op) /\ op \notin {"OP_TEST", "OP_TESTSET"})
  IN SETARG_A(s, at, 1 - At(fs.code, at).a)

jumponcond(fs, e, c) ==
  LET d == discharge2anyreg(fs, e)
      drop == [fs EXCEPT !.code = SubSeq(@, 1, pc(fs) - 1)]
  IN IF e.k = "VRELOCABLE" /\ getcode(fs, e).op = "OP_NOT"
     THEN condjump(drop, "OP_TEST", getcode(fs, e).b, 0, 1 - c)
     ELSE condjump(freeexp(d.fs, d.e), "OP_TESTSET", NO_REG, d.e.info, c)

luaK_goiftrue(fs0, e0) ==
  LET d  == luaK_dischargevars(fs0, e0)
      e  == d.e
      j  == CASE e.k \in {"VK", "VKNUM", "VTRUE"} -> [fs |-> d.fs, x |-> NO_JUMP]
              [] e.k = "VFALSE" -> luaK_jump(d.fs)
              [] e.k = "VJMP"   -> [fs |-> invertjump(d.fs, e), x |-> e.info]
              [] OTHER -> jumponcond(d.fs, e, 0)
      c  == luaK_concat(j.fs, e.f, j.x)
  IN [fs |-> luaK_patchtohere(c.fs, e.t), e |-> [e EXCEPT !.f = c.x, !.t = NO_JUMP]]

luaK_goiffalse(fs0, e0) ==
  LET d  == luaK_dischargevars(fs0, e0)
      e  == d.e
      j  == CASE e.k \in {"VNIL", "VFALSE"} -> [fs |-> d.fs, x |-> NO_JUMP]
              [] e.k = "VTRUE" -> luaK_jump(d.fs)
              [] e.k = "VJMP"  -> [fs |-> d.fs, x |-> e.info]
              [] OTHER -> jumponcond(d.fs, e, 1)
      c  == luaK_concat(j.fs, e.t, j.x)
  IN [fs |-> luaK_patchtohere(c.fs, e.f), e |-> [e EXCEPT !.t = c.x, !.f = NO_JUMP]]

codenot(fs0, e0) ==
  LET d == luaK_dischargevars(fs0, e0)
      e == d.e
      a == discharge2anyreg(d.fs, e)
      n == luaK_codeABC(freeexp(a.fs, a.e), "OP_NOT", 0, a.e.info, 0)
      r == CASE e.k \in {"VNIL", "VFALSE"} -> [fs |-> d.fs, e |-> [e EXCEPT !.k = "VTRUE"]]
             [] e.k \in {"VK", "VKNUM", "VTRUE"} ->
                  [fs |-> d.fs, e |-> [e EXCEPT !.k = "VFALSE"]]
             [] e.k = "VJMP" -> [fs |-> invertjump(d.fs, e), e |-> e]
             [] e.k \in {"VRELOCABLE", "VNONRELOC"} ->
                  [fs |-> n, e |-> [a.e EXCEPT !.k = "VRELOCABLE", !.info = pc(n) - 1]]
             [] OTHER -> [fs |-> lua_assert(d.fs, 618, FALSE), e |-> e]
      x == [r.e EXCEPT !.t = r.e.f, !.f = r.e.t]
  IN [fs |-> removevalues(removevalues(r.fs, x.f), x.t), e |-> x]

-----------------------------------------------------------------------------
(* Operators. *)

(* operations on numerals are done by the compiler, except a division by     *)
(* zero and what gives NaN                                                   *)
CanFold(op, e1, e2) ==
  /\ isnumeral(e1) /\ isnumeral(e2)
  /\ op \in {"OP_DIV", "OP_MOD"} => e2.nval # Num(0)
  /\ op \notin {"OP_LEN", "OP_CONCAT"}
  /\ ~luai_numisnan(arith_op(op, e1.nval, e2.nval))

codearith(fs, op, e1, e2) ==
  LET none == [fs |-> fs, e |-> e2, x |-> 0]
      o2 == IF op \in {"OP_UNM", "OP_LEN"} THEN none ELSE luaK_exp2RK(fs, e2)
      o1 == luaK_exp2RK(o2.fs, e1)
      s  == IF o1.x > o2.x THEN freeexp(freeexp(o1.fs, o1.e), o2.e)
                           ELSE freeexp(freeexp(o1.fs, o2.e), o1.e)
      c  == luaK_codeABC(s, op, 0, o1.x, o2.x)
  IN IF CanFold(op, e1, e2)
     THEN [fs |-> fs, e |-> [e1 EXCEPT !.nval = arith_op(op, e1.nval, e2.nval)]]
     ELSE [fs |-> c, e |-> [o1.e EXCEPT !.k = "VRELOCABLE", !.info = pc(c) - 1]]

(* a > b and a >= b are coded with their operands exchanged *)
codecomp(fs, op, c, e1, e2) ==
  LET o1 == luaK_exp2RK(fs, e1)
      o2 == luaK_exp2RK(o1.fs, e2)
      s  == freeexp(freeexp(o2.fs, o2.e), o1.e)
      j  == IF c = 0 /\ op # "OP_EQ" THEN condjump(s, op, 1, o2.x, o1.x)
                                     ELSE condjump(s, op, c, o1.x, o2.x)
  IN [fs |-> j.fs, e |-> [o1.e EXCEPT !.k = "VJMP", !.info = j.x]]

luaK_prefix(fs, op, e) ==
  LET zero == [Exp("VKNUM", 0) EXCEPT !.nval = Num(0)]
      a == luaK_exp2anyreg(fs, e)
      m == IF isnumeral(e) THEN [fs |-> fs, e |-> e] ELSE a
  IN CASE op = "minus" -> codearith(m.fs, "OP_UNM", m.e, zero)
       [] op = "not"   -> codenot(fs, e)
       [] op = "len"   -> codearith(a.fs, "OP_LEN", a.e, zero)

luaK_infix(fs, op, v) ==
  LET r == luaK_exp2RK(fs, v)
  IN CASE op = "and"    -> luaK_goiftrue(fs, v)
       [] op = "or"     -> luaK_goiffalse(fs, v)
       [] op = "concat" -> luaK_exp2nextreg(fs, v)
       [] op \in DOMAIN ArithOps /\ isnumeral(v) -> [fs |-> fs, e |-> v]
       [] OTHER -> [fs |-> r.fs, e |-> r.e]

(* a .. (b .. c) becomes one CONCAT of three registers *)
CodeConcat(fs, e1, e2) ==
  LET v == luaK_exp2val(fs, e2)
      i == getcode(v.fs, v.e)
      n == luaK_exp2nextreg(v.fs, v.e)
  IN IF v.e.k = "VRELOCABLE" /\ i.op = "OP_CONCAT"
     THEN [fs |-> SETARG_B(freeexp(lua_assert(v.fs, 764, e1.info = i.b - 1), e1),
                           v.e.info, e1.info),
           e  |-> [e1 EXCEPT !.k = "VRELOCABLE", !.info = v.e.info]]
     ELSE codearith(n.fs, "OP_CONCAT", e1, n.e)

luaK_posfix(fs, op, e1, e2) ==
  LET d == luaK_dischargevars(fs, e2)
      f == luaK_concat(lua_assert(d.fs, 748, e1.t = NO_JUMP), d.e.f, e1.f)
      t == luaK_concat(lua_assert(d.fs, 755, e1.f = NO_JUMP), d.e.t, e1.t)
  IN CASE op = "and"    -> [fs |-> f.fs, e |-> [d.e EXCEPT !.f = f.x]]
       [] op = "or"     -> [fs |-> t.fs, e |-> [d.e EXCEPT !.t = t.x]]
       [] op = "concat" -> CodeConcat(fs, e1, e2)
       [] op \in DOMAIN ArithOps -> codearith(fs, ArithOps[op], e1, e2)
       [] op = "eq" -> codecomp(fs, "OP_EQ", 1, e1, e2)
       [] op = "ne" -> codecomp(fs, "OP_EQ", 0, e1, e2)
       [] op = "lt" -> codecomp(fs, "OP_LT", 1, e1, e2)
       [] op = "le" -> codecomp(fs, "OP_LE", 1, e1, e2)
       [] op = "gt" -> codecomp(fs, "OP_LT", 0, e1, e2)
       [] op = "ge" -> codecomp(fs, "OP_LE", 0, e1, e2)

(* stores the pending items of a list; MAXARG_C is not reached *)
luaK_setlist(fs, base, nelems, tostore) ==
  LET c == (nelems - 1) \div LFIELDS_PER_FLUSH + 1
      b == IF tostore = LUA_MULTRET THEN 0 ELSE tostore
      s == lua_assert(fs, 830, tostore # 0)
  IN [luaK_codeABC(s, "OP_SETLIST", base, b, c) EXCEPT !.freereg = base + 1]
=============================================================================
