-------------------------------- MODULE LuaVM --------------------------------
(* The virtual machine (lvm.c): one action per instruction, per step of a C  *)
(* function, and per way back into C code that had called a function.  The   *)
(* host (profilua.c OpenLuaScript) loads a chunk and calls it in protected mode.    *)
(* L->savedpc is kept up to date by every instruction, which the C code does *)
(* only for those that may raise an error.                                   *)
EXTENDS LuaBaseLib

CONSTANTS
  MAXTAGLOOP,   \* tables a chain of __index may go through
  Programs      \* the chunks the host may run

ASSUME ProgramsAssumption == MAXTAGLOOP \in Nat \ {0} /\ Programs \subseteq Texts

VARIABLES prog, st
vars == <<prog, st>>

-----------------------------------------------------------------------------
(* The instruction and its operands. *)

P(s)      == ProtoOf(curr_func(s).f)
savedpc(s) == T(s).savedpc
Instr(s, at) == At(P(s).code, at)
R(s, x)   == Slot(s, base(s) + x)
K(s, x)   == At(P(s).k, x)
RK(s, x)  == IF ISK(x) THEN K(s, INDEXK(x)) ELSE R(s, x)
SetR(s, x, v) == SetSlot(s, base(s) + x, v)
SkipNext(s)   == [s EXCEPT !.th[s.L].savedpc = @ + 1]
dojump(s, sbx) == [s EXCEPT !.th[s.L].savedpc = @ + sbx]

(* a test: the jump that follows is taken if it comes out as expected *)
CondJump(s, res, a) ==
  SkipNext(IF res = (a = 1) THEN dojump(s, Instr(s, savedpc(s)).b) ELSE s)

-----------------------------------------------------------------------------
(* Metamethods.  The frame says where the result goes and what follows.      *)

callTMres(s, res, f, p1, p2, then) ==
  LET t == top(s)
      p == SetSlot(SetSlot(SetSlot(s, t, f), t + 1, p1), t + 2, p2)
      c == SetTop(luaD_checkstack(p, 3), t + 3)
  IN luaD_call(PushC(c, [k |-> "TMres", res |-> res, then |-> then]), t, 1)

callTM(s, f, p1, p2, p3) ==
  LET t == top(s)
      p == SetSlot(SetSlot(SetSlot(SetSlot(s, t, f), t + 1, p1), t + 2, p2), t + 3, p3)
      c == SetTop(luaD_checkstack(p, 4), t + 4)
  IN luaD_call(PushC(c, Frame("TM")), t, 0)

Done == [k |-> "done"]
(* the result, or what it is not, decides a test *)
TestPlain(neg, a) == [k |-> "test", neg |-> FALSE, a |-> a]   \* mutant
Test(neg, a) == [k |-> "test", neg |-> neg, a |-> a]
ConcatMore(total, last) == [k |-> "concat", total |-> total, last |-> last]

(* [s, tm]: the event of an indexed value; fasttm for a table *)
IndexTM(s, t, event) ==
  IF ttype(t) = "tab" THEN fasttm(s, Table(s, t).metatable, event)
                      ELSE [s |-> s, tm |-> luaT_gettmbyobj(s, t, event)]

RECURSIVE luaV_gettable(_, _, _, _, _), RawOrTM(_, _, _, _, _, _), GettableTM(_, _, _, _, _)
luaV_gettable(s, t, key, val, loop) ==
  IF loop = MAXTAGLOOP THEN luaG_runerror(s, "loop in gettable")
  ELSE RawOrTM(s, t, key, val, loop, IF ttype(t) = "tab" THEN luaH_get(Table(s, t), key) ELSE nil)

RawOrTM(s, t, key, val, loop, raw) ==
  IF raw # nil THEN SetSlot(s, val, raw) ELSE GettableTM(IndexTM(s, t, "__index"), t, key, val, loop)

GettableTM(m, t, key, val, loop) ==
  CASE m.tm = nil -> IF ttype(t) = "tab" THEN SetSlot(m.s, val, nil) ELSE luaG_typeerror(m.s, t, "index")
    [] m.tm # nil /\ ttype(m.tm) = "fun" -> callTMres(m.s, val, m.tm, t, key, Done)
    [] OTHER -> luaV_gettable(m.s, m.tm, key, val, loop + 1)

(* luaH_set makes a place for the key before the metamethod is looked for *)
RECURSIVE luaV_settable(_, _, _, _, _), SettableTM(_, _, _, _, _)
luaV_settable(s, t, key, val, loop) ==
  LET istab == ttype(t) = "tab"
  IN CASE loop = MAXTAGLOOP -> luaG_runerror(s, "loop in settable")
       [] loop < MAXTAGLOOP /\ istab /\ KeyError(key) # "" -> luaG_runerror(s, KeyError(key))
       [] OTHER ->
            IF istab /\ luaH_get(Table(s, t), key) # nil THEN luaH_store(s, t[2], key, val)
            ELSE SettableTM(IndexTM(IF istab THEN [s EXCEPT !.tab[t[2]] = luaH_set(@, key)] ELSE s,
                                    t, "__newindex"), t, key, val, loop)

SettableTM(m, t, key, val, loop) ==
  CASE m.tm = nil -> IF ttype(t) = "tab" THEN luaH_store(m.s, t[2], key, val)
                                         ELSE luaG_typeerror(m.s, t, "index")
    [] m.tm # nil /\ ttype(m.tm) = "fun" -> callTM(m.s, m.tm, t, key, val)
    [] OTHER -> luaV_settable(m.s, m.tm, key, val, loop + 1)

(* the metamethod of one operand or of the other *)
Either(a, b)  == IF a = nil THEN b ELSE a
BinTM(s, p1, p2, event) == Either(luaT_gettmbyobj(s, p1, event), luaT_gettmbyobj(s, p2, event))

(* an error without one *)
CallOrFail(s, tm, p1, p2, res, then, msg) ==
  IF tm = nil THEN luaG_runerror(s, msg) ELSE callTMres(s, res, tm, p1, p2, then)
call_binTM(s, p1, p2, res, event, then, msg) ==
  CallOrFail(s, BinTM(s, p1, p2, event), p1, p2, res, then, msg)

(* [s, tm]: the metamethod two tables have in common *)
SameTM(a, b) == IF luaO_rawequalObj(a.tm, b.tm) THEN b ELSE [b EXCEPT !.tm = nil]
AlsoIn(a, mt1, mt2, event) ==
  IF a.tm = nil \/ mt1 = mt2 THEN a ELSE SameTM(a, fasttm(a.s, mt2, event))
get_compTM(s, mt1, mt2, event) == AlsoIn(fasttm(s, mt1, event), mt1, mt2, event)

(* nil for operands that differ in it *)
Common(a, b) == IF luaO_rawequalObj(a, b) THEN a ELSE nil
OrderTM(s, p1, p2, event) == Common(luaT_gettmbyobj(s, p1, event), luaT_gettmbyobj(s, p2, event))

-----------------------------------------------------------------------------
(* Comparison, concatenation, arithmetic. *)

(* strings in the order of their characters' codes *)
RECURSIVE l_strcmp(_, _)
l_strcmp(l, r) ==
  CASE l = r -> 0
    [] l # r /\ l = "" -> -1
    [] l # r /\ r = "" -> 1
    [] OTHER -> LET a == CharCode[Ch(l, 1)]
                    b == CharCode[Ch(r, 1)]
                IN IF a = b THEN l_strcmp(SubSeq(l, 2, Len(l)), SubSeq(r, 2, Len(r)))
                   ELSE a - b

ordererror(s) == luaG_runerror(s, "attempt to compare")

luaV_lessthan(s, l, r, a) ==
  LET tm == OrderTM(s, l, r, "__lt")
  IN CASE ttype(l) # ttype(r) -> ordererror(s)
       [] IsNum(l) /\ IsNum(r) -> CondJump(s, luai_numlt(l, r), a)
       [] ttype(l) = "str" /\ ttype(r) = "str" -> CondJump(s, l_strcmp(l[2], r[2]) < 0, a)
       [] OTHER -> IF tm = nil THEN ordererror(s)
                   ELSE callTMres(s, top(s), tm, l, r, Test(FALSE, a))

(* without __le, not (r < l) *)
lessequal(s, l, r, a) ==
  LET le == OrderTM(s, l, r, "__le")
      lt == OrderTM(s, r, l, "__lt")
  IN CASE ttype(l) # ttype(r) -> ordererror(s)
       [] IsNum(l) /\ IsNum(r) -> CondJump(s, luai_numle(l, r), a)
       [] ttype(l) = "str" /\ ttype(r) = "str" -> CondJump(s, l_strcmp(l[2], r[2]) <= 0, a)
       [] OTHER -> IF le # nil THEN callTMres(s, top(s), le, l, r, Test(FALSE, a))
                   ELSE IF lt # nil THEN callTMres(s, top(s), lt, r, l, Test(TRUE, a))
                   ELSE ordererror(s)

EqualTM(m, l, r, a) ==
  IF m.tm = nil THEN CondJump(m.s, FALSE, a)
  ELSE callTMres(m.s, top(m.s), m.tm, l, r, Test(FALSE, a))
luaV_equalval(s, l, r, a) ==
  IF ttype(l) = "tab" /\ ttype(r) = "tab" /\ l # r
  THEN EqualTM(get_compTM(s, Table(s, l).metatable, Table(s, r).metatable, "__eq"), l, r, a)
  ELSE CondJump(s, luaO_rawequalObj(l, r), a)

(* the operands are the slots up to base + last; the result goes to R(A)     *)
IsText(v) == ttype(v) \in {"str", "num"}
RECURSIVE luaV_concat(_, _, _)
luaV_concat(s, total, last) ==
  LET t == base(s) + last + 1
      texts == {n \in 2 .. total : \A i \in 1 .. n : IsText(Slot(s, t - i))}
      n == IF luaV_tostring(Slot(s, t - 1)) = Str("") THEN 2 ELSE Max(texts)
      i == Instr(s, savedpc(s) - 1)
  IN CASE total = 1 -> SetR(s, i.a, R(s, i.b))
       [] total > 1 /\ texts # {} ->
            luaV_concat(SetSlot(s, t - n, Str(Concatenated(s, t - n, n))), total - (n - 1), last - (n - 1))
       [] OTHER -> call_binTM(s, Slot(s, t - 2), Slot(s, t - 1), t - 2, "__concat",
                              ConcatMore(total - 1, last - 1), "attempt to concatenate")

EventOf == [OP_ADD |-> "__add", OP_SUB |-> "__sub", OP_MUL |-> "__mul", OP_DIV |-> "__div",
            OP_MOD |-> "__mod", OP_POW |-> "__pow", OP_UNM |-> "__unm"]

ArithOrTM(s, ra, b, c, op, x, y) ==
  IF x # nil /\ y # nil THEN SetSlot(s, ra, arith_op(op, x, y))
  ELSE call_binTM(s, b, c, ra, EventOf[op], Done, "attempt to perform arithmetic")
Arith(s, ra, b, c, op) == ArithOrTM(s, ra, b, c, op, luaV_tonumber(b), luaV_tonumber(c))

-----------------------------------------------------------------------------
(* luaV_execute. *)

(* what is asserted of every instruction *)
Checked(s) ==
  LET b == Asserted(s, "lvm.c:399", base(s) = CI(s).base)
      t == Asserted(b, "lvm.c:400", base(s) <= top(s) /\ top(s) <= Len(T(s).stack))
  IN Asserted(t, "lvm.c:401", top(s) = CI(s).top \/ luaG_checkopenop(Instr(s, savedpc(s))))

reentry(s) == Asserted([s EXCEPT !.ret = ""], "lvm.c:379", f_isLua(s, CI(s)))

(* the next instruction is one of ops; Ins(s, i, ra) is what it does *)
Fetches(ops) ==
  /\ Ok(st) /\ st.ret = "" /\ TopC(st).k = "execute"
  /\ Instr(st, savedpc(st)).op \in ops
Executes(Ins(_, _, _)) ==
  /\ st' = Ins(SkipNext(Checked(st)), Instr(st, savedpc(st)), base(st) + Instr(st, savedpc(st)).a)
  /\ UNCHANGED prog

OP_MOVE == Fetches({"OP_MOVE"}) /\ Executes(LAMBDA s, i, ra : SetSlot(s, ra, R(s, i.b)))

OP_LOADK == Fetches({"OP_LOADK"}) /\ Executes(LAMBDA s, i, ra : SetSlot(s, ra, K(s, i.b)))

OP_LOADBOOL == Fetches({"OP_LOADBOOL"}) /\ Executes(LAMBDA s, i, ra :
  LET r == SetSlot(s, ra, Bool(i.b = 1)) IN IF i.c = 1 THEN SkipNext(r) ELSE r)

OP_LOADNIL == Fetches({"OP_LOADNIL"}) /\ Executes(LAMBDA s, i, ra : SetNils(s, ra, base(s) + i.b + 1))

OP_GETUPVAL == Fetches({"OP_GETUPVAL"}) /\ Executes(LAMBDA s, i, ra :
  SetSlot(s, ra, UpVal(s, At(curr_func(s).upvals, i.b))))

OP_SETUPVAL == Fetches({"OP_SETUPVAL"}) /\ Executes(LAMBDA s, i, ra :
  SetUpVal(s, At(curr_func(s).upvals, i.b), Slot(s, ra)))

OP_GETGLOBAL == Fetches({"OP_GETGLOBAL"}) /\ Executes(LAMBDA s, i, ra :
  luaV_gettable(Asserted(s, "lvm.c:432", ttype(K(s, i.b)) = "str"),
                Tab(curr_func(s).env), K(s, i.b), ra, 0))

OP_SETGLOBAL == Fetches({"OP_SETGLOBAL"}) /\ Executes(LAMBDA s, i, ra :
  luaV_settable(Asserted(s, "lvm.c:443", ttype(K(s, i.b)) = "str"),
                Tab(curr_func(s).env), K(s, i.b), Slot(s, ra), 0))

OP_GETTABLE == Fetches({"OP_GETTABLE"}) /\ Executes(LAMBDA s, i, ra :
  luaV_gettable(s, R(s, i.b), RK(s, i.c), ra, 0))

OP_SETTABLE == Fetches({"OP_SETTABLE"}) /\ Executes(LAMBDA s, i, ra :
  luaV_settable(s, Slot(s, ra), RK(s, i.b), RK(s, i.c), 0))

(* a new object goes into a register *)
Stored(cl, ra) == SetSlot(cl.s, ra, cl.v)

OP_NEWTABLE == Fetches({"OP_NEWTABLE"}) /\ Executes(LAMBDA s, i, ra :
  Stored(NewTable(s, luaH_new(luaO_fb2int(i.b), luaO_fb2int(i.c))), ra))

OP_SELF == Fetches({"OP_SELF"}) /\ Executes(LAMBDA s, i, ra :
  luaV_gettable(SetSlot(s, ra + 1, R(s, i.b)), R(s, i.b), RK(s, i.c), ra, 0))

OP_ARITH == Fetches({"OP_ADD", "OP_SUB", "OP_MUL", "OP_DIV", "OP_MOD", "OP_POW"}) /\ Executes(LAMBDA s, i, ra :
  Arith(s, ra, RK(s, i.b), RK(s, i.c), i.op))

OP_UNM == Fetches({"OP_UNM"}) /\ Executes(LAMBDA s, i, ra : Arith(s, ra, R(s, i.b), R(s, i.b), i.op))

OP_NOT == Fetches({"OP_NOT"}) /\ Executes(LAMBDA s, i, ra : SetSlot(s, ra, Bool(l_isfalse(R(s, i.b)))))

OP_LEN == Fetches({"OP_LEN"}) /\ Executes(LAMBDA s, i, ra :
  LET v == R(s, i.b)
  IN CASE ttype(v) = "tab" -> SetSlot(s, ra, Num(luaH_getn(Table(s, v))))
       [] ttype(v) = "str" -> SetSlot(s, ra, Num(Len(v[2])))
       [] OTHER -> call_binTM(s, v, nil, ra, "__len", Done, "attempt to get length"))

OP_CONCAT == Fetches({"OP_CONCAT"}) /\ Executes(LAMBDA s, i, ra : luaV_concat(s, i.c - i.b + 1, i.c))

OP_JMP == Fetches({"OP_JMP"}) /\ Executes(LAMBDA s, i, ra : dojump(s, i.b))

OP_EQ == Fetches({"OP_EQ"}) /\ Executes(LAMBDA s, i, ra : luaV_equalval(s, RK(s, i.b), RK(s, i.c), i.a))
OP_LT == Fetches({"OP_LT"}) /\ Executes(LAMBDA s, i, ra : luaV_lessthan(s, RK(s, i.b), RK(s, i.c), i.a))
OP_LE == Fetches({"OP_LE"}) /\ Executes(LAMBDA s, i, ra : lessequal(s, RK(s, i.b), RK(s, i.c), i.a))

OP_TEST == Fetches({"OP_TEST"}) /\ Executes(LAMBDA s, i, ra : CondJump(s, ~l_isfalse(Slot(s, ra)), i.c))

OP_TESTSET == Fetches({"OP_TESTSET"}) /\ Executes(LAMBDA s, i, ra :
  LET v == R(s, i.b)
      taken == ~l_isfalse(v) = (i.c = 1)
  IN CondJump(IF taken THEN SetSlot(s, ra, v) ELSE s, ~l_isfalse(v), i.c))

(* one more Lua function is executed by this luaV_execute *)
OneMore(s) ==
  IF Ok(s) /\ s.ret = "PCRLUA" THEN reentry([s EXCEPT !.C[Len(s.C)].n = @ + 1]) ELSE s

OP_CALL == Fetches({"OP_CALL"}) /\ Executes(LAMBDA s, i, ra :
  OneMore(luaD_precall(IF i.b # 0 THEN SetTop(s, ra + i.b) ELSE s, ra, i.c - 1)))

(* the new frame takes the place of the one that calls *)
SameTop(s) == Asserted(s, "lvm.c:620", top(s) = base(s) + P(s).maxstacksize)
Replaced(s) ==
  LET n    == Len(T(s).ci)
      new  == T(s).ci[n]
      old  == T(s).ci[n - 1]
      b    == old.func + new.base - new.func
      size == top(s) - new.func
      ci   == [old EXCEPT !.base = b, !.top = old.func + size, !.savedpc = savedpc(s), !.tailcalls = @ + 1]
  IN SameTop([Move(luaF_close(s, old.base), old.func, new.func, size) EXCEPT
                !.th[s.L].ci = Append(SubSeq(@, 1, n - 2), ci),
                !.th[s.L].base = b, !.th[s.L].top = old.func + size])

OneInstead(s) == IF Ok(s) /\ s.ret = "PCRLUA" THEN reentry(Replaced(s)) ELSE s

OP_TAILCALL == Fetches({"OP_TAILCALL"}) /\ Executes(LAMBDA s, i, ra :
  OneInstead(luaD_precall(IF i.b # 0 THEN SetTop(Asserted(s, "lvm.c:607", i.c = 0), ra + i.b)
                                     ELSE Asserted(s, "lvm.c:607", i.c = 0),
                          ra, LUA_MULTRET)))

(* what called the function is a call of the Lua function below it *)
Below(s) == Asserted(Asserted(s, "lvm.c:645", f_isLua(s, CI(s))),
                     "lvm.c:646", Instr(s, savedpc(s) - 1).op = "OP_CALL")
OneLess(s) == reentry([Below(s) EXCEPT !.C[Len(s.C)].n = @ - 1])
ClosedNot(s) == s   \* mutant
Closed(s) == luaF_close(s, base(s))

OP_RETURN == Fetches({"OP_RETURN"}) /\ Executes(LAMBDA s, i, ra :
  LET t == Closed(IF i.b # 0 THEN SetTop(s, ra + i.b - 1) ELSE s)
  IN IF TopC(s).n = 1 THEN [PopC(luaD_poscall(t, ra)) EXCEPT !.ret = "PCRC"]
     ELSE OneLess(ReturnTo(t, ra)))

forprep(s, ra, v, jump) ==
  IF \E j \in 0 .. 2 : v[j] = nil THEN luaG_runerror(s, "'for' values must be numbers")
  ELSE dojump(SetSlot(SetSlot(SetSlot(s, ra, luai_numsub(v[0], v[2])), ra + 1, v[1]), ra + 2, v[2]), jump)
OP_FORPREP == Fetches({"OP_FORPREP"}) /\ Executes(LAMBDA s, i, ra :
  forprep(s, ra, [j \in 0 .. 2 |-> luaV_tonumber(Slot(s, ra + j))], i.b))

OP_FORLOOP == Fetches({"OP_FORLOOP"}) /\ Executes(LAMBDA s, i, ra :
  LET step  == Slot(s, ra + 2)
      limit == Slot(s, ra + 1)
      idx   == luai_numadd(Slot(s, ra), step)
      more  == IF luai_numlt(Num(0), step) THEN luai_numle(idx, limit) ELSE luai_numle(limit, idx)
  IN IF more THEN dojump(SetSlot(SetSlot(s, ra, idx), ra + 3, idx), i.b) ELSE s)

OP_TFORLOOP == Fetches({"OP_TFORLOOP"}) /\ Executes(LAMBDA s, i, ra :
  LET c == SetTop(Move(s, ra + 3, ra, 3), ra + 6)
  IN luaD_call(PushC(c, Frame("tforloop")), ra + 3, i.c))

(* the items go into the table from the last to the first *)
RECURSIVE StoreItems(_, _, _, _)
StoreItems(s, ra, n, last) ==
  IF n = 0 THEN s
  ELSE StoreItems([s EXCEPT !.tab[Slot(s, ra)[2]] = Put(@, Num(last), Slot(s, ra + n))], ra, n - 1, last - 1)

OP_SETLIST == Fetches({"OP_SETLIST"}) /\ Executes(LAMBDA s, i, ra :
  LET n    == IF i.b = 0 THEN top(s) - ra - 1 ELSE i.b
      t    == IF i.b = 0 THEN SetTop(s, CI(s).top) ELSE s
      last == (i.c - 1) * LFIELDS_PER_FLUSH + n
      h    == Slot(s, ra)[2]
      r    == IF last > sizearray(s.tab[h]) THEN [t EXCEPT !.tab[h] = luaH_resizearray(@, last)] ELSE t
  IN StoreItems(r, ra, n, last))

OP_CLOSE == Fetches({"OP_CLOSE"}) /\ Executes(LAMBDA s, i, ra : luaF_close(s, ra))

(* one pseudo instruction for each upvalue, at the program counter *)
RECURSIVE Captured(_, _)
Captured(s, n) ==
  LET i == Instr(s, savedpc(s))
      a == Asserted(s, "lvm.c:731", i.op \in {"OP_GETUPVAL", "OP_MOVE"})
      u == IF i.op = "OP_GETUPVAL" THEN [s |-> a, id |-> At(curr_func(s).upvals, i.b)]
           ELSE luaF_findupval(a, base(s) + i.b)
      r == Captured(SkipNext(u.s), n - 1)
  IN IF n = 0 THEN [s |-> s, ids |-> <<>>] ELSE [s |-> r.s, ids |-> <<u.id>> \o r.ids]

NewLclosure(u, parent, n) == luaF_newLclosure(u.s, parent.f \o <<n>>, parent.env, u.ids)

OP_CLOSURE == Fetches({"OP_CLOSURE"}) /\ Executes(LAMBDA s, i, ra :
  Stored(NewLclosure(Captured(s, At(P(s).p, i.b).nups), curr_func(s), i.b + 1), ra))

OP_VARARG == Fetches({"OP_VARARG"}) /\ Executes(LAMBDA s, i, ra :
  LET n == CI(s).base - CI(s).func - P(s).numparams - 1
      open == i.b - 1 = LUA_MULTRET
      b == IF open THEN n ELSE i.b - 1
      g == IF open THEN SetTop(luaD_checkstack(s, n), ra + n) ELSE s
      have == IF b < n THEN b ELSE n
  IN SetNils(Move(g, ra, CI(s).base - n, have), ra + have, ra + b))

-----------------------------------------------------------------------------
(* C functions, and the ways back into them. *)

Returned == Ok(st) /\ st.ret # "" /\ UNCHANGED prog
Waits(k) == TopC(st).k = k
Back     == [PopC(st) EXCEPT !.ret = ""]

CFunction ==
  /\ Ok(st) /\ Waits("C") /\ TopC(st).at = ""
  /\ st' = Enter(st, TopC(st).f)
  /\ UNCHANGED prog

(* a refusal to resume is told to the function that asked for it *)
CGoesOn ==
  /\ Returned /\ Waits("C") /\ TopC(st).at # ""
  /\ st' = GoOn(IF st.ret = "refused" THEN st ELSE [st EXCEPT !.ret = ""], TopC(st).at)

(* a C function that OP_CALL or OP_TAILCALL has called *)
BackInExecute ==
  LET i == Instr(st, savedpc(st) - 1)
  IN /\ Returned /\ Waits("execute") /\ st.ret = "PCRC"
     /\ st' = IF i.op = "OP_CALL" /\ i.c - 1 >= 0 THEN SetTop([st EXCEPT !.ret = ""], CI(st).top)
              ELSE [st EXCEPT !.ret = ""]

(* luaV_execute returns at once when that function has yielded *)
ExecuteYields ==
  /\ Returned /\ Waits("execute") /\ st.ret = "PCRYIELD"
  /\ st' = PopC(st)

(* luaD_call does not ask whether it was a yield *)
BackInCall ==
  /\ Returned /\ Waits("call")
  /\ st' = [PopC(st) EXCEPT !.th[st.L].nCcalls = @ - 1, !.ret = "PCRC"]

BackInPcall ==
  /\ Returned /\ Waits("pcall")
  /\ st' = LeavePcall(st, TopC(st), 0)

BackInResume ==
  /\ Returned /\ Waits("resume")
  /\ st' = LeaveResume(Asserted(st, "ldo.c:434", T(st).nCcalls = T(st).baseCcalls),
                       TopC(st), T(st).status)

(* callTMres: the result is taken from the top of the stack *)
BackInTM ==
  LET fr == TopC(st)
      d  == SetTop(Back, top(st) - 1)
      v  == Slot(st, top(st) - 1)
  IN /\ Returned /\ Waits("TMres")
     /\ st' = CASE fr.then.k = "done" -> SetSlot(d, fr.res, v)
                [] fr.then.k = "test" -> CondJump(d, l_isfalse(v) = fr.then.neg, fr.then.a)
                [] fr.then.k = "concat" ->
                     luaV_concat(SetSlot(d, fr.res, v), fr.then.total, fr.then.last)

BackInSettable ==
  /\ Returned /\ Waits("TM")
  /\ st' = Back

BackInTforloop ==
  LET s  == SetTop(Back, CI(st).top)
      cb == Instr(s, savedpc(s) - 1).a + 3
  IN /\ Returned /\ Waits("tforloop")
     /\ st' = IF R(s, cb) = nil THEN SkipNext(s)
              ELSE CondJump(SetR(s, cb - 1, R(s, cb)), TRUE, 1)

(* luaG_errormsg: the error function is called with the message *)
Errormsg ==
  LET ef == T(st).errfunc
      s  == [st EXCEPT !.err = ""]
      m  == SetSlot(SetSlot(s, top(s), Slot(s, top(s) - 1)), top(s) - 1, Slot(s, ef))
      c  == incr_top(m)
  IN /\ st.err = "ERRMSG" /\ UNCHANGED prog
     /\ st' = CASE ef = 0 -> luaD_throw(s, "ERRRUN")
                [] ef # 0 /\ ttype(Slot(s, ef)) # "fun" -> luaD_throw(s, "ERRERR")
                [] OTHER -> luaD_call(PushC(c, Frame("errormsg")), top(c) - 2, 1)

BackInErrormsg ==
  /\ Returned /\ Waits("errormsg")
  /\ st' = luaD_throw(Back, "ERRRUN")

(* luaD_rawrunprotected: the C stack is cut down to the nearest handler *)
Unwind ==
  LET at   == Max({i \in DOMAIN st.C : st.C[i].k \in {"pcall", "resume"}})
      fr   == st.C[at]
      s    == [st EXCEPT !.C = SubSeq(@, 1, at)]
      status == StatusOf[st.err]
  IN /\ ~Ok(st) /\ st.err # "ERRMSG" /\ UNCHANGED prog
     /\ st' = IF fr.k = "pcall" THEN LeavePcall([Caught(s, fr) EXCEPT !.err = ""], fr, status)
              ELSE LeaveResume(DeadThread(s, status), fr, status)

-----------------------------------------------------------------------------
(* The host. *)

Opened == luaopen_promidi(luaopen_base(NewState))

halted == Waits("host") /\ Ok(st) /\ st.ret # ""

dofile(s) == IF s.status = 0 THEN lua_pcall(s, 0, LUA_MULTRET, 0, "") ELSE [s EXCEPT !.ret = "PCRC"]
Init ==
  /\ prog \in Programs
  /\ st = dofile(lua_load(PushC(Opened, [k |-> "host", at |-> ""]), prog))

Halted == halted /\ UNCHANGED vars

Next ==
  \/ OP_MOVE \/ OP_LOADK \/ OP_LOADBOOL \/ OP_LOADNIL \/ OP_GETUPVAL \/ OP_SETUPVAL
  \/ OP_GETGLOBAL \/ OP_SETGLOBAL \/ OP_GETTABLE \/ OP_SETTABLE \/ OP_NEWTABLE \/ OP_SELF
  \/ OP_ARITH \/ OP_UNM \/ OP_NOT \/ OP_LEN \/ OP_CONCAT \/ OP_JMP
  \/ OP_EQ \/ OP_LT \/ OP_LE \/ OP_TEST \/ OP_TESTSET
  \/ OP_CALL \/ OP_TAILCALL \/ OP_RETURN \/ OP_FORPREP \/ OP_FORLOOP \/ OP_TFORLOOP
  \/ OP_SETLIST \/ OP_CLOSE \/ OP_CLOSURE \/ OP_VARARG
  \/ CFunction \/ CGoesOn \/ BackInExecute \/ ExecuteYields \/ BackInCall \/ BackInPcall
  \/ BackInResume \/ BackInTM \/ BackInSettable \/ BackInTforloop
  \/ Errormsg \/ BackInErrormsg \/ Unwind \/ Halted

Spec == Init /\ [][Next]_vars

-----------------------------------------------------------------------------
(* Properties. *)

(* The stack and the calls of every thread have the form the C types give    *)
(* them (lstate.h): there is always a call, the top lies in the stack, open  *)
(* upvalues are upvalues.                                                    *)
TypeOK ==
  /\ prog \in Programs
  /\ st.L \in DOMAIN st.th
  /\ \A id \in DOMAIN st.th :
       LET t == st.th[id]
       IN /\ Len(t.ci) > 0 /\ t.top \in 0 .. Len(t.stack)
          /\ Range(t.openupval) \subseteq DOMAIN st.uv
          /\ t.status \in 0 .. LUA_ERRERR
  /\ \A i \in DOMAIN st.fun : ~st.fun[i].isC => Range(st.fun[i].upvals) \subseteq DOMAIN st.uv
  /\ st.ret \in {"", "PCRC", "PCRYIELD", "refused"}
  /\ st.err \in {"", "ERRMSG"} \cup DOMAIN StatusOf

(* No lua_assert and no api_check of the sources fails, neither in the       *)
(* compiler, which checks the code of every function it closes (lparser.c    *)
(* close_func), nor in the machine (ldo.c, lvm.c, lapi.c).                   *)
NoAssertFails == st.failed = {} /\ \A t \in Texts : Chunks[t].failed = {}

(* The open upvalues of a thread are chained from the highest slot down,     *)
(* none twice, all and only those that are open, and each refers to a        *)
(* register of a Lua function that is still active (lfunc.c luaF_findupval,  *)
(* luaF_close): no closure ever reads a slot that was given up.              *)
ActiveSlot(t, level) ==
  \E i \in DOMAIN t.ci :
    /\ t.ci[i].base <= level
    /\ level < (IF i < Len(t.ci) THEN t.ci[i + 1].func ELSE t.ci[i].top)
    /\ ttype(At(t.stack, t.ci[i].func)) = "fun"
    /\ ~Closure(st, At(t.stack, t.ci[i].func)).isC
OpenUpvals ==
  \A id \in DOMAIN st.th :
    LET t == st.th[id]
        open == t.openupval
    IN /\ \A i, j \in DOMAIN open : i < j => st.uv[open[i]].level > st.uv[open[j]].level
       /\ Range(open) = {u \in DOMAIN st.uv : st.uv[u].open /\ st.uv[u].th = id}
       /\ t.status \in {0, LUA_YIELD} => \A i \in DOMAIN open : ActiveSlot(t, st.uv[open[i]].level)

(* When luaD_call returns, the function it called is no longer on the stack  *)
(* of calls: "all the results are on the stack, starting at the original     *)
(* function position" (ldo.c:366).                                           *)
CallsBalanced ==
  (Ok(st) /\ st.ret # "" /\ Waits("call")) => Len(T(st).ci) = TopC(st).ci

(* nCcalls of the running thread counts the calls and resumes that are on    *)
(* the C stack, through errors, yields and handlers too (ldo.c luaD_call,    *)
(* luaD_pcall, lua_resume), and their number is bounded.                     *)
CcallsCounted ==
  LET n == Cardinality({i \in DOMAIN st.C : st.C[i].k \in {"call", "resume"}})
  IN /\ T(st).nCcalls = n
     /\ n <= LUAI_MAXCCALLS + LUAI_MAXCCALLS \div 8

(* The threads that wait for a coroutine are chained by the resume frames:   *)
(* none is in the chain twice, none of them is suspended or dead, and the    *)
(* main thread is at its end (ldo.c lua_resume).                             *)
ResumeChain ==
  LET frames == SelectSeq(st.C, LAMBDA fr : fr.k = "resume")
      chain  == [i \in 1 .. Len(frames) |-> frames[i].from] \o <<st.L>>
  IN /\ chain[1] = 1
     /\ IsInjective(chain)
     /\ \A i \in 1 .. Len(frames) : st.th[chain[i]].status = 0
=============================================================================
