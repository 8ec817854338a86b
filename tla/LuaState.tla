------------------------------ MODULE LuaState ------------------------------
(* Threads, closures, upvalues and the stack of calls (lstate.c, lfunc.c,    *)
(* ltm.c, ldo.c).  The whole Lua state is a record                           *)
(*   L      the running thread                                               *)
(*   th     the threads; the first is the main one                           *)
(*   tab, fun, uv    tables, closures and upvalues; the ids are indices      *)
(*   C      the C stack, see Frame                                           *)
(*   ret    what the C function on top has just returned to the frame below  *)
(*   status what lua_pcall or lua_resume returned                            *)
(*   err    the error that is being raised                                   *)
(*   failed the lines whose assertion has failed                             *)
(* and every C function an operator that returns the state it leaves.  Stack *)
(* slots are numbered from 0.  C code that calls into Lua is cut there: the  *)
(* frame it leaves on C says how it goes on.                                 *)
EXTENDS LuaTable, LuaParser, LuaLex

CONSTANTS
  LUA_MINSTACK, BASIC_CI_SIZE, LUAI_MAXCALLS,
  Texts,            \* the chunks that may be loaded
  Compiled(_)       \* what luaY_parser makes of one

ASSUME StateLimits ==
  /\ LUA_MINSTACK \in Nat \ {0} /\ BASIC_CI_SIZE \in Nat \ {0}
  /\ LUAI_MAXCALLS \in Nat

(* the main functions of the chunks *)
Chunks == [t \in Texts |-> Compiled(t)]

EXTRA_STACK      == 5
BASIC_STACK_SIZE == 2 * LUA_MINSTACK

-----------------------------------------------------------------------------
(* Access. *)

T(s)     == s.th[s.L]
CI(s)    == LastOf(T(s).ci)
base(s)  == T(s).base
top(s)   == T(s).top
Slot(s, i)       == At(T(s).stack, i)
SetSlot(s, i, v) == [s EXCEPT !.th[s.L].stack[i + 1] = v]
SetTop(s, i)     == [s EXCEPT !.th[s.L].top = i]
Table(s, v)      == s.tab[v[2]]
Closure(s, v)    == s.fun[v[2]]
curr_func(s)     == Closure(s, Slot(s, CI(s).func))

f_isLua(s, ci) == ~Closure(s, Slot(s, ci.func)).isC

(* no more of a C function is done after an error *)
Ok(s)      == s.err = ""
Do(s, t)   == IF Ok(s) THEN t ELSE s

(* lua_assert and api_check of the C source; where is the file and the line *)
Asserted(s, where, c) ==
  IF c \/ ~Ok(s) THEN s ELSE [s EXCEPT !.failed = @ \cup {where}]

(* the n slots from dst take the values from src, in this order *)
RECURSIVE Move(_, _, _, _)
Move(s, dst, src, n) ==
  IF n <= 0 THEN s ELSE Move(SetSlot(s, dst, Slot(s, src)), dst + 1, src + 1, n - 1)

RECURSIVE SetNils(_, _, _)
SetNils(s, from, to) ==
  IF from >= to THEN s ELSE SetNils(SetSlot(s, from, nil), from + 1, to)

-----------------------------------------------------------------------------
(* Errors. *)

LUA_YIELD  == 1
LUA_ERRRUN == 2
LUA_ERRSYNTAX == 3
LUA_ERRERR == 5
StatusOf   == "ERRRUN" :> LUA_ERRRUN @@ "ERRSYNTAX" :> LUA_ERRSYNTAX
                @@ "ERRERR" :> LUA_ERRERR

(* luaD_throw, and luaG_errormsg, which asks the error function first *)
luaD_throw(s, errcode) == [s EXCEPT !.err = IF Ok(s) THEN errcode ELSE @]
luaG_errormsg(s) == luaD_throw(s, "ERRMSG")

-----------------------------------------------------------------------------
(* The stack. *)

stack_last(t) == Len(t.stack) - EXTRA_STACK - 1

luaD_reallocstack(s, newsize) ==
  [s EXCEPT !.th[s.L].stack =
     [i \in 1 .. newsize + 1 + EXTRA_STACK |-> IF i <= Len(@) THEN @[i] ELSE nil]]

luaD_growstack(s, n) ==
  LET size == Len(T(s).stack)
  IN luaD_reallocstack(s, IF n <= size THEN 2 * size ELSE size + n)

(* mutants: a stack that never grows, *)
CheckstackNot(s, n) == s
luaD_checkstack(s, n) ==
  IF stack_last(T(s)) - top(s) <= n THEN luaD_growstack(s, n) ELSE s

Up(s)       == SetTop(s, top(s) + 1)
incr_top(s) == Up(luaD_checkstack(s, 1))

(* a value on the stack of a thread that has room for it *)
push(s, v) == Up(SetSlot(s, top(s), v))

luaG_runerror(s, msg) ==
  IF Ok(s) THEN luaG_errormsg(incr_top(SetSlot(s, top(s), Str(msg)))) ELSE s

growCI(s) ==
  LET grown == [s EXCEPT !.th[s.L].size_ci = 2 * @]
  IN CASE T(s).size_ci > LUAI_MAXCALLS -> luaD_throw(s, "ERRERR")
       [] T(s).size_ci <= LUAI_MAXCALLS /\ 2 * T(s).size_ci > LUAI_MAXCALLS ->
            luaG_runerror(grown, "stack overflow")
       [] OTHER -> grown

(* ++L->ci *)
PushCI(s, ci) == Do(s, [s EXCEPT !.th[s.L].ci = Append(@, ci)])
inc_ci(s, ci) == PushCI(IF Len(T(s).ci) = T(s).size_ci THEN growCI(s) ELSE s, ci)

restore_stack_limit(s) ==
  IF T(s).size_ci > LUAI_MAXCALLS /\ Len(T(s).ci) < LUAI_MAXCALLS
  THEN [s EXCEPT !.th[s.L].size_ci = LUAI_MAXCALLS] ELSE s

-----------------------------------------------------------------------------
(* Threads. *)

CallInfo(func, b, t, nresults) ==
  [func |-> func, base |-> b, top |-> t, savedpc |-> 0, nresults |-> nresults,
   tailcalls |-> 0]

(* preinit_state and stack_init *)
NewThread(gt) ==
  [stack |-> [i \in 1 .. BASIC_STACK_SIZE + EXTRA_STACK |-> nil],
   top |-> 1, base |-> 1, ci |-> <<CallInfo(0, 1, 1 + LUA_MINSTACK, 0)>>,
   size_ci |-> BASIC_CI_SIZE, openupval |-> <<>>, status |-> 0, nCcalls |-> 0,
   baseCcalls |-> 0, savedpc |-> 0, errfunc |-> 0, gt |-> gt]

(* lua_newstate: the globals are table 1, the registry is table 2 *)
NewState ==
  [L |-> 1, th |-> <<NewThread(1)>>, tab |-> <<luaH_new(0, 2), luaH_new(0, 2)>>,
   mt |-> [t \in {"nil", "bool", "num", "str", "fun", "thr"} |-> 0],
   fun |-> <<>>, uv |-> <<>>, C |-> <<>>, ret |-> "", status |-> 0, err |-> "", failed |-> {}]

(* [s, v]: a new object *)
luaE_newthread(s) ==
  [s |-> [s EXCEPT !.th = Append(@, NewThread(T(s).gt))], v |-> Thr(Len(s.th) + 1)]
NewTable(s, t)   == [s |-> [s EXCEPT !.tab = Append(@, t)], v |-> Tab(Len(s.tab) + 1)]
NewClosure(s, c) == [s |-> [s EXCEPT !.fun = Append(@, c)], v |-> Fun(Len(s.fun) + 1)]

luaF_newCclosure(s, f, env, upvalues) ==
  NewClosure(s, [isC |-> TRUE, f |-> f, env |-> env, upvals |-> upvalues])
luaF_newLclosure(s, p, env, upvals) ==
  NewClosure(s, [isC |-> FALSE, f |-> p, env |-> env, upvals |-> upvals])

(* the prototype a closure runs: the text of its chunk and the way down      *)
RECURSIVE Nested(_, _)
Nested(p, path) == IF path = <<>> THEN p ELSE Nested(p.p[Head(path)], Tail(path))
ProtoOf(path) == Nested(Chunks[Head(path)], Tail(path))

-----------------------------------------------------------------------------
(* Upvalues: open ones are chained from the highest slot down. *)

(* [s, id] *)
luaF_findupval(s, level) ==
  LET open == T(s).openupval
      here == {i \in DOMAIN open : s.uv[open[i]].level = level}
      above == {i \in DOMAIN open : s.uv[open[i]].level > level}
      n    == Cardinality(above)
      id   == Len(s.uv) + 1
      new  == [open |-> TRUE, th |-> s.L, level |-> level, val |-> nil]
  IN IF here # {} THEN [s |-> s, id |-> open[CHOOSE i \in here : TRUE]]
     ELSE [s  |-> [s EXCEPT !.uv = Append(@, new),
                            !.th[s.L].openupval = SubSeq(@, 1, n) \o <<id>>
                                                    \o SubSeq(@, n + 1, Len(@))],
           id |-> id]

RECURSIVE luaF_close(_, _)
luaF_close(s, level) ==
  LET open == T(s).openupval
      id   == Head(open)
      v    == Slot(s, s.uv[id].level)
      shut == [s EXCEPT !.uv[id] = [open |-> FALSE, th |-> 0, level |-> 0, val |-> v],
                        !.th[s.L].openupval = Tail(@)]
  IN IF open = <<>> \/ s.uv[id].level < level THEN s ELSE luaF_close(shut, level)

UpVal(s, id) == IF s.uv[id].open THEN At(s.th[s.uv[id].th].stack, s.uv[id].level)
                                 ELSE s.uv[id].val
SetUpVal(s, id, v) ==
  IF s.uv[id].open THEN [s EXCEPT !.th[s.uv[id].th].stack[s.uv[id].level + 1] = v]
                   ELSE [s EXCEPT !.uv[id].val = v]

-----------------------------------------------------------------------------
(* Metatables: tables have one each, other types one for all their values. *)

metatable(s, v) == IF ttype(v) = "tab" THEN Table(s, v).metatable ELSE s.mt[ttype(v)]

luaT_gettmbyobj(s, v, event) ==
  IF metatable(s, v) = 0 THEN nil ELSE luaH_getstr(s.tab[metatable(s, v)], Str(event))

(* [s, tm]: fasttm on the metatable with that id, which may be 0 *)
fasttm(s, mt, event) ==
  LET tm == luaH_getstr(s.tab[mt], Str(event))
  IN CASE mt = 0 -> [s |-> s, tm |-> nil]
       [] mt # 0 /\ event \in s.tab[mt].flags -> [s |-> s, tm |-> nil]
       [] OTHER -> [s  |-> IF tm = nil THEN [s EXCEPT !.tab[mt].flags = @ \cup {event}] ELSE s,
                    tm |-> tm]

typename(v) ==
  [nil |-> "nil", bool |-> "boolean", num |-> "number", str |-> "string",
   tab |-> "table", fun |-> "function", thr |-> "thread"][ttype(v)]

luaG_typeerror(s, v, op) == luaG_runerror(s, "attempt to " \o op \o " a " \o typename(v) \o " value")

-----------------------------------------------------------------------------
(* Calls.  A Frame of the C stack is one of                                  *)
(*   execute    luaV_execute, n Lua functions deep                           *)
(*   call       luaD_call, until the function returns                        *)
(*   pcall      luaD_pcall, with what it restores                            *)
(*   resume     lua_resume, with the thread that called it                   *)
(*   C          a C function, at the point where it goes on                  *)
(*   TMres, for the instructions that wait for a metamethod or an iterator   *)
(*   errormsg   luaG_errormsg, which waits for the error function            *)

Frame(k) == [k |-> k]
PushC(s, fr) == [s EXCEPT !.C = Append(@, fr)]
PopC(s)      == [s EXCEPT !.C = FrontOf(@)]
TopC(s)      == LastOf(s.C)

(* compatibility with functions that know their extra arguments as arg: a   *)
(* table of the nvar slots from there on                                     *)
ArgTable(s, from, nvar) ==
  Put(Reinsert(luaH_new(nvar, 1),
               [i \in 1 .. nvar |-> [key |-> Num(i), val |-> Slot(s, from + i - 1)]]),
      Str("n"), Num(nvar))

PushNew(p)   == push(p.s, p.v)
FillTo(s, n) == SetTop(SetNils(s, top(s), n), n)

(* the fixed parameters move above the extra ones, to the new base *)
MoveFixed(s, fixed, nfix) ==
  SetTop(SetNils(Move(s, top(s), fixed, nfix), fixed, fixed + nfix), top(s) + nfix)
adjust_varargs(s, p, func, b) ==
  LET nfix  == p.numparams
      moved == MoveFixed(FillTo(s, b), func + 1, nfix)
  IN IF "NEEDSARG" \in p.is_vararg
     THEN PushNew(NewTable(Asserted(moved, "ldo.c:218", "HASARG" \in p.is_vararg),
                           ArgTable(s, func + 1 + nfix, b - func - 1 - nfix)))
     ELSE moved

(* the metamethod of a value that is called takes its place *)
tryfuncTM(s, func) ==
  LET tm == luaT_gettmbyobj(s, Slot(s, func), "__call")
      up == [s EXCEPT !.th[s.L].stack = [i \in DOMAIN @ |->
               IF func + 1 < i /\ i <= top(s) + 1 THEN @[i - 1] ELSE @[i]]]
  IN IF ttype(tm) # "fun" THEN luaG_typeerror(s, Slot(s, func), "call")
     ELSE SetSlot(incr_top(up), func, tm)

EnterLua(s) ==
  LET ci == CI(s)
      a  == Asserted(s, "ldo.c:292", ci.top <= stack_last(T(s)))
  IN Do(s, [SetNils(a, top(s), ci.top) EXCEPT !.th[s.L].base = ci.base, !.th[s.L].top = ci.top,
                                              !.th[s.L].savedpc = 0, !.ret = "PCRLUA"])

(* the arguments from func + 1 to the top become the parameters, at base *)
Arguments(s, p, func, b) ==
  IF p.is_vararg # {} THEN adjust_varargs(s, p, func, b)
  ELSE IF top(s) > b + p.numparams THEN SetTop(s, b + p.numparams) ELSE s

PrecallLua(s, func, nresults) ==
  LET p == ProtoOf(Closure(s, Slot(s, func)).f)
      fixed == func + 1 + p.numparams
      b == CASE p.is_vararg = {} -> func + 1
             [] p.is_vararg # {} -> IF top(s) < fixed THEN fixed ELSE top(s)
  IN EnterLua(inc_ci(Arguments(luaD_checkstack(s, p.maxstacksize), p, func, b),
                     CallInfo(func, b, b + p.maxstacksize, nresults)))

(* the C function itself is entered by the next step *)
EnterC(s) ==
  LET ci == CI(s)
      a  == Asserted(s, "ldo.c:314", ci.top <= stack_last(T(s)))
  IN Do(s, PushC([a EXCEPT !.th[s.L].base = ci.base, !.ret = "", !.status = 0],
                 [k |-> "C", f |-> Closure(s, Slot(s, ci.func)).f, at |-> ""]))

PrecallC(s, func, nresults) ==
  EnterC(inc_ci(luaD_checkstack(s, LUA_MINSTACK),
                CallInfo(func, func + 1, top(s) + LUA_MINSTACK, nresults)))

PrecallFun(s, func, nresults) ==
  LET saved == [s EXCEPT !.th[s.L].ci[Len(T(s).ci)].savedpc = T(s).savedpc]
  IN CASE ~Ok(s) -> s
       [] Ok(s) /\ Closure(s, Slot(s, func)).isC -> PrecallC(saved, func, nresults)
       [] OTHER -> PrecallLua(saved, func, nresults)

luaD_precall(s, func, nresults) ==
  PrecallFun(IF ttype(Slot(s, func)) = "fun" THEN s ELSE tryfuncTM(s, func), func, nresults)

(* the results take the place of the function *)
wanted_results(ci, have) == IF ci.nresults = LUA_MULTRET THEN have ELSE ci.nresults
luaD_poscall(s, firstResult) ==
  LET ci    == CI(s)
      below == T(s).ci[Len(T(s).ci) - 1]
      have  == top(s) - firstResult
      wanted == wanted_results(ci, have)
      n     == IF have < wanted THEN have ELSE wanted
  IN [SetNils(Move(s, ci.func, firstResult, n), ci.func + n, ci.func + wanted) EXCEPT
        !.th[s.L].ci = FrontOf(@), !.th[s.L].base = below.base,
        !.th[s.L].savedpc = below.savedpc, !.th[s.L].top = ci.func + wanted]

(* for a fixed number of results the caller puts its own top back *)
OwnTop(s) == SetTop(s, CI(s).top)
(* the top is left where the results end, *)
ReturnToNot(s, firstResult) == luaD_poscall(s, firstResult)
ReturnTo(s, firstResult) ==
  IF CI(s).nresults = LUA_MULTRET THEN luaD_poscall(s, firstResult)
  ELSE OwnTop(luaD_poscall(s, firstResult))

(* luaV_execute follows when a Lua function was called *)
Execute(s, n) == PushC([s EXCEPT !.ret = ""], [k |-> "execute", n |-> n])

IfLua(s, n) == IF Ok(s) /\ s.ret = "PCRLUA" THEN Execute(s, n) ELSE s

Called(s, func, nResults) ==
  LET n == T(s).nCcalls
  IN CASE n = LUAI_MAXCCALLS -> luaG_runerror(s, "C stack overflow")
       [] n >= LUAI_MAXCCALLS + LUAI_MAXCCALLS \div 8 -> luaD_throw(s, "ERRERR")
       [] OTHER -> IfLua(luaD_precall(s, func, nResults), 1)
luaD_call(s, func, nResults) ==
  Called(PushC([s EXCEPT !.th[s.L].nCcalls = @ + 1], [k |-> "call", ci |-> Len(T(s).ci)]),
         func, nResults)

(* luaD_pcall with f_call *)
luaD_pcall(s, func, nresults, ef) ==
  LET fr == [k |-> "pcall", ci |-> Len(T(s).ci), nCcalls |-> T(s).nCcalls,
             errfunc |-> T(s).errfunc, oldtop |-> func, nresults |-> nresults]
  IN luaD_call(PushC([s EXCEPT !.th[s.L].errfunc = ef], fr), func, nresults)

luaD_seterrorobj(s, errcode, oldtop) ==
  SetTop(SetSlot(s, oldtop, IF errcode = "ERRERR" THEN Str("error in error handling")
                                                  ELSE Slot(s, top(s) - 1)), oldtop + 1)

adjustresults(s, nres) ==
  IF nres = LUA_MULTRET /\ top(s) >= CI(s).top
  THEN [s EXCEPT !.th[s.L].ci[Len(T(s).ci)].top = top(s)] ELSE s

(* the other way out of luaD_pcall *)
(* the number of C calls stays as it was when the error was raised, *)
RestoredNot(s, fr) ==
  [s EXCEPT !.th[s.L].ci = SubSeq(@, 1, fr.ci),
            !.th[s.L].base = T(s).ci[fr.ci].base, !.th[s.L].savedpc = T(s).ci[fr.ci].savedpc]
Restored(s, fr) ==
  [s EXCEPT !.th[s.L].nCcalls = fr.nCcalls, !.th[s.L].ci = SubSeq(@, 1, fr.ci),
            !.th[s.L].base = T(s).ci[fr.ci].base, !.th[s.L].savedpc = T(s).ci[fr.ci].savedpc]
Caught(s, fr) ==
  restore_stack_limit(Restored(luaD_seterrorobj(luaF_close(s, fr.oldtop), s.err, fr.oldtop), fr))

(* lua_pcall returns *)
LeavePcall(s, fr, status) ==
  adjustresults([PopC(s) EXCEPT !.th[s.L].errfunc = fr.errfunc, !.status = status, !.ret = "PCRC"],
                fr.nresults)

(* lua_resume returns to the thread that called it *)
LeaveResume(s, fr, status) ==
  [PopC(s) EXCEPT !.th[s.L].nCcalls = @ - 1, !.L = fr.from, !.status = status,
                  !.ret = "PCRC", !.err = ""]

ErrorOnTop(s) == [s EXCEPT !.th[s.L].ci[Len(T(s).ci)].top = top(s)]
(* mutant: a coroutine that died of an error is not marked so *)
DeadThreadMarkedNot(s, status) == ErrorOnTop(luaD_seterrorobj(s, s.err, top(s)))
DeadThread(s, status) ==
  ErrorOnTop(luaD_seterrorobj([s EXCEPT !.th[s.L].status = status], s.err, top(s)))

-----------------------------------------------------------------------------
(* Coroutines. *)

resume_error(s, msg) ==
  LET b == CI(s).base
  IN [incr_top(SetSlot(SetTop(s, b), b, Str(msg))) EXCEPT !.status = LUA_ERRRUN]

(* luaV_execute runs all the Lua functions of the coroutine *)
AllLua(s) == Execute(s, Len(T(s).ci) - 1)
Start(s, firstArg) ==
  luaD_precall(Asserted(s, "ldo.c:387", Len(T(s).ci) = 1 /\ firstArg > base(s)), firstArg - 1, LUA_MULTRET)
StartLua(s) == IF Ok(s) /\ s.ret = "PCRLUA" THEN AllLua(s) ELSE s

(* a coroutine that goes on is no longer suspended; mutant: it stays so *)
GoesOnNot(s) == s
GoesOn(s) == [s EXCEPT !.th[s.L].status = 0]

(* the coroutine starts, or the yield it is in returns *)
ResumeBody(s, firstArg) ==
  LET caller == T(s).ci[Len(T(s).ci) - 1]
      last == At(ProtoOf(Closure(s, Slot(s, caller.func)).f).code, caller.savedpc - 1)
  IN IF T(s).status = 0 THEN StartLua(Start(s, firstArg))
     ELSE AllLua(ReturnTo(Asserted(GoesOn(s), "ldo.c:396",
                                   last.op \in {"OP_CALL", "OP_TAILCALL"}), firstArg))

(* s.L is the caller still; co has narg arguments on its stack *)
lua_resume(s, co, narg) ==
  LET in   == [s EXCEPT !.L = co]
      out(r) == [r EXCEPT !.L = s.L, !.ret = "PCRC"]
      t    == s.th[co]
      a    == Asserted(in, "ldo.c:425", t.errfunc = 0)
      run  == PushC([a EXCEPT !.th[co].nCcalls = @ + 1, !.th[co].baseCcalls = t.nCcalls + 1],
                    [k |-> "resume", from |-> s.L])
      suspended == t.status = LUA_YIELD \/ (t.status = 0 /\ Len(t.ci) = 1)
  IN CASE ~suspended -> out(resume_error(in, "cannot resume non-suspended coroutine"))
       [] suspended /\ t.nCcalls >= LUAI_MAXCCALLS -> out(resume_error(in, "C stack overflow"))
       [] OTHER -> ResumeBody(run, t.top - narg)

(* the C function that calls it returns -1 *)
(* mutant: and may do so below a C call *)
YieldAnywhere(s, nresults) ==
  [s EXCEPT !.th[s.L].base = top(s) - nresults, !.th[s.L].status = LUA_YIELD]
lua_yield(s, nresults) ==
  IF T(s).nCcalls > T(s).baseCcalls
  THEN luaG_runerror(s, "attempt to yield across metamethod/C-call boundary")
  ELSE [s EXCEPT !.th[s.L].base = top(s) - nresults, !.th[s.L].status = LUA_YIELD]

(* a C function returns n results; -1 says that it has yielded *)
Return(s, n) ==
  IF ~Ok(s) THEN s
  ELSE IF n < 0 THEN [PopC(s) EXCEPT !.ret = "PCRYIELD"]
  ELSE [PopC(luaD_poscall(s, top(s) - n)) EXCEPT !.ret = "PCRC"]
=============================================================================
