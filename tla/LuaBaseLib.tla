----------------------------- MODULE LuaBaseLib -----------------------------
(* The basic and the coroutine library (lbaselib.c), and the function of     *)
(* promidi that returns -1: C functions, cut into steps where they call into *)
(* Lua.  A function is an operator on the state in which it has just been    *)
(* entered, or to which the call it made has returned (the operators named   *)
(* after what comes then).  print, dofile and the other readers of files are *)
(* left out, newproxy and collectgarbage too.                                *)
EXTENDS LuaApi

-----------------------------------------------------------------------------
(* Values. *)

PushType(s)  == Return(lua_pushstring(s, typename(Value(s, 1))), 1)
luaB_type(s) == PushType(luaL_checkany(s, 1))

luaB_rawequal(s) ==
  LET c == luaL_checkany(luaL_checkany(s, 1), 2)
  IN Return(lua_pushboolean(c, lua_rawequal(c, 1, 2)), 1)

luaB_rawget(s) ==
  Return(lua_rawget(lua_settop(luaL_checkany(luaL_checktype(s, 1, "tab"), 2), 2), 1), 1)

luaB_rawset(s) ==
  LET c == luaL_checkany(luaL_checkany(luaL_checktype(s, 1, "tab"), 2), 3)
  IN Return(lua_rawset(lua_settop(c, 3), 1), 1)

(* digits valid in a base, as strtoul reads them *)
strtoul(text, radix) ==
  LET a == Skip(text, 1, isspace)
      isdig(c) == isalnum(c) /\ DigitValue(c) < radix
      b == Skip(text, a, isdig)
  IN IF b = a \/ Skip(text, b, isspace) <= Len(text) THEN nil
     ELSE Num(NumeralValue(SubSeq(text, a, b - 1), radix))

tonumber_of(s) == Return(Do(s, api_push(s, luaV_tonumber(Value(s, 1)))), 1)
InRadix(s, radix) == Return(Do(s, api_push(s, strtoul(Value(s, 1)[2], radix))), 1)
Converted(s, radix) ==
  IF radix = 10 THEN tonumber_of(luaL_checkany(s, 1))
  ELSE InRadix(luaL_argcheck(luaL_checkstring(s, 1), radix \in 2 .. 36, "base out of range"), radix)
luaB_tonumber(s) == Converted(luaL_optint(s, 2), optint(s, 2, 10))

(* the text of a value that has no metamethod for it; addresses are left out *)
TextOf(v) ==
  CASE ttype(v) = "num" -> lua_number2str(v)
    [] ttype(v) = "str" -> v[2]
    [] ttype(v) = "bool" -> IF v[2] THEN "true" ELSE "false"
    [] OTHER -> typename(v)

PushText(s) ==
  IF Ok(s) /\ MetaField(s, 1, "__tostring") # nil
  THEN lua_call(lua_pushvalue(luaL_getmetafield(s, 1, "__tostring"), 1), 1, 1, "luaB_tostring")
  ELSE Return(lua_pushstring(s, TextOf(Value(s, 1))), 1)
luaB_tostring(s) == PushText(luaL_checkany(s, 1))

PushMetatable(s) ==
  Return(IF Ok(s) /\ HasMetatable(s, 1)
         THEN luaL_getmetafield(lua_getmetatable(s, 1), 1, "__metatable") ELSE lua_pushnil(s), 1)
luaB_getmetatable(s) == PushMetatable(luaL_checkany(s, 1))

SetMetatable(s) ==
  IF Ok(s) /\ MetaField(s, 1, "__metatable") # nil
  THEN luaL_error(luaL_getmetafield(s, 1, "__metatable"), "cannot change a protected metatable")
  ELSE Return(lua_setmetatable(lua_settop(s, 2), 1), 1)
luaB_setmetatable(s) ==
  SetMetatable(luaL_argcheck(luaL_checktype(s, 1, "tab"), lua_type(s, 2) \in {"nil", "tab"},
                             "nil or table expected"))

-----------------------------------------------------------------------------
(* Environments. *)

(* lua_getstack: the index of the call at a level, 0 for a tail call that is *)
(* lost, -1 if there is none                                                 *)
RECURSIVE lua_getstack(_, _, _)
lua_getstack(s, level, i) ==
  LET ci   == T(s).ci[i]
      lost == IF f_isLua(s, ci) THEN ci.tailcalls ELSE 0
  IN CASE level < 0 -> 0
       [] level = 0 -> IF i > 1 THEN i ELSE -1
       [] OTHER -> IF i = 1 THEN -1 ELSE lua_getstack(s, level - 1 - lost, i - 1)

(* pushes the function that is meant by the first argument *)
FuncOfCall(s, i) ==
  CASE ~Ok(s) -> s
    [] Ok(s) /\ i = -1 -> luaL_error(s, "invalid level")
    [] Ok(s) /\ i = 0 -> luaL_error(lua_pushnil(s), "no function environment for tail call")
    [] OTHER -> api_push(s, Slot(s, T(s).ci[i].func))
FuncAtLevel(s, level) == FuncOfCall(s, lua_getstack(s, level, Len(T(s).ci)))
CheckLevel(s, level) ==
  FuncAtLevel(luaL_argcheck(s, level >= 0, "level must be non-negative"), level)
getfunc(s, opt) ==
  IF lua_type(s, 1) = "fun" THEN lua_pushvalue(s, 1)
  ELSE CheckLevel(IF opt THEN luaL_optint(s, 1) ELSE luaL_checkint(s, 1), optint(s, 1, 1))

PushEnv(s) ==
  Return(IF Ok(s) /\ lua_iscfunction(s, -1) THEN lua_pushvalue(s, LUA_GLOBALSINDEX)
                                             ELSE lua_getfenv(s, -1), 1)
luaB_getfenv(s) == PushEnv(getfunc(s, TRUE))

(* the function and its new environment are on the stack; level 0 is the thread *)
SetEnv(s) ==
  CASE ~Ok(s) -> s
    [] Ok(s) /\ luaV_tonumber(Value(s, 1)) = Num(0) ->
         Return(lua_setfenv(lua_insert(lua_pushthread(s), -2), -2), 0)
    [] OTHER ->
         IF lua_iscfunction(s, -2) THEN luaL_error(s, "setfenv cannot change environment of given object")
         ELSE Return(lua_setfenv(s, -2), 1)
luaB_setfenv(s) == SetEnv(lua_pushvalue(getfunc(luaL_checktype(s, 2, "tab"), FALSE), 2))

-----------------------------------------------------------------------------
(* Traversal and argument lists. *)

PushNext(s) == IF Ok(s) /\ lua_gettop(s) = 3 THEN Return(s, 2) ELSE Return(lua_pushnil(s), 1)
luaB_next(s) == PushNext(lua_next(lua_settop(luaL_checktype(s, 1, "tab"), 2), 1))

(* the iterator, the table and where it begins *)
Iteration(s) == lua_pushvalue(lua_pushvalue(s, lua_upvalueindex(1)), 1)
luaB_pairs(s)  == Return(lua_pushnil(Iteration(luaL_checktype(s, 1, "tab"))), 3)
luaB_ipairs(s) == Return(lua_pushinteger(Iteration(luaL_checktype(s, 1, "tab")), 0), 3)

NextIndex(s, i)  == lua_rawgeti(lua_pushinteger(s, i), 1, i)
EndAtNil(s)      == Do(s, Return(s, IF Value(s, -1) = nil THEN 0 ELSE 2))
ipairsaux(s) == EndAtNil(NextIndex(luaL_checktype(luaL_checkint(s, 2), 1, "tab"), lua_tointeger(s, 2) + 1))

RECURSIVE PushFields(_, _, _)
PushFields(s, i, e) == IF i > e THEN s ELSE PushFields(lua_rawgeti(s, 1, i), i + 1, e)

Unpacked(s, i, e) ==
  LET n == e - i + 1
  IN CASE ~Ok(s) -> s
       [] Ok(s) /\ i > e -> Return(s, 0)
       [] Ok(s) /\ i <= e /\ ~CanGrow(s, n) -> luaL_error(s, "too many results to unpack")
       [] OTHER -> Return(PushFields(lua_checkstack(s, n), i, e), n)
luaB_unpack(s) ==
  Unpacked(luaL_optint(luaL_optint(luaL_checktype(s, 1, "tab"), 2), 3),
           optint(s, 2, 1), optint(s, 3, lua_objlen(s, 1)))

FromArg(s, n, i) == Return(luaL_argcheck(s, 1 <= i, "index out of range"), n - i)
FromEither(s, n, i) ==
  FromArg(s, n, CASE i < 0 -> n + i
                  [] i > n -> n
                  [] OTHER -> i)
luaB_select(s) ==
  IF lua_type(s, 1) = "str" /\ Ch(Value(s, 1)[2], 1) = "#"
  THEN Return(lua_pushinteger(s, lua_gettop(s) - 1), 1)
  ELSE FromEither(luaL_checkint(s, 1), lua_gettop(s), lua_tointeger(s, 1))

-----------------------------------------------------------------------------
(* Errors, protected calls and chunks. *)

luaB_error(s) == lua_error(lua_settop(luaL_optint(s, 2), 1))

AssertionFailed(s) ==
  luaL_error(s, IF lua_isnoneornil(s, 2) THEN "assertion failed!" ELSE Value(s, 2)[2])
AssertTrue(s) ==
  CASE ~Ok(s) \/ lua_toboolean(s, 1) -> Return(s, lua_gettop(s))
    [] OTHER -> AssertionFailed(IF lua_isnoneornil(s, 2) THEN s ELSE luaL_checkstring(s, 2))
luaB_assert(s) == AssertTrue(luaL_checkany(s, 1))

luaB_pcall(s) ==
  lua_pcall(luaL_checkany(s, 1), lua_gettop(s) - 1, LUA_MULTRET, 0, "luaB_pcall")
AllResults(s) == Return(s, lua_gettop(s))
AfterPcall(s) == AllResults(lua_insert(lua_pushboolean(s, s.status = 0), 1))

luaB_xpcall(s) ==
  lua_pcall(lua_insert(lua_settop(luaL_checkany(s, 2), 2), 1), 0, LUA_MULTRET, 1, "luaB_xpcall")
AfterXpcall(s) == AllResults(lua_replace(lua_pushboolean(s, s.status = 0), 1))

load_aux(s) == IF s.status = 0 THEN Return(s, 1) ELSE Return(lua_insert(lua_pushnil(s), -2), 2)
LoadArg(s) == Do(s, load_aux(lua_load(s, Value(s, 1)[2])))
luaB_loadstring(s) == LoadArg(luaL_checkstring(s, 1))

-----------------------------------------------------------------------------
(* Coroutines. *)

costatus(s, co) ==
  LET t == s.th[co]
  IN CASE co = s.L -> "running"
       [] co # s.L /\ t.status = LUA_YIELD -> "suspended"
       [] co # s.L /\ t.status = 0 ->
            CASE Len(t.ci) > 1 -> "normal"
              [] Len(t.ci) = 1 /\ t.top = t.base -> "dead"
              [] OTHER -> "suspended"
       [] OTHER -> "dead"

(* -1 results: an error, its message on the stack *)
Refused(s, co, at) ==
  [lua_pushstring(s, "cannot resume " \o costatus(s, co) \o " coroutine")
     EXCEPT !.status = LUA_ERRRUN, !.ret = "refused", !.C[Len(s.C)].at = at]
ResumeWith(s, co, narg, at) ==
  CASE ~Ok(s) -> s
    [] Ok(s) /\ costatus(s, co) # "suspended" -> Refused(s, co, at)
    [] OTHER -> lua_resume([lua_setlevel(lua_xmove(s, s.L, co, narg), s.L, co)
                              EXCEPT !.C[Len(s.C)].at = at], co, narg)
auxresume(s, co, narg, at) ==
  LET t == s.th[co]
  IN ResumeWith(IF narg <= LUAI_MAXCSTACK /\ t.top - t.base + narg <= LUAI_MAXCSTACK
                THEN On(s, co, LAMBDA x : lua_checkstack(x, narg))
                ELSE luaL_error(s, "too many arguments to resume"), co, narg, at)

(* [s, r]: what is moved to the caller's stack after lua_resume, and r *)
Resumed(s, co) ==
  LET nres == s.th[co].top - s.th[co].base
      good == s.status \in {0, LUA_YIELD}
      c == IF CanGrow(s, nres + 1) THEN lua_checkstack(s, nres + 1)
           ELSE luaL_error(s, "too many results to resume")
  IN CASE s.ret = "refused" -> [s |-> s, r |-> -1]
       [] s.ret # "refused" /\ good -> [s |-> lua_xmove(c, co, s.L, nres), r |-> nres]
       [] OTHER -> [s |-> lua_xmove(s, co, s.L, 1), r |-> -1]

CheckThread(s) == luaL_argcheck(s, lua_type(s, 1) = "thr", "coroutine expected")
ResumeArg(s) == Do(s, auxresume(s, Value(s, 1)[2], lua_gettop(s) - 1, "luaB_coresume"))
luaB_coresume(s) == ResumeArg(CheckThread(s))
ToldHow(x) ==
  IF x.r < 0 THEN Return(lua_insert(lua_pushboolean(x.s, FALSE), -2), 2)
             ELSE Return(lua_insert(lua_pushboolean(x.s, TRUE), -(x.r + 1)), x.r + 1)
AfterCoresume(s) == ToldHow(Resumed(s, Value(s, 1)[2]))

WrappedThread(s) == Value(s, lua_upvalueindex(1))[2]
luaB_auxwrap(s) == auxresume(s, WrappedThread(s), lua_gettop(s), "luaB_auxwrap")
OrError(x) == IF x.r < 0 THEN lua_error(x.s) ELSE Return(x.s, x.r)
AfterAuxwrap(s) == OrError(Resumed(s, WrappedThread(s)))

(* the new thread with the function on its stack, pushed *)
MoveFunction(s) == Do(s, lua_xmove(lua_pushvalue(s, 1), s.L, Value(s, -1)[2], 1))
CheckFunction(s) ==
  MoveFunction(luaL_argcheck(s, lua_type(s, 1) = "fun" /\ ~lua_iscfunction(s, 1), "Lua function expected"))
NewCoroutine(s) == CheckFunction(lua_newthread(s))
luaB_cocreate(s) == Return(NewCoroutine(s), 1)
luaB_cowrap(s)   == Return(lua_pushcclosure(NewCoroutine(s), "luaB_auxwrap", 1), 1)

PushStatus(s) == Do(s, Return(lua_pushstring(s, costatus(s, Value(s, 1)[2])), 1))
luaB_costatus(s) == PushStatus(CheckThread(s))

luaB_yield(s) == Return(lua_yield(s, lua_gettop(s)), -1)

luaB_corunning(s) ==
  Return(IF s.L = 1 THEN lua_pushnil(lua_pushthread(s)) ELSE lua_pushthread(s), 1)

(* SendMessage of promidi while no device is open *)
plPlayNote(s) ==
  LET c == luaL_checkint(s, 1)
  IN IF lua_gettop(s) # 5 THEN Return(lua_pushinteger(s, -1), -1)
     ELSE Return(lua_pushinteger(c, -2), 1)

-----------------------------------------------------------------------------
(* The steps of all of them, and the globals they are found in. *)

Enter(s, f) ==
  CASE f = "luaB_type" -> luaB_type(s)
    [] f = "luaB_rawequal" -> luaB_rawequal(s)
    [] f = "luaB_rawget" -> luaB_rawget(s)
    [] f = "luaB_rawset" -> luaB_rawset(s)
    [] f = "luaB_tonumber" -> luaB_tonumber(s)
    [] f = "luaB_tostring" -> luaB_tostring(s)
    [] f = "luaB_getmetatable" -> luaB_getmetatable(s)
    [] f = "luaB_setmetatable" -> luaB_setmetatable(s)
    [] f = "luaB_getfenv" -> luaB_getfenv(s)
    [] f = "luaB_setfenv" -> luaB_setfenv(s)
    [] f = "luaB_next" -> luaB_next(s)
    [] f = "luaB_pairs" -> luaB_pairs(s)
    [] f = "ipairsaux" -> ipairsaux(s)
    [] f = "luaB_ipairs" -> luaB_ipairs(s)
    [] f = "luaB_unpack" -> luaB_unpack(s)
    [] f = "luaB_select" -> luaB_select(s)
    [] f = "luaB_error" -> luaB_error(s)
    [] f = "luaB_assert" -> luaB_assert(s)
    [] f = "luaB_pcall" -> luaB_pcall(s)
    [] f = "luaB_xpcall" -> luaB_xpcall(s)
    [] f = "luaB_loadstring" -> luaB_loadstring(s)
    [] f = "luaB_cocreate" -> luaB_cocreate(s)
    [] f = "luaB_coresume" -> luaB_coresume(s)
    [] f = "luaB_cowrap" -> luaB_cowrap(s)
    [] f = "luaB_auxwrap" -> luaB_auxwrap(s)
    [] f = "luaB_costatus" -> luaB_costatus(s)
    [] f = "luaB_yield" -> luaB_yield(s)
    [] f = "luaB_corunning" -> luaB_corunning(s)
    [] f = "plPlayNote" -> plPlayNote(s)

GoOn(s, f) ==
  CASE f = "luaB_pcall" -> AfterPcall(s)
    [] f = "luaB_xpcall" -> AfterXpcall(s)
    [] f = "luaB_tostring" -> Return(s, 1)
    [] f = "luaB_coresume" -> AfterCoresume(s)
    [] f = "luaB_auxwrap" -> AfterAuxwrap(s)

base_funcs ==
  <<"assert", "error", "getfenv", "getmetatable", "loadstring", "next", "pcall", "rawequal",
    "rawget", "rawset", "select", "setfenv", "setmetatable", "tonumber", "tostring", "type",
    "unpack", "xpcall">>
co_names == <<"create", "resume", "running", "status", "wrap", "yield">>
co_funcs == [create |-> "luaB_cocreate", resume |-> "luaB_coresume", running |-> "luaB_corunning",
             status |-> "luaB_costatus", wrap |-> "luaB_cowrap", yield |-> "luaB_yield"]

(* a C function, with the function that is its upvalue, under a name *)
Register(s, t, name, f, up) ==
  LET u == luaF_newCclosure(s, up, 1, <<>>)
      c == IF up = "" THEN luaF_newCclosure(s, f, 1, <<>>) ELSE luaF_newCclosure(u.s, f, 1, <<u.v>>)
  IN [c.s EXCEPT !.tab[t] = Put(@, Str(name), c.v)]

RECURSIVE RegisterAll(_, _, _, _)
RegisterAll(s, t, names, funcs) ==
  IF names = <<>> THEN s
  ELSE RegisterAll(Register(s, t, Head(names), funcs[Head(names)], ""), t, Tail(names), funcs)

(* a new global table with the functions of a library *)
OpenLibrary(s, lib, names, funcs) ==
  LET t == NewTable(s, luaH_new(0, Len(names)))
      r == RegisterAll(t.s, t.v[2], names, funcs)
  IN [r EXCEPT !.tab[1] = Put(@, Str(lib), t.v)]

luaopen_base(s) ==
  LET g == [s EXCEPT !.tab[1] = Put(@, Str("_G"), Tab(1))]
      b == RegisterAll(g, 1, base_funcs, [n \in Range(base_funcs) |-> "luaB_" \o n])
      i == Register(b, 1, "ipairs", "luaB_ipairs", "ipairsaux")
      p == Register(i, 1, "pairs", "luaB_pairs", "luaB_next")
  IN OpenLibrary(p, "coroutine", co_names, co_funcs)

luaopen_promidi(s) == OpenLibrary(s, "promidi", <<"SendMessage">>, [SendMessage |-> "plPlayNote"])
=============================================================================
