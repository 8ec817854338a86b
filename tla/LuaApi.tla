------------------------------- MODULE LuaApi -------------------------------
(* The functions C code calls (lapi.c) and what lauxlib.c builds from them:  *)
(* operators from a state to the state they leave, with the checks api_check *)
(* makes.  The ones that return a value to C are operators of their own on   *)
(* the state before.  Functions that call into Lua end a step of the C       *)
(* function: they are lua_call, lua_pcall and lua_resume.                    *)
EXTENDS LuaState

LUA_REGISTRYINDEX == -10000
LUA_ENVIRONINDEX  == -10001
LUA_GLOBALSINDEX  == -10002
lua_upvalueindex(i) == LUA_GLOBALSINDEX - i

CONSTANT LUAI_MAXCSTACK
ASSUME CStackAssumption == LUAI_MAXCSTACK \in Nat

(* luaO_nilobject as the result of index2adr *)
None == <<"none">>

-----------------------------------------------------------------------------
(* Indices. *)

(* the value an index leads to *)
Value(s, idx) ==
  LET up == LUA_GLOBALSINDEX - idx
      f  == curr_func(s)
  IN CASE idx > 0 -> IF base(s) + idx - 1 >= top(s) THEN None ELSE Slot(s, base(s) + idx - 1)
       [] idx <= 0 /\ idx > LUA_REGISTRYINDEX -> Slot(s, top(s) + idx)
       [] idx = LUA_REGISTRYINDEX -> Tab(2)
       [] idx = LUA_ENVIRONINDEX  -> Tab(f.env)
       [] idx = LUA_GLOBALSINDEX  -> Tab(T(s).gt)
       [] OTHER -> IF up <= Len(f.upvals) THEN f.upvals[up] ELSE None

(* what index2adr asks of an index of the stack *)
index2adr(s, idx) ==
  LET a == Asserted(s, "lapi.c:52", idx > 0 => idx <= CI(s).top - base(s))
  IN Asserted(a, "lapi.c:57", (idx <= 0 /\ idx > LUA_REGISTRYINDEX) =>
                                idx # 0 /\ -idx <= top(s) - base(s))

(* the slot of an index of the stack *)
SlotOf(s, idx) == IF idx > 0 THEN base(s) + idx - 1 ELSE top(s) + idx

api_checknelems(s, where, n)      == Asserted(s, where, n <= top(s) - base(s))
api_checkvalidindex(s, where, i)  == Asserted(index2adr(s, i), where, Value(s, i) # None)
CheckTable(s, where, i)           == Asserted(index2adr(s, i), where, ttype(Value(s, i)) = "tab")

api_incr_top(s) == SetTop(Asserted(s, "lapi.c:44", top(s) < CI(s).top), top(s) + 1)
api_push(s, v)  == Do(s, api_incr_top(SetSlot(s, top(s), v)))

-----------------------------------------------------------------------------
(* The stack of the running function. *)

lua_gettop(s) == top(s) - base(s)

lua_settop(s, idx) ==
  LET to == base(s) + idx
      p  == Asserted(s, "lapi.c:167", idx >= 0 => idx <= stack_last(T(s)) - base(s))
      n  == Asserted(p, "lapi.c:173", idx < 0 => -(idx + 1) <= top(s) - base(s))
  IN Do(s, IF idx >= 0 THEN SetTop(SetNils(n, top(s), to), to) ELSE SetTop(n, top(s) + idx + 1))

lua_pop(s, n) == lua_settop(s, -n - 1)

lua_remove(s, idx) ==
  LET c == api_checkvalidindex(s, "lapi.c:184", idx)
      p == SlotOf(s, idx)
  IN Do(s, SetTop(Move(c, p, p + 1, top(s) - p - 1), top(s) - 1))

lua_insert(s, idx) ==
  LET c == api_checkvalidindex(s, "lapi.c:196", idx)
      p == SlotOf(s, idx)
  IN Do(s, [c EXCEPT !.th[s.L].stack = [i \in DOMAIN @ |->
              CASE i = p + 1 -> At(@, top(s) - 1)
                [] i > p + 1 /\ i <= top(s) -> @[i - 1]
                [] OTHER -> @[i]]])

lua_replace(s, idx) ==
  LET c == api_checkvalidindex(api_checknelems(s, "lapi.c:209", 1), "lapi.c:211", idx)
      v == Slot(s, top(s) - 1)
      f == Slot(s, CI(s).func)[2]
      e == Asserted(c, "lapi.c:214", idx = LUA_ENVIRONINDEX => ttype(v) = "tab")
      w == CASE idx = LUA_ENVIRONINDEX -> [e EXCEPT !.fun[f].env = v[2]]
             [] idx = LUA_GLOBALSINDEX -> [e EXCEPT !.th[s.L].gt = v[2]]
             [] idx < LUA_GLOBALSINDEX -> [e EXCEPT !.fun[f].upvals[LUA_GLOBALSINDEX - idx] = v]
             [] OTHER -> SetSlot(e, SlotOf(s, idx), v)
  IN Do(s, SetTop(w, top(s) - 1))

lua_pushvalue(s, idx) ==
  Do(s, api_push(index2adr(s, idx), IF Value(s, idx) = None THEN nil ELSE Value(s, idx)))

lua_checkstack(s, size) ==
  LET c == luaD_checkstack(s, size)
  IN IF size > 0 /\ c.th[c.L].ci[Len(T(c).ci)].top < top(c) + size
     THEN [c EXCEPT !.th[s.L].ci[Len(T(s).ci)].top = top(c) + size] ELSE c
CanGrow(s, size) == size <= LUAI_MAXCSTACK /\ top(s) - base(s) + size <= LUAI_MAXCSTACK

(* lua_checkstack on a thread that is not running *)
On(s, co, F(_)) == LET r == F([s EXCEPT !.L = co]) IN [r EXCEPT !.L = s.L]

(* n values move from one thread to another *)
lua_xmove(s, from, to, n) ==
  LET f == s.th[from]
      t == s.th[to]
      c == On(s, from, LAMBDA x : api_checknelems(x, "lapi.c:114", n))
      d == Asserted(c, "lapi.c:116", LastOf(t.ci).top - t.top >= n)
  IN IF from = to \/ ~Ok(s) THEN s
     ELSE [d EXCEPT !.th[from].top = f.top - n,
                    !.th[to].stack = [i \in DOMAIN @ |->
                       IF i > t.top /\ i <= t.top + n THEN f.stack[f.top - n + i - t.top] ELSE @[i]],
                    !.th[to].top = t.top + n]

lua_setlevel(s, from, to) == Do(s, [s EXCEPT !.th[to].nCcalls = s.th[from].nCcalls])

-----------------------------------------------------------------------------
(* Values to C. *)

lua_type(s, idx) == ttype(Value(s, idx))

(* luaV_tonumber: nil if the value is none and cannot be made one *)
luaV_tonumber(v) ==
  CASE ttype(v) = "num" -> v
    [] ttype(v) = "str" -> luaO_str2d(v[2])
    [] OTHER -> nil

luaV_tostring(v) == IF ttype(v) = "num" THEN Str(lua_number2str(v)) ELSE v

lua_isnumber(s, idx)    == luaV_tonumber(Value(s, idx)) # nil
lua_isstring(s, idx)    == lua_type(s, idx) \in {"str", "num"}
lua_isnoneornil(s, idx) == lua_type(s, idx) \in {"none", "nil"}
lua_iscfunction(s, idx) == lua_type(s, idx) = "fun" /\ Closure(s, Value(s, idx)).isC
lua_toboolean(s, idx)   == ~(l_isfalse(Value(s, idx)) \/ Value(s, idx) = None)
OrZero(v)               == IF v = nil THEN Num(0) ELSE v
lua_tonumber(s, idx)    == OrZero(luaV_tonumber(Value(s, idx)))
lua_tointeger(s, idx)   == Floor(lua_tonumber(s, idx))[2]
lua_rawequal(s, i, j)   == /\ Value(s, i) # None /\ Value(s, j) # None
                           /\ luaO_rawequalObj(Value(s, i), Value(s, j))

(* lua_tolstring turns a number on the stack into a string: this is the      *)
(* state afterwards; the string is the value there                           *)
lua_tolstring(s, idx) ==
  IF ttype(Value(s, idx)) = "num"
  THEN Do(s, SetSlot(s, SlotOf(s, idx), luaV_tostring(Value(s, idx)))) ELSE s

lua_objlen(s, idx) ==
  LET v == Value(s, idx)
  IN CASE ttype(v) = "str" -> Len(v[2])
       [] ttype(v) = "num" -> Len(luaV_tostring(v)[2])
       [] ttype(v) = "tab" -> luaH_getn(Table(s, v))
       [] OTHER -> 0

-----------------------------------------------------------------------------
(* Values from C. *)

lua_pushnil(s)        == api_push(s, nil)
lua_pushinteger(s, n) == api_push(s, Num(n))
lua_pushboolean(s, b) == api_push(s, Bool(b))
lua_pushstring(s, x)  == api_push(s, Str(x))
lua_pushthread(s)     == api_push(s, Thr(s.L))

(* C code outside of any function works with the globals *)
getcurrenv(s) == IF Len(T(s).ci) = 1 THEN T(s).gt ELSE curr_func(s).env

lua_pushcclosure(s, fn, n) ==
  LET c  == api_checknelems(s, "lapi.c:490", n)
      up == [i \in 1 .. n |-> Slot(s, top(s) - n + i - 1)]
      cl == luaF_newCclosure(c, fn, getcurrenv(s), up)
  IN Do(s, api_push(SetTop(cl.s, top(s) - n), cl.v))

lua_newthread(s) == LET t == luaE_newthread(s) IN Do(s, api_push(t.s, t.v))

(* metatables and environments *)
lua_getmetatable(s, idx) == Do(s, api_push(s, Tab(metatable(s, Value(s, idx)))))
HasMetatable(s, idx)     == Value(s, idx) # None /\ metatable(s, Value(s, idx)) # 0

lua_setmetatable(s, idx) ==
  LET m  == Slot(s, top(s) - 1)
      o  == Value(s, idx)
      c  == api_checkvalidindex(api_checknelems(s, "lapi.c:701", 1), "lapi.c:703", idx)
      d  == Asserted(c, "lapi.c:707", ttype(m) \in {"nil", "tab"})
      mt == IF m = nil THEN 0 ELSE m[2]
  IN Do(s, SetTop(IF ttype(o) = "tab" THEN [d EXCEPT !.tab[o[2]].metatable = mt]
                                      ELSE [d EXCEPT !.mt[ttype(o)] = mt], top(s) - 1))

lua_getfenv(s, idx) ==
  LET o == Value(s, idx)
  IN Do(s, api_push(api_checkvalidindex(s, "lapi.c:620", idx),
                    CASE ttype(o) = "fun" -> Tab(Closure(s, o).env)
                      [] ttype(o) = "thr" -> Tab(s.th[o[2]].gt)
                      [] OTHER -> nil))

lua_setfenv(s, idx) ==
  LET o == Value(s, idx)
      e == Slot(s, top(s) - 1)
      c == api_checkvalidindex(api_checknelems(s, "lapi.c:738", 1), "lapi.c:740", idx)
      d == Asserted(c, "lapi.c:741", ttype(e) = "tab")
  IN Do(s, SetTop(CASE ttype(o) = "fun" -> [d EXCEPT !.fun[o[2]].env = e[2]]
                    [] ttype(o) = "thr" -> [d EXCEPT !.th[o[2]].gt = e[2]]
                    [] OTHER -> d, top(s) - 1))

-----------------------------------------------------------------------------
(* Tables, without metamethods. *)

lua_rawget(s, idx) ==
  Do(s, SetSlot(CheckTable(s, "lapi.c:561", idx), top(s) - 1,
                luaH_get(Table(s, Value(s, idx)), Slot(s, top(s) - 1))))
lua_rawgeti(s, idx, n) ==
  Do(s, api_push(CheckTable(s, "lapi.c:571", idx), luaH_getnum(Table(s, Value(s, idx)), n)))

(* luaH_set and the store; an error for a key no table has *)
luaH_store(s, id, key, v) ==
  CASE ~Ok(s) -> s
    [] Ok(s) /\ KeyError(key) # "" -> luaG_runerror(s, KeyError(key))
    [] OTHER -> [s EXCEPT !.tab[id] = Put(@, key, v)]

Drop(s, n) == Do(s, SetTop(s, top(s) - n))
lua_rawset(s, idx) ==
  Drop(luaH_store(CheckTable(api_checknelems(s, "lapi.c:674", 2), "lapi.c:676", idx),
                  Value(s, idx)[2], Slot(s, top(s) - 2), Slot(s, top(s) - 1)), 2)

(* the next pair in place of a key, or nothing *)
PushPair(s, n) ==
  CASE n.err # "" -> luaG_runerror(s, n.err)
    [] n.err = "" /\ n.more -> api_push(SetSlot(s, top(s) - 1, n.key), n.val)
    [] OTHER -> SetTop(s, top(s) - 1)
lua_next(s, idx) ==
  Do(s, PushPair(CheckTable(s, "lapi.c:978", idx),
                 luaH_next(Table(s, Value(s, idx)), Slot(s, top(s) - 1))))

-----------------------------------------------------------------------------
(* Calls and errors. *)

checkresults(s, na, nr) ==
  Asserted(s, "lapi.c:773", nr = LUA_MULTRET \/ CI(s).top - top(s) >= nr - na)

(* the C function goes on at the given point; lua_call adjusts the top then *)
lua_call(s, nargs, nresults, at) ==
  LET c == checkresults(api_checknelems(s, "lapi.c:779", nargs + 1), nargs, nresults)
      r == [c EXCEPT !.C[Len(s.C)].at = at]
  IN Do(s, luaD_call(r, top(s) - (nargs + 1), nresults))

lua_pcall(s, nargs, nresults, errfunc, at) ==
  LET c == checkresults(api_checknelems(s, "lapi.c:810", nargs + 1), nargs, nresults)
      d == IF errfunc = 0 THEN c ELSE api_checkvalidindex(c, "lapi.c:816", errfunc)
      r == [d EXCEPT !.C[Len(s.C)].at = at]
  IN Do(s, luaD_pcall(r, top(s) - (nargs + 1), nresults,
                      IF errfunc = 0 THEN 0 ELSE SlotOf(s, errfunc)))

(* luaD_protectedparser: the function, or the message *)
lua_load(s, text) ==
  LET p == Chunks[text].err
      f == luaF_newLclosure(s, <<text>>, T(s).gt, <<>>)
  IN Do(s, IF p = "" THEN [incr_top(SetSlot(f.s, top(s), f.v)) EXCEPT !.status = 0]
           ELSE [luaD_seterrorobj(incr_top(SetSlot(s, top(s), Str(p))), "ERRSYNTAX", top(s))
                   EXCEPT !.status = LUA_ERRSYNTAX])

lua_error(s) == Do(s, luaG_errormsg(api_checknelems(s, "lapi.c:966", 1)))

(* luaL_where and the texts it would add are left out *)
luaL_error(s, msg) == lua_error(lua_pushstring(s, msg))

luaL_argcheck(s, c, msg) == IF c THEN s ELSE Do(s, luaL_error(s, "bad argument: " \o msg))
luaL_checkany(s, narg)   == luaL_argcheck(s, lua_type(s, narg) # "none", "value expected")
luaL_checktype(s, narg, t) ==
  luaL_argcheck(s, lua_type(s, narg) = t, t \o " expected")
luaL_checkint(s, narg)   == luaL_argcheck(s, lua_isnumber(s, narg), "number expected")
luaL_optint(s, narg)    == IF lua_isnoneornil(s, narg) THEN s ELSE luaL_checkint(s, narg)
optint(s, narg, def)    == IF lua_isnoneornil(s, narg) THEN def ELSE lua_tointeger(s, narg)
luaL_checkstring(s, narg) ==
  lua_tolstring(luaL_argcheck(s, lua_isstring(s, narg), "string expected"), narg)

(* pushes the field of the metatable, if there is one *)
MetaField(s, obj, event) ==
  IF HasMetatable(s, obj) THEN luaH_getstr(s.tab[metatable(s, Value(s, obj))], Str(event)) ELSE nil
KeepField(s) == IF Value(s, -1) = nil THEN lua_pop(s, 2) ELSE lua_remove(s, -2)
luaL_getmetafield(s, obj, event) ==
  Do(s, IF ~HasMetatable(s, obj) THEN s
        ELSE KeepField(lua_rawget(lua_pushstring(lua_getmetatable(s, obj), event), -2)))

(* the text of values that are all strings or numbers *)
RECURSIVE Concatenated(_, _, _)
Concatenated(s, from, n) ==
  IF n = 0 THEN "" ELSE luaV_tostring(Slot(s, from))[2] \o Concatenated(s, from + 1, n - 1)
=============================================================================
