------------------------------- MODULE MCLuaVM -------------------------------
(* Programs for the virtual machine, with what they return. *)
EXTENDS LuaVM

(* addresses and hash values: anything will do that spreads *)
MCHash(key) ==
  CASE ttype(key) = "num"  -> Abs(key[2]) + key[3]
    [] ttype(key) = "str"  -> IF key[2] = "" THEN 0 ELSE 3 * Len(key[2]) + CharCode[Ch(key[2], 1)]
    [] ttype(key) = "bool" -> IF key[2] THEN 1 ELSE 0
    [] ttype(key) = "nil"  -> 0
    [] OTHER -> 5 * key[2] + 2

NumSeq(s) == [i \in DOMAIN s |-> Num(s[i])]

T_ == Bool(TRUE)
F_ == Bool(FALSE)

Returns ==
{  (* operators *)
  <<"local a, b = 7, '3' return a + b, a - b, a * 2, a / 2, a % 4, -a % 4, 2 ^ 3, -a, -'2', 1 / 0 > 5",
       <<Num(10), Num(4), Num(14), <<"num", 7, 2>>, Num(3), Num(1), Num(8), Num(-7), Num(-2), T_>>>>,
   <<"local a, b, s = 1, 2, 'ab' return a < b, a >= b, s <= 'b', not (a == b), s ~= 'ab', s > 'aa', #s, 'x' .. a .. s .. ''",
       <<T_, F_, T_, T_, F_, T_, Num(2), Str("x1ab")>>>>,
   <<"local n, x = 0 / 0, nil return n == n, x == false, not x, {} == {}",
       <<F_, F_, T_, F_>>>>,
  (* control *)
   <<"local s = 0 for i = 3, 1, -1 do s = s * 10 + i end for i = 1, 0 do s = 0 end for i = '1', 2 do s = s + i end return s",
       NumSeq(<<324>>)>>,
   <<"local i, s = 0, 0 while i < 9 do i = i + 1 if i == 3 then s = s + 10 elseif i > 4 then break else s = s + 1 end end return i, s",
       NumSeq(<<5, 13>>)>>,
   <<"local i, f = 0 repeat local j = i f = f or function() j = j + 1 return j end i = i + 1 until j == 2 return i, f(), f()",
       NumSeq(<<3, 1, 2>>)>>,
   <<"local i, a = 1, {} i, a[i] = i + 1, 20 local x, y = 1, 2 x, y = y, x return i, a[1], a[2], x, y",
       <<Num(2), Num(20), Nil, Num(2), Num(1)>>>>,
  (* closures *)
   <<"local t = {} for i = 1, 2 do t[i] = function() i = i + 1 return i end end return t[1](), t[1](), t[2]()",
       NumSeq(<<2, 3, 3>>)>>,
   <<"local function mk() local n = 0 return function() n = n + 1 return n end, function() return n end end local a, b = mk() a() a() return b(), mk()()",
       NumSeq(<<2, 1>>)>>,
   <<"while true do local x = 5 f = function() return x end break end return f()",
       NumSeq(<<5>>)>>,
   <<"local g pcall(function() local x = 1 g = function() return x end x = 2 error('e') end) return g()",
       NumSeq(<<2>>)>>,
   <<"local a = 1 local function f() return function() a = a + 1 return a end end f()() return f()(), a",
       NumSeq(<<3, 3>>)>>,
  (* functions *)
   <<"local function f(a, b, ...) local c, d = ... return select('#', ...), b, c, d, ... end return f(1, 2, 3)",
       <<Num(1), Num(2), Num(3), Nil, Num(3)>>>>,
   <<"local function f(...) return arg.n, arg[2] end local function g(...) return ... end return f(4, 5), (g(1, 2)), g(), g(8, 9)",
       <<Num(2), Num(1), Nil, Num(8), Num(9)>>>>,
   <<"local function loop(n) if n == 0 then return 'done' end return loop(n - 1) end return loop(18)",
       <<Str("done")>>>>,
   <<"local o = {n = 3} function o:add(k) self.n = self.n + k return self end return o:add(2):add(1).n",
       NumSeq(<<6>>)>>,
   <<"local function down(n) if n > 0 then return 1 + down(n - 1) else return 0 end end return down(5), (pcall(down, 30))",
       <<Num(5), F_>>>>,
  (* tables *)
   <<"local function two() return 8, 9 end local t = {1, 2, 3, x = 4, two()} return #t, t[5], t.x, t[6], #{two(), nil, 5}",
       <<Num(5), Num(9), Num(4), Nil, Num(3)>>>>,
   <<"local t, s = {}, 0 for i = 1, 4 do t[i] = i end for k, v in pairs(t) do t[k] = nil s = s + v end return s, next(t), #t",
       <<Num(10), Nil, Num(0)>>>>,
   <<"local t = {1, 2, nil, 4} local s = 0 for i, v in ipairs(t) do s = s + i * v end t[1] = nil return s, unpack({5, 6}, 1, 3)",
       <<Num(5), Num(5), Num(6), Nil>>>>,
   <<"return rawequal(1, 1), rawget({9}, 1), #rawset({}, 1, 2), tonumber('0x1F'), tonumber('z', 36), tonumber('q'), type(nil), tostring(5)",
       <<T_, Num(9), Num(1), Num(31), Num(35), Nil, Str("nil"), Str("5")>>>>,
  (* metatables *)
   <<"local t = setmetatable({}, {__index = function(t, k) return k .. 1 end, __newindex = function(t, k, v) rawset(t, k, v * 2) end}) t.x = 4 t.x = 5 t.y = 1 return t.x, t.y, t.z",
       <<Num(5), Num(2), Str("z1")>>>>,
   <<"local a = {v = 6} local b = setmetatable({}, {__index = setmetatable({}, {__index = a}), __newindex = a}) b.w = 7 return b.v, a.w, rawget(b, 'w'), b.q",
       <<Num(6), Num(7), Nil, Nil>>>>,
   <<"local t = {} setmetatable(t, {__index = t}) return pcall(function() return t.x end), (pcall(function() setmetatable(t, {__newindex = t}) t.y = 1 end))",
       <<F_, F_>>>>,
   <<"local m = {} m.__add = function(a, b) return 'add' end m.__concat = function(a, b) return 'cat' end m.__call = function(f, x) return x end m.__unm = function() return 'neg' end local t = setmetatable({}, m) return 1 + t, t + 1, 'a' .. 'b' .. t .. 'c', t(3), -t",
       <<Str("add"), Str("add"), Str("abcat"), Num(3), Str("neg")>>>>,
   <<"local m = {__eq = function() return 1 end, __lt = function(a, b) return a.v < b.v end, __tostring = function(t) return 'v' .. t.v end} local function new(v) return setmetatable({v = v}, m) end local a, b = new(1), new(2) return a == b, a < b, a <= b, b <= a, a == {}, tostring(b)",
       <<T_, T_, T_, F_, F_, Str("v2")>>>>,
   <<"local m = {__le = function() return nil end, __metatable = 'locked'} local a, b = setmetatable({}, m), setmetatable({}, m) if a <= b then return 1 end return getmetatable(a), (pcall(setmetatable, a, nil)), a ~= b",
       <<Str("locked"), F_, T_>>>>,
   <<"local m = {} local t = setmetatable({}, m) local a = t.x m.__index = {x = 5} local b = t.x m.__index = nil return a, b, t.x, t == setmetatable({}, m)",
       <<Nil, Num(5), Nil, F_>>>>,
  (* errors *)
   <<"return pcall(error, 7)",
       <<F_, Num(7)>>>>,
   <<"return pcall(pcall, error, 7)",
       <<T_, F_, Num(7)>>>>,
   <<"return xpcall(function() error('x') end, function(m) return m .. 'h' end)",
       <<F_, Str("xh")>>>>,
   <<"return xpcall(function() error('x') end, function(m) error(m) end)",
       <<F_, Str("error in error handling")>>>>,
   <<"return xpcall(error, 5)",
       <<F_, Str("error in error handling")>>>>,
   <<"local function f() return pcall(f) end return (f())",
       <<T_>>>>,
   <<"local n = 0 local function f() n = n + 1 return 1 + f() end local a = pcall(f) local m = n n = 0 return a, pcall(f) == a, m, n, xpcall(f, function() return 1 + f() end)",
       <<F_, T_, Num(13), Num(13), F_, Str("error in error handling")>>>>,
   <<"local e = function(f) return (pcall(f)) end return e(function() return nil + 1 end), e(function() return {} < {} end), e(function() return 1 < 'a' end), e(function() return 'a' .. nil end), e(function() return #nil end), e(function() local n return n.x end), e(function() nil_() end), e(function() local t = {} t[nil] = 1 end), e(function() for i = 1, 'x' do end end)",
       <<F_, F_, F_, F_, F_, F_, F_, F_, F_>>>>,
   <<"local f, m = loadstring('x = = 1') return f, type(m), loadstring('return 5')(), (pcall(assert, false)), assert(1, 2)",
       <<Nil, Str("string"), Num(5), F_, Num(1), Num(2)>>>>,
  (* environments *)
   <<"x = 1 local function f() return x end setfenv(f, {x = 9}) local a = f() setfenv(1, {f = f, getfenv = getfenv}) return a, x, getfenv(1).f == f, getfenv(f).x",
       <<Num(9), Nil, T_, Num(9)>>>>,
  (* coroutines *)
   <<"local co = coroutine.wrap(function(a) local b = coroutine.yield(a + 1) return b * 2 end) return co(1), co(5), (pcall(co))",
       <<Num(2), Num(10), F_>>>>,
   <<"local co co = coroutine.create(function() local s = coroutine.status(co) local ok = coroutine.resume(co) coroutine.yield(s, ok) error('e') end) local a, b, c = coroutine.resume(co) local d, e = coroutine.resume(co) return a, b, c, d, e, coroutine.status(co), (coroutine.resume(co)), coroutine.running()",
       <<T_, Str("running"), F_, F_, Str("e"), Str("dead"), F_, Nil>>>>,
   <<"local outer = coroutine.running() local co = coroutine.wrap(function() local x = 1 coroutine.yield(function() x = x + 1 return x end) return x end) local inc = co() inc() inc() return co(), inc(), outer",
       <<Num(3), Num(4), Nil>>>>,
   <<"local function gen(n) return coroutine.wrap(function() for i = 1, n do coroutine.yield(i) end end) end local s = 0 for i in gen(3) do s = s * 10 + i end return s",
       NumSeq(<<123>>)>>,
   <<"local function gen(n) return coroutine.wrap(function() for i = 1, n do coroutine.yield(i) end end) end local function twice(g) return coroutine.wrap(function() for i in g do coroutine.yield(2 * i) end end) end local s = 0 for i in twice(gen(2)) do s = s * 10 + i end return s",
       NumSeq(<<24>>)>>,
   <<"local co = coroutine.wrap(function() coroutine.yield() return coroutine.wrap(function() return 3 end)() end) co() return co()",
       NumSeq(<<3>>)>>,
   <<"local g local co = coroutine.create(function() local x = 3 g = function() return x end x = 4 error(x) end) return coroutine.resume(co), (g())",
       <<F_, Num(4)>>>>,
   <<"local a, b a = coroutine.create(function() return coroutine.resume(b) end) b = coroutine.create(function() return coroutine.status(a), coroutine.resume(a) end) return coroutine.resume(a)",
       <<T_, T_, Str("normal"), F_, Str("cannot resume normal coroutine")>>>>,
   <<"local function f(n) local ok, m = coroutine.resume(coroutine.create(f), n + 1) if ok then return m end return n .. m end return f(1)",
       <<Str("16C stack overflow")>>>>,
   <<"return promidi.SendMessage(1, 2, 3, 4, 5), (pcall(coroutine.yield, 1))",
       <<Num(-2), F_>>>>
}

-----------------------------------------------------------------------------
(* Conditions: (a op b) op c and a op (b op c) for all choices of values,    *)
(* as values and as tests, eight to a program.                             *)

Leaf == <<[t |-> "x", v |-> Nil], [t |-> "y", v |-> Num(1)], [t |-> "(y < 2)", v |-> T_],
          [t |-> "not y", v |-> F_]>>
AndOr(n, l, r) ==
  IF n % 2 = 0 THEN [t |-> "(" \o l.t \o " and " \o r.t \o ")", v |-> IF l_isfalse(l.v) THEN l.v ELSE r.v]
               ELSE [t |-> "(" \o l.t \o " or " \o r.t \o ")", v |-> IF l_isfalse(l.v) THEN r.v ELSE l.v]
Condition(n) ==
  LET l == [i \in 0 .. 2 |-> Leaf[((n \div 4^i) % 4) + 1]]
  IN IF (n \div 256) % 2 = 0 THEN AndOr(n \div 64, AndOr(n \div 128, l[0], l[1]), l[2])
                             ELSE AndOr(n \div 64, l[0], AndOr(n \div 128, l[1], l[2]))
Batch(n) == [i \in 1 .. 8 |-> Condition(8 * n + i - 1)]

RECURSIVE Join(_, _)
Join(texts, sep) ==
  IF Len(texts) = 1 THEN texts[1] ELSE texts[1] \o sep \o Join(Tail(texts), sep)

Values == {<<"local x, y = nil, 1 return " \o Join([i \in 1 .. 8 |-> Batch(n)[i].t], ", "),
             [i \in 1 .. 8 |-> Batch(n)[i].v]>> : n \in 0 .. 63}
Tests == {<<"local x, y, r = nil, 1, '' "
              \o Join([i \in 1 .. 8 |-> "if " \o Batch(n)[i].t \o " then r = r .. 1 else r = r .. 0 end "], "")
              \o "return r",
            <<Str(Join([i \in 1 .. 8 |-> IF l_isfalse(Batch(n)[i].v) THEN "0" ELSE "1"], ""))>>>> : n \in 0 .. 63}

-----------------------------------------------------------------------------
(* A function that returns, fails or yields, inside of what may call it: how *)
(* it ends for the one that called it (k), and whether it could yield.       *)

Boundary == Str("attempt to yield across metamethod/C-call boundary")
Bodies == [good   |-> "function() return 7 end",
           fail   |-> "function() error(7) end",
           yield  |-> "function() return coroutine.yield(7) end"]
Around(c, f) ==
  CASE c = "tail"  -> "function() return (" \o f \o ")() end"
    [] c = "call"  -> "function() local r = (" \o f \o ")() return r end"
    [] c = "pcall" -> "function() local ok, r = pcall(" \o f \o ") return r end"
    [] c = "xpcall" -> "function() local ok, r = xpcall(" \o f \o ", function(m) return m end) return r end"
    [] c = "resume" -> "function() local ok, r = coroutine.resume(coroutine.create(" \o f \o ")) return r end"
    [] c = "wrap"  -> "function() return (coroutine.wrap(" \o f \o ")()) end"
    [] c = "index" -> "function() return setmetatable({}, {__index = " \o f \o "}).x end"
    [] c = "iterator" -> "function() for v in " \o f \o " do return v end end"
    [] c = "tostring" -> "function() return tostring(setmetatable({}, {__tostring = " \o f \o "})) end"
    [] c = "upvalue" -> "function() local v = nil local function g() return v end v = (" \o f \o ")() return g() end"

Wrappers == {"tail", "call", "pcall", "xpcall", "resume", "wrap", "index", "iterator", "tostring", "upvalue"}
Passes   == {"tail", "call", "upvalue"}
Catches  == {"pcall", "xpcall", "resume"}

(* what the innermost function does: a yield that has a C function between   *)
(* itself and the coroutine is an error                                      *)
Outcome(b, cs) ==
  LET stops == {i \in DOMAIN cs : cs[i] \notin Passes}
      inner == cs[Max(stops)]
      into  == stops # {} /\ inner \in {"resume", "wrap"}
      fails == b = "fail" \/ (b = "yield" /\ ~into)
      v     == IF b = "yield" /\ ~into THEN Boundary ELSE Num(7)
      caught == \E i \in DOMAIN cs : cs[i] \in Catches
  IN IF fails /\ ~caught THEN <<F_, v>> ELSE <<T_, v>>

Nestings == (Wrappers \X Wrappers) \cup {<<c>> : c \in Wrappers}
Nested2(b, cs) ==
  "return pcall(" \o Around(cs[1], IF Len(cs) = 1 THEN Bodies[b] ELSE Around(cs[2], Bodies[b])) \o ")"
Nests == {<<Nested2(b, cs), Outcome(b, cs)>> : b \in DOMAIN Bodies, cs \in Nestings}

(* what the programs return *)
Expected == Returns \cup Values \cup Tests \cup Nests

MCPrograms == {e[1] : e \in Expected}
(* a LET, so that TLC's statistics of the state machine do not go into it *)
MCCompiled(t) == LET main == luaY_parser(Tokens(t)) IN main

MCTexts == MCPrograms \cup {"x = = 1", "return 5"}

(* SendMessage with the wrong number of arguments, called by a C function *)
MCYields == {"return pcall(promidi.SendMessage, 1)", "return tostring(setmetatable({}, {__tostring = promidi.SendMessage}))"}

Results == [i \in 1 .. top(st) - base(st) |-> Slot(st, base(st) + i - 1)]

(* LuaCalls, with what is left of the C stack and of each thread; a thread   *)
(* that is not created yet has not begun.                                    *)
MCCoroutines == 2 .. 17
OfThreads(Of(_), none) ==
  [t \in {1} \cup MCCoroutines |-> IF t \in DOMAIN st.th THEN Of(st.th[t]) ELSE none]
StatusName(n) ==
  CASE n = 0 -> "ok"
    [] n = LUA_YIELD -> "yield"
    [] OTHER -> "dead"
CallFrame(fr) ==
  CASE fr.k = "call"   -> [k |-> "call"]
    [] fr.k = "pcall"  -> [k |-> "pcall", nCcalls |-> fr.nCcalls]
    [] fr.k = "resume" -> [k |-> "resume", from |-> fr.from]
CallFrames ==
  LET frames == SelectSeq(st.C, LAMBDA fr : fr.k \in {"call", "pcall", "resume"})
  IN [i \in DOMAIN frames |-> CallFrame(frames[i])]

Calls == INSTANCE LuaCalls WITH
  main <- 1, Coroutines <- MCCoroutines, L <- st.L, stack <- CallFrames, err <- st.err,
  status <- OfThreads(LAMBDA t : StatusName(t.status), "ok"),
  begun <- OfThreads(LAMBDA t : Len(t.ci) > 1, FALSE),
  nCcalls <- OfThreads(LAMBDA t : t.nCcalls, 0),
  baseCcalls <- OfThreads(LAMBDA t : t.baseCcalls, 0)

(* Every instruction, C function and way back into C keeps to what LuaCalls  *)
(* promises of calls, coroutines and errors (ldo.c).                         *)
ImplementsCalls == Calls!Spec

(* A program that ends has run without an error and returns what the        *)
(* language promises for its text: the compiler and the machine (llex.c to  *)
(* lcode.c, lvm.c, ldo.c) taken together.                                   *)
Agrees == halted => (st.status = 0 /\ <<prog, Results>> \in Expected)
=============================================================================
