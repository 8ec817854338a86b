------------------------------ MODULE LuaParser ------------------------------
(* The one-pass compiler (lparser.c): recursive descent over tokens, with    *)
(* the code generated as the source is read.  A token is a tuple of its kind *)
(* and its value; <<"(", "nl">> is a parenthesis that starts a line.  The    *)
(* state ls of the parser is                                                 *)
(*   toks, pos   the tokens and the index of the current one                 *)
(*   fss         the FuncStates of the functions being compiled, outermost   *)
(*               first (fs->prev is the one before)                          *)
(*   level       L->nCcalls                                                  *)
(* A syntax error is a longjmp in the source: here it is noted in the        *)
(* FuncState and what is left of the input is dropped, so that the parser    *)
(* runs to its end without reading anything else.                            *)
EXTENDS LuaCheck, LuaLimits

CONSTANTS LUAI_MAXVARS, LUAI_MAXUPVALUES

ASSUME ParserLimits == LUAI_MAXVARS \in Nat /\ LUAI_MAXUPVALUES \in Nat

LastOf(s)  == s[Len(s)]
FrontOf(s) == SubSeq(s, 1, Len(s) - 1)

Tok(ls)   == ls.toks[ls.pos][1]
Val(ls)   == ls.toks[ls.pos][2]
Fs(ls)    == LastOf(ls.fss)
PutFs(ls, fs) == [ls EXCEPT !.fss[Len(ls.fss)] = fs]
PutE(ls, r)   == [ls |-> PutFs(ls, r.fs), e |-> r.e]

luaX_next(ls) == [ls EXCEPT !.pos = IF @ < Len(ls.toks) THEN @ + 1 ELSE @]
luaX_lookahead(ls) == Tok(luaX_next(ls))

luaX_syntaxerror(ls, msg) ==
  [PutFs(ls, FsError(Fs(ls), msg)) EXCEPT !.pos = Len(ls.toks)]

LsAssert(ls, line, c) == PutFs(ls, lua_assert(Fs(ls), line, c))

checkcond(ls, c, msg) == IF c THEN ls ELSE luaX_syntaxerror(ls, msg)
luaY_checklimit(ls, v, l, msg) == checkcond(ls, v <= l, msg)

-----------------------------------------------------------------------------
(* Tokens. *)

testnext(ls, c)  == Tok(ls) = c
check(ls, c)     == checkcond(ls, Tok(ls) = c, "expected")
checknext(ls, c) == luaX_next(check(ls, c))

(* check_match only words its message otherwise *)
check_match(ls, what) == checknext(ls, what)

(* [ls, x]: the name that was there *)
str_checkname(ls) ==
  [ls |-> checknext(ls, "name"), x |-> IF Tok(ls) = "name" THEN Val(ls) ELSE "?"]

codestring(ls, s) ==
  LET c == addk(Fs(ls), Str(s)) IN [ls |-> PutFs(ls, c.fs), e |-> Exp("VK", c.x)]

checkname(ls) == LET n == str_checkname(ls) IN codestring(n.ls, n.x)

-----------------------------------------------------------------------------
(* Local variables, upvalues and blocks. *)

(* the n-th of the variables that are declared but not active yet *)
new_localvar(ls, name, n) ==
  LET l == luaY_checklimit(ls, Fs(ls).nactvar + n + 1, LUAI_MAXVARS, "local variables")
  IN PutFs(l, [Fs(l) EXCEPT !.actvar = Append(SubSeq(@, 1, Fs(l).nactvar + n), name)])

adjustlocalvars(fs, n)   == [fs EXCEPT !.nactvar = @ + n]
removevars(fs, tolevel)  == [fs EXCEPT !.nactvar = tolevel]

(* the innermost active variable of that name *)
searchvar(fs, n) ==
  LET found == {i \in 1 .. fs.nactvar : fs.actvar[i] = n}
  IN IF found = {} THEN -1 ELSE (CHOOSE i \in found : \A j \in found : j <= i) - 1

(* the block a variable belongs to has to close it *)
markupval(fs, level) ==
  LET out == {i \in DOMAIN fs.bl : fs.bl[i].nactvar <= level}
      in  == CHOOSE i \in out : \A j \in out : j <= i
  IN IF out = {} THEN fs ELSE [fs EXCEPT !.bl[in].upval = TRUE]

indexupvalue(fs, e) ==
  LET u == [k |-> e.k, info |-> e.info]
      s == IF Len(fs.upvalues) + 1 > LUAI_MAXUPVALUES THEN FsError(fs, "upvalues") ELSE fs
  IN IF \E i \in DOMAIN fs.upvalues : fs.upvalues[i] = u
     THEN [fs |-> fs, x |-> (CHOOSE i \in DOMAIN fs.upvalues : fs.upvalues[i] = u) - 1]
     ELSE [fs |-> [s EXCEPT !.upvalues = Append(@, u)], x |-> Len(fs.upvalues)]

(* [fss, e]: a name looked up at nesting level l and outwards; the functions *)
(* in between get an upvalue each                                            *)
RECURSIVE singlevaraux(_, _, _, _)
singlevaraux(fss, l, n, base) ==
  LET v == searchvar(fss[l], n)
      o == singlevaraux(fss, l - 1, n, FALSE)
      u == indexupvalue(o.fss[l], o.e)
  IN CASE l = 0 -> [fss |-> fss, e |-> Exp("VGLOBAL", NO_REG)]
       [] l > 0 /\ v >= 0 ->
            [fss |-> IF base THEN fss ELSE [fss EXCEPT ![l] = markupval(@, v)],
             e   |-> Exp("VLOCAL", v)]
       [] l > 0 /\ v < 0 /\ o.e.k = "VGLOBAL" -> o
       [] OTHER -> [fss |-> [o.fss EXCEPT ![l] = u.fs],
                    e   |-> [o.e EXCEPT !.k = "VUPVAL", !.info = u.x]]

singlevar(ls) ==
  LET n == str_checkname(ls)
      s == singlevaraux(n.ls.fss, Len(ls.fss), n.x, TRUE)
      l == [n.ls EXCEPT !.fss = s.fss]
      c == addk(Fs(l), Str(n.x))
  IN IF s.e.k = "VGLOBAL" THEN [ls |-> PutFs(l, c.fs), e |-> [s.e EXCEPT !.info = c.x]]
                          ELSE [ls |-> l, e |-> s.e]

hasmultret(k) == k \in {"VCALL", "VVARARG"}

adjust_assign(ls, nvars, nexps, e) ==
  LET fs    == Fs(ls)
      open  == IF nvars - nexps + 1 < 0 THEN 0 ELSE nvars - nexps + 1
      extra == nvars - nexps
      r     == luaK_setreturns(fs, e, open)
      c     == IF e.k # "VVOID" THEN luaK_exp2nextreg(fs, e).fs ELSE fs
  IN PutFs(ls, CASE hasmultret(e.k) /\ open > 1  -> luaK_reserveregs(r, open - 1)
                 [] hasmultret(e.k) /\ open <= 1 -> r
                 [] ~hasmultret(e.k) /\ extra > 0 ->
                      luaK_nil(luaK_reserveregs(c, extra), c.freereg, extra)
                 [] OTHER -> c)

enterlevel(ls) ==
  checkcond([ls EXCEPT !.level = @ + 1], ls.level + 1 <= LUAI_MAXCCALLS,
            "chunk has too many syntax levels")
leavelevel(ls) == [ls EXCEPT !.level = @ - 1]

enterblock(fs, isbreakable) ==
  lua_assert([fs EXCEPT !.bl = Append(@, [breaklist |-> NO_JUMP, nactvar |-> fs.nactvar,
                                          upval |-> FALSE, isbreakable |-> isbreakable])],
             292, fs.freereg = fs.nactvar)

leaveblock(fs) ==
  LET bl == LastOf(fs.bl)
      r  == removevars([fs EXCEPT !.bl = FrontOf(@)], bl.nactvar)
      c  == IF bl.upval THEN luaK_codeABC(r, "OP_CLOSE", bl.nactvar, 0, 0) ELSE r
      a  == lua_assert(c, 303, ~bl.isbreakable \/ ~bl.upval)
  IN luaK_patchtohere([a EXCEPT !.freereg = a.nactvar], bl.breaklist)

(* the function is finished and handed to the one around it *)
Proto(fs) ==
  [code |-> fs.code, k |-> fs.k, p |-> fs.p, nups |-> Len(fs.upvalues),
   numparams |-> fs.numparams, is_vararg |-> fs.is_vararg,
   maxstacksize |-> fs.maxstacksize]

open_func(ls) == [ls EXCEPT !.fss = Append(@, NewFuncState)]

(* close_func: [ls, fs], the latter what the function became *)
close_func(ls) ==
  LET r  == luaK_ret(removevars(Fs(ls), 0), 0, 0)
      c  == lua_assert(r, 374, luaG_checkcode(Proto(r)))
      fs == lua_assert(c, 375, c.bl = <<>>)
  IN [ls |-> [ls EXCEPT !.fss = FrontOf(@)], fs |-> fs]

(* what went wrong inside is wrong outside *)
Inherit(fs, func) ==
  [fs EXCEPT !.failed = @ \cup func.failed,
             !.err = IF @ = "" THEN func.err ELSE @]

RECURSIVE CaptureUps(_, _, _)
CaptureUps(fs, ups, i) ==
  IF i > Len(ups) THEN fs
  ELSE CaptureUps(luaK_codeABC(fs, IF ups[i].k = "VLOCAL" THEN "OP_MOVE" ELSE "OP_GETUPVAL",
                               0, ups[i].info, 0), ups, i + 1)

pushclosure(ls, func) ==
  LET fs == [Inherit(Fs(ls), func) EXCEPT !.p = Append(@, Proto(func))]
      c  == luaK_codeABx(fs, "OP_CLOSURE", 0, Len(fs.p) - 1)
  IN [ls |-> PutFs(ls, CaptureUps(c, func.upvalues, 1)), e |-> Exp("VRELOCABLE", pc(c) - 1)]

-----------------------------------------------------------------------------
(* Expressions. *)

RECURSIVE subexpr(_, _), chunk(_), Suffixes(_, _), MoreExps(_, _, _),
          MoreOperators(_, _, _, _), Items(_, _)

expr(ls) == subexpr(ls, 0)

(* explist1: [ls, e, n], n expressions of which the last is still open *)
MoreExps(ls, e, n) ==
  IF ~testnext(ls, ",") THEN [ls |-> ls, e |-> e, n |-> n]
  ELSE LET x == PutE(luaX_next(ls), luaK_exp2nextreg(Fs(ls), e))
           v == expr(x.ls)
       IN MoreExps(v.ls, v.e, n + 1)

explist1(ls) == LET v == expr(ls) IN MoreExps(v.ls, v.e, 1)

(* field: '.' or ':' and a name *)
field(ls, v) ==
  LET a == PutE(ls, luaK_exp2anyreg(Fs(ls), v))
      k == checkname(luaX_next(a.ls))
  IN PutE(k.ls, luaK_indexed(Fs(k.ls), a.e, k.e))

(* '[' expr ']' *)
yindex(ls) ==
  LET x == expr(luaX_next(ls))
      v == PutE(x.ls, luaK_exp2val(Fs(x.ls), x.e))
  IN [ls |-> checknext(v.ls, "]"), e |-> v.e]

-----------------------------------------------------------------------------
(* Table constructors: cc counts the items, t is the table's register, v the *)
(* last list item, not stored yet.                                           *)

recfield(ls, cc) ==
  LET key == IF Tok(ls) = "name" THEN checkname(ls) ELSE yindex(ls)
      l   == checknext(key.ls, "=")
      rk  == luaK_exp2RK(Fs(l), key.e)
      val == expr(PutFs(l, rk.fs))
      rv  == luaK_exp2RK(Fs(val.ls), val.e)
      s   == luaK_codeABC(rv.fs, "OP_SETTABLE", cc.t, rk.x, rv.x)
  IN [ls |-> PutFs(val.ls, [s EXCEPT !.freereg = Fs(ls).freereg]),
      cc |-> [cc EXCEPT !.nh = @ + 1]]

closelistfield(ls, cc) ==
  LET n == luaK_exp2nextreg(Fs(ls), cc.v)
      none == [cc EXCEPT !.v.k = "VVOID"]
  IN CASE cc.v.k = "VVOID" -> [ls |-> ls, cc |-> cc]
       [] cc.v.k # "VVOID" /\ cc.tostore = LFIELDS_PER_FLUSH ->
            [ls |-> PutFs(ls, luaK_setlist(n.fs, cc.t, cc.na, cc.tostore)),
             cc |-> [none EXCEPT !.tostore = 0]]
       [] OTHER -> [ls |-> PutFs(ls, n.fs), cc |-> none]

lastlistfield(fs, cc) ==
  CASE cc.tostore = 0 -> fs
    [] cc.tostore # 0 /\ hasmultret(cc.v.k) ->
         luaK_setlist(luaK_setreturns(fs, cc.v, LUA_MULTRET), cc.t, cc.na, LUA_MULTRET)
    [] OTHER -> luaK_setlist(IF cc.v.k = "VVOID" THEN fs ELSE luaK_exp2nextreg(fs, cc.v).fs,
                             cc.t, cc.na, cc.tostore)

listfield(ls, cc) ==
  LET x == expr(ls)
  IN [ls |-> x.ls, cc |-> [cc EXCEPT !.v = x.e, !.na = @ + 1, !.tostore = @ + 1]]

Items(ls0, cc0) ==
  LET a  == LsAssert(ls0, 511, cc0.v.k = "VVOID" \/ cc0.tostore > 0)
      c  == closelistfield(a, cc0)
      rec == Tok(c.ls) = "[" \/ (Tok(c.ls) = "name" /\ luaX_lookahead(c.ls) = "=")
      i  == IF rec THEN recfield(c.ls, c.cc) ELSE listfield(c.ls, c.cc)
  IN CASE Tok(ls0) = "}" -> [ls |-> a, cc |-> cc0]
       [] Tok(ls0) # "}" /\ Tok(i.ls) \in {",", ";"} -> Items(luaX_next(i.ls), i.cc)
       [] OTHER -> i

constructor(ls) ==
  LET at == pc(Fs(ls))
      n  == luaK_codeABC(Fs(ls), "OP_NEWTABLE", 0, 0, 0)
      t  == PutE(ls, luaK_exp2nextreg(n, Exp("VRELOCABLE", at)))
      i  == Items(checknext(t.ls, "{"),
                  [v |-> Exp("VVOID", 0), t |-> t.e.info, nh |-> 0, na |-> 0, tostore |-> 0])
      l  == check_match(i.ls, "}")
      fs == lastlistfield(Fs(l), i.cc)
      na == IF i.cc.tostore # 0 /\ hasmultret(i.cc.v.k) THEN i.cc.na - 1 ELSE i.cc.na
  IN [ls |-> PutFs(l, SETARG_C(SETARG_B(fs, at, luaO_int2fb(na)), at, luaO_int2fb(i.cc.nh))), e |-> t.e]

-----------------------------------------------------------------------------
(* Functions and calls. *)

RECURSIVE Params(_, _)
Params(ls, n) ==
  LET name == str_checkname(ls)
      l    == new_localvar(name.ls, name.x, n)
      dots == new_localvar(luaX_next(ls), "arg", n)
      bad  == luaX_syntaxerror(ls, "<name> or '...' expected")
  IN CASE Tok(ls) = "..." ->
            [ls |-> PutFs(dots, [Fs(dots) EXCEPT
                                   !.is_vararg = {"ISVARARG", "HASARG", "NEEDSARG"}]),
             n |-> n + 1]
       [] Tok(ls) = "name" /\ testnext(l, ",") -> Params(luaX_next(l), n + 1)
       [] Tok(ls) = "name" /\ ~testnext(l, ",") -> [ls |-> l, n |-> n + 1]
       [] OTHER -> [ls |-> bad, n |-> n]

parlist(ls) ==
  LET p  == IF Tok(ls) = ")" THEN [ls |-> ls, n |-> 0] ELSE Params(ls, 0)
      fs == adjustlocalvars(Fs(p.ls), p.n)
      hidden == IF "HASARG" \in fs.is_vararg THEN 1 ELSE 0
  IN PutFs(p.ls, luaK_reserveregs([fs EXCEPT !.numparams = fs.nactvar - hidden], fs.nactvar))

body(ls, needself) ==
  LET o == checknext(open_func(ls), "(")
      n == new_localvar(o, "self", 0)
      s == IF needself THEN PutFs(n, adjustlocalvars(Fs(n), 1)) ELSE o
      c == chunk(checknext(parlist(s), ")"))
      f == close_func(check_match(c, "end"))
  IN pushclosure(f.ls, f.fs)

(* the arguments of a call: an expression that may be open, or none *)
ParenArgs(ls) ==
  LET in == luaX_next(checkcond(ls, ls.toks[ls.pos] = <<"(">>, "ambiguous syntax"))
      x  == explist1(in)
      m  == PutFs(x.ls, luaK_setreturns(Fs(x.ls), x.e, LUA_MULTRET))
  IN IF Tok(in) = ")" THEN [ls |-> check_match(in, ")"), e |-> Exp("VVOID", 0)]
                      ELSE [ls |-> check_match(m, ")"), e |-> x.e]

funcargs(ls, f) ==
  LET s == codestring(ls, Val(ls))
      a == CASE Tok(ls) = "(" -> ParenArgs(ls)
             [] Tok(ls) = "{" -> constructor(ls)
             [] Tok(ls) = "string" -> [ls |-> luaX_next(s.ls), e |-> s.e]
             [] OTHER -> [ls |-> luaX_syntaxerror(ls, "function arguments expected"),
                          e  |-> Exp("VVOID", 0)]
      l    == LsAssert(a.ls, 642, f.k = "VNONRELOC")
      base == f.info
      fs   == IF a.e.k = "VVOID" \/ hasmultret(a.e.k) THEN Fs(l)
              ELSE luaK_exp2nextreg(Fs(l), a.e).fs
      n    == IF hasmultret(a.e.k) THEN LUA_MULTRET ELSE fs.freereg - (base + 1)
      c    == luaK_codeABC(fs, "OP_CALL", base, n + 1, 2)
  IN [ls |-> PutFs(l, [c EXCEPT !.freereg = base + 1]), e |-> Exp("VCALL", pc(c) - 1)]

prefixexp(ls) ==
  LET x == expr(luaX_next(ls))
      m == check_match(x.ls, ")")
  IN CASE Tok(ls) = "(" -> PutE(m, luaK_dischargevars(Fs(m), x.e))
       [] Tok(ls) = "name" -> singlevar(ls)
       [] OTHER -> [ls |-> luaX_syntaxerror(ls, "unexpected symbol"), e |-> Exp("VVOID", 0)]

Suffixes(ls, v) ==
  LET fs   == Fs(ls)
      dot  == field(ls, v)
      any  == PutE(ls, luaK_exp2anyreg(fs, v))
      key  == yindex(any.ls)
      idx  == PutE(key.ls, luaK_indexed(Fs(key.ls), any.e, key.e))
      meth == checkname(luaX_next(ls))
      self == PutE(meth.ls, luaK_self(Fs(meth.ls), v, meth.e))
      send == funcargs(self.ls, self.e)
      next == PutE(ls, luaK_exp2nextreg(fs, v))
      call == funcargs(next.ls, next.e)
  IN CASE Tok(ls) = "." -> Suffixes(dot.ls, dot.e)
       [] Tok(ls) = "[" -> Suffixes(idx.ls, idx.e)
       [] Tok(ls) = ":" -> Suffixes(send.ls, send.e)
       [] Tok(ls) \in {"(", "string", "{"} -> Suffixes(call.ls, call.e)
       [] OTHER -> [ls |-> ls, e |-> v]

primaryexp(ls) == LET p == prefixexp(ls) IN Suffixes(p.ls, p.e)

simpleexp(ls) ==
  LET one(e) == [ls |-> luaX_next(ls), e |-> e]
      s == codestring(ls, Val(ls))
      d == checkcond(ls, Fs(ls).is_vararg # {}, "cannot use '...' outside a vararg function")
      v == luaK_codeABC([Fs(d) EXCEPT !.is_vararg = @ \ {"NEEDSARG"}], "OP_VARARG", 0, 1, 0)
  IN CASE Tok(ls) = "number" -> one([Exp("VKNUM", 0) EXCEPT !.nval = Val(ls)])
       [] Tok(ls) = "string" -> [ls |-> luaX_next(s.ls), e |-> s.e]
       [] Tok(ls) = "nil"    -> one(Exp("VNIL", 0))
       [] Tok(ls) = "true"   -> one(Exp("VTRUE", 0))
       [] Tok(ls) = "false"  -> one(Exp("VFALSE", 0))
       [] Tok(ls) = "..."    -> [ls |-> luaX_next(PutFs(d, v)), e |-> Exp("VVARARG", pc(v) - 1)]
       [] Tok(ls) = "{"      -> constructor(ls)
       [] Tok(ls) = "function" -> body(luaX_next(ls), FALSE)
       [] OTHER -> primaryexp(ls)

unops == ("not" :> "not") @@ ("-" :> "minus") @@ ("#" :> "len")

binops == ("+" :> "add") @@ ("-" :> "sub") @@ ("*" :> "mul") @@ ("/" :> "div")
       @@ ("%" :> "mod") @@ ("^" :> "pow") @@ (".." :> "concat")
       @@ ("~=" :> "ne") @@ ("==" :> "eq") @@ ("<" :> "lt") @@ ("<=" :> "le")
       @@ (">" :> "gt") @@ (">=" :> "ge") @@ ("and" :> "and") @@ ("or" :> "or")

(* priority: left and right; .. and ^ associate to the right *)
priority(op) ==
  CASE op \in {"add", "sub"}        -> <<6, 6>>
    [] op \in {"mul", "div", "mod"} -> <<7, 7>>
    [] op = "pow"    -> <<10, 9>>
    [] op = "concat" -> <<5, 4>>
    [] op \in {"ne", "eq", "lt", "le", "gt", "ge"} -> <<3, 3>>
    [] op = "and"    -> <<2, 2>>
    [] op = "or"     -> <<1, 1>>
UNARY_PRIORITY == 8

(* the operators that bind tighter than limit, from left to right *)
MoreOperators(ls, e, tok, limit) ==
  LET op == binops[tok]
      i  == PutE(luaX_next(ls), luaK_infix(Fs(ls), op, e))
      r  == subexpr(i.ls, priority(op)[2])
      p  == PutE(r.ls, luaK_posfix(Fs(r.ls), op, i.e, r.e))
  IN IF tok \in DOMAIN binops /\ priority(op)[1] > limit
     THEN MoreOperators(p.ls, p.e, Tok(p.ls), limit)
     ELSE [ls |-> leavelevel(ls), e |-> e]

subexpr(ls0, limit) ==
  LET ls == enterlevel(ls0)
      u  == subexpr(luaX_next(ls), UNARY_PRIORITY)
      s  == IF Tok(ls) \in DOMAIN unops
            THEN PutE(u.ls, luaK_prefix(Fs(u.ls), unops[Tok(ls)], u.e))
            ELSE simpleexp(ls)
  IN MoreOperators(s.ls, s.e, Tok(s.ls), limit)

-----------------------------------------------------------------------------
(* Statements. *)

block_follow(tok) == tok \in {"else", "elseif", "end", "until", "eos"}

block(ls) ==
  LET c == chunk(PutFs(ls, enterblock(Fs(ls), FALSE)))
      a == LsAssert(c, 887, LastOf(Fs(c).bl).breaklist = NO_JUMP)
  IN PutFs(a, leaveblock(Fs(a)))

(* a local variable that an earlier target of the same assignment indexes,   *)
(* or is indexed by, is saved first                                          *)
check_conflict(fs, lhs, v) ==
  LET safe(e) == IF e.k # "VINDEXED" THEN e
                 ELSE [e EXCEPT !.info = IF @ = v.info THEN fs.freereg ELSE @,
                                !.aux  = IF @ = v.info THEN fs.freereg ELSE @]
      new == [i \in DOMAIN lhs |-> safe(lhs[i])]
  IN [lhs |-> new,
      fs  |-> IF new = lhs THEN fs
              ELSE luaK_reserveregs(luaK_codeABC(fs, "OP_MOVE", fs.freereg, v.info, 0), 1)]

RECURSIVE Targets(_, _), StoreRest(_, _, _)
Targets(ls0, lhs) ==
  LET v  == LastOf(lhs)
      ls == checkcond(ls0, v.k \in {"VLOCAL", "VUPVAL", "VGLOBAL", "VINDEXED"}, "syntax error")
      p  == primaryexp(luaX_next(ls))
      c  == IF p.e.k = "VLOCAL" THEN check_conflict(Fs(p.ls), lhs, p.e)
                                ELSE [lhs |-> lhs, fs |-> Fs(p.ls)]
      l  == luaY_checklimit(PutFs(p.ls, c.fs), Len(lhs), LUAI_MAXCCALLS - p.ls.level,
                            "variables in assignment")
  IN IF testnext(ls, ",") THEN Targets(l, Append(c.lhs, p.e)) ELSE [ls |-> ls, lhs |-> lhs]

(* the targets from the n-th down to the first take the topmost register *)
StoreRest(fs, lhs, n) ==
  IF n = 0 THEN fs
  ELSE StoreRest(luaK_storevar(fs, lhs[n], Exp("VNONRELOC", fs.freereg - 1)), lhs, n - 1)

assignment(ls, v) ==
  LET t  == Targets(ls, <<v>>)
      n  == Len(t.lhs)
      x  == explist1(checknext(t.ls, "="))
      a  == Fs(adjust_assign(x.ls, n, x.n, x.e))
      af == [a EXCEPT !.freereg = IF x.n > n THEN @ - (x.n - n) ELSE @]
      o  == luaK_setoneret(Fs(x.ls), x.e)
      of == luaK_storevar(o.fs, LastOf(t.lhs), o.e)
  IN PutFs(x.ls, IF x.n = n THEN StoreRest(of, t.lhs, n - 1) ELSE StoreRest(af, t.lhs, n))

(* cond: [ls, x], x the list of jumps taken when it is false *)
cond(ls) ==
  LET x == expr(ls)
      g == luaK_goiftrue(Fs(x.ls), [x.e EXCEPT !.k = IF @ = "VNIL" THEN "VFALSE" ELSE @])
  IN [ls |-> PutFs(x.ls, g.fs), x |-> g.e.f]

breakstat(ls) ==
  LET fs    == Fs(ls)
      loops == {i \in DOMAIN fs.bl : fs.bl[i].isbreakable}
      at    == CHOOSE i \in loops : \A j \in loops : j <= i
      upval == \E i \in DOMAIN fs.bl : i > at /\ fs.bl[i].upval
      c     == IF upval THEN luaK_codeABC(fs, "OP_CLOSE", fs.bl[at].nactvar, 0, 0) ELSE fs
      j     == luaK_jump(c)
      l     == luaK_concat(j.fs, j.fs.bl[at].breaklist, j.x)
  IN IF loops = {} THEN luaX_syntaxerror(ls, "no loop to break")
     ELSE PutFs(ls, [l.fs EXCEPT !.bl[at].breaklist = l.x])

JumpBack(fs, target) == LET j == luaK_jump(fs) IN luaK_patchlist(j.fs, j.x, target)

whilestat(ls) ==
  LET init == pc(Fs(ls))
      c == cond(luaX_next(PutFs(ls, luaK_getlabel(Fs(ls)))))
      b == block(checknext(PutFs(c.ls, enterblock(Fs(c.ls), TRUE)), "do"))
      m == check_match(PutFs(b, JumpBack(Fs(b), init)), "end")
  IN PutFs(m, luaK_patchtohere(leaveblock(Fs(m)), c.x))

(* a local of the body that the condition may see as an upvalue is closed on *)
(* both ways out                                                             *)
repeatstat(ls) ==
  LET init == pc(Fs(ls))
      e == enterblock(enterblock(luaK_getlabel(Fs(ls)), TRUE), FALSE)
      c == cond(check_match(chunk(luaX_next(PutFs(ls, e))), "until"))
      plain == luaK_patchlist(leaveblock(Fs(c.ls)), c.x, init)
      b     == breakstat(c.ls)
      upval == JumpBack(leaveblock(luaK_patchtohere(Fs(b), c.x)), init)
  IN IF LastOf(Fs(c.ls).bl).upval THEN PutFs(b, leaveblock(upval))
                                  ELSE PutFs(c.ls, leaveblock(plain))

exp1(ls) == LET x == expr(ls) IN PutFs(x.ls, luaK_exp2nextreg(Fs(x.ls), x.e).fs)

forbody(ls, base, nvars, isnum) ==
  LET d  == checknext(PutFs(ls, adjustlocalvars(Fs(ls), 3)), "do")
      p  == IF isnum THEN [fs |-> luaK_codeABx(Fs(d), "OP_FORPREP", base, NO_JUMP),
                           x  |-> pc(Fs(d))]
                     ELSE luaK_jump(Fs(d))
      v  == luaK_reserveregs(adjustlocalvars(enterblock(p.fs, FALSE), nvars), nvars)
      b  == block(PutFs(d, v))
      h  == luaK_patchtohere(leaveblock(Fs(b)), p.x)
      n  == luaK_codeABx(h, "OP_FORLOOP", base, NO_JUMP)
      t  == luaK_jump(luaK_codeABC(h, "OP_TFORLOOP", base, 0, nvars))
  IN PutFs(b, IF isnum THEN luaK_patchlist(n, pc(n) - 1, p.x + 1)
                       ELSE luaK_patchlist(t.fs, t.x, p.x + 1))

RECURSIVE NewLocals(_, _, _)
NewLocals(ls, names, n) ==
  IF names = <<>> THEN ls
  ELSE NewLocals(new_localvar(ls, Head(names), n), Tail(names), n + 1)

fornum(ls, name) ==
  LET l == NewLocals(ls, <<"(for index)", "(for limit)", "(for step)", name>>, 0)
      x == exp1(checknext(exp1(checknext(l, "=")), ","))
      k == addk(Fs(x), Num(1))
      one == luaK_reserveregs(luaK_codeABx(k.fs, "OP_LOADK", k.fs.freereg, k.x), 1)
  IN forbody(IF testnext(x, ",") THEN exp1(luaX_next(x)) ELSE PutFs(x, one),
             Fs(ls).freereg, 1, TRUE)

(* names: [ls, n], more variables as long as there are commas *)
RECURSIVE MoreNames(_, _)
MoreNames(ls, n) ==
  IF ~testnext(ls, ",") THEN [ls |-> ls, n |-> n]
  ELSE LET s == str_checkname(luaX_next(ls)) IN MoreNames(new_localvar(s.ls, s.x, n), n + 1)

forlist(ls, name) ==
  LET l == NewLocals(ls, <<"(for generator)", "(for state)", "(for control)", name>>, 0)
      m == MoreNames(l, 4)
      x == explist1(checknext(m.ls, "in"))
      a == adjust_assign(x.ls, 3, x.n, x.e)
  IN forbody(PutFs(a, luaK_checkstack(Fs(a), 3)), Fs(ls).freereg, m.n - 3, FALSE)

forstat(ls) ==
  LET n == str_checkname(luaX_next(PutFs(ls, enterblock(Fs(ls), TRUE))))
      f == CASE Tok(n.ls) = "=" -> fornum(n.ls, n.x)
             [] Tok(n.ls) \in {",", "in"} -> forlist(n.ls, n.x)
             [] OTHER -> luaX_syntaxerror(n.ls, "'=' or 'in' expected")
      m == check_match(f, "end")
  IN PutFs(m, leaveblock(Fs(m)))

(* [ls, x] *)
test_then_block(ls) ==
  LET c == cond(luaX_next(ls)) IN [ls |-> block(checknext(c.ls, "then")), x |-> c.x]

(* escape: the jumps from the ends of the branches *)
RECURSIVE Branches(_, _, _)
Branches(ls, flist, escape) ==
  LET j  == luaK_jump(Fs(ls))
      e  == luaK_concat(j.fs, escape, j.x)
      h  == PutFs(ls, luaK_patchtohere(e.fs, flist))
      t  == test_then_block(h)
      b  == block(luaX_next(h))
      n  == luaK_concat(Fs(ls), escape, flist)
  IN CASE Tok(ls) = "elseif" -> Branches(t.ls, t.x, e.x)
       [] Tok(ls) = "else"   -> PutFs(b, luaK_patchtohere(Fs(b), e.x))
       [] OTHER -> PutFs(ls, luaK_patchtohere(n.fs, n.x))

ifstat(ls) ==
  LET t == test_then_block(ls) IN check_match(Branches(t.ls, t.x, NO_JUMP), "end")

(* the function sees the variable it is stored in *)
localfunc(ls) ==
  LET n  == str_checkname(ls)
      l  == new_localvar(n.ls, n.x, 0)
      v  == Exp("VLOCAL", Fs(l).freereg)
      b  == body(PutFs(l, adjustlocalvars(luaK_reserveregs(Fs(l), 1), 1)), FALSE)
  IN PutFs(b.ls, luaK_storevar(Fs(b.ls), v, b.e))

(* the variables become active after the expressions *)
localstat(ls) ==
  LET f == str_checkname(ls)
      m == MoreNames(new_localvar(f.ls, f.x, 0), 1)
      x == IF testnext(m.ls, "=") THEN explist1(luaX_next(m.ls))
                                  ELSE [ls |-> m.ls, e |-> Exp("VVOID", 0), n |-> 0]
      a == adjust_assign(x.ls, m.n, x.n, x.e)
  IN PutFs(a, adjustlocalvars(Fs(a), m.n))

(* [ls, e, self] *)
RECURSIVE funcname(_, _)
funcname(ls, v) ==
  LET f == field(ls, v)
  IN CASE Tok(ls) = "." -> funcname(f.ls, f.e)
       [] Tok(ls) = ":" -> [ls |-> f.ls, e |-> f.e, self |-> TRUE]
       [] OTHER -> [ls |-> ls, e |-> v, self |-> FALSE]

funcstat(ls) ==
  LET s == singlevar(luaX_next(ls))
      n == funcname(s.ls, s.e)
      b == body(n.ls, n.self)
  IN PutFs(b.ls, luaK_storevar(Fs(b.ls), n.e, b.e))

exprstat(ls) ==
  LET p == primaryexp(ls)
  IN IF p.e.k = "VCALL" THEN PutFs(p.ls, SETARG_C(Fs(p.ls), p.e.info, 1))
                        ELSE assignment(p.ls, p.e)

(* the values of a return: open, a tail call, one anywhere, or many in a row *)
retstat(ls0) ==
  LET ls == luaX_next(ls0)
      x  == explist1(ls)
      fs == Fs(x.ls)
      m  == luaK_setreturns(fs, x.e, LUA_MULTRET)
      tc == lua_assert([m EXCEPT !.code[x.e.info + 1].op = "OP_TAILCALL"], 1252,
                       getcode(m, x.e).a = m.nactvar)
      a  == luaK_exp2anyreg(fs, x.e)
      n  == luaK_exp2nextreg(fs, x.e).fs
      nr == lua_assert(n, 1263, x.n = n.freereg - n.nactvar)
  IN CASE block_follow(Tok(ls)) \/ Tok(ls) = ";" -> PutFs(ls, luaK_ret(Fs(ls), 0, 0))
       [] hasmultret(x.e.k) ->
            PutFs(x.ls, luaK_ret(IF x.e.k = "VCALL" /\ x.n = 1 THEN tc ELSE m,
                                 m.nactvar, LUA_MULTRET))
       [] ~hasmultret(x.e.k) /\ x.n = 1 -> PutFs(x.ls, luaK_ret(a.fs, a.e.info, 1))
       [] OTHER -> PutFs(x.ls, luaK_ret(nr, n.nactvar, x.n))

statement(ls) ==
  LET d == block(luaX_next(ls))
      l == luaX_next(ls)
  IN CASE Tok(ls) = "if"       -> ifstat(ls)
       [] Tok(ls) = "while"    -> whilestat(ls)
       [] Tok(ls) = "do"       -> check_match(d, "end")
       [] Tok(ls) = "for"      -> forstat(ls)
       [] Tok(ls) = "repeat"   -> repeatstat(ls)
       [] Tok(ls) = "function" -> funcstat(ls)
       [] Tok(ls) = "local"    ->
            IF testnext(l, "function") THEN localfunc(luaX_next(l)) ELSE localstat(l)
       [] Tok(ls) = "return"   -> retstat(ls)
       [] Tok(ls) = "break"    -> breakstat(luaX_next(ls))
       [] OTHER -> exprstat(ls)

(* the statements of a block: return and break must be the last *)
RECURSIVE Statements(_)
Statements(ls) ==
  LET s  == statement(ls)
      t  == IF testnext(s, ";") THEN luaX_next(s) ELSE s
      fs == Fs(t)
      a  == lua_assert(fs, 1332, fs.maxstacksize >= fs.freereg /\ fs.freereg >= fs.nactvar)
      l  == PutFs(t, [a EXCEPT !.freereg = fs.nactvar])
  IN CASE block_follow(Tok(ls)) -> ls
       [] ~block_follow(Tok(ls)) /\ Tok(ls) \in {"return", "break"} -> l
       [] OTHER -> Statements(l)

chunk(ls) == leavelevel(Statements(enterlevel(ls)))

(* luaY_parser: the main function, which has no name and is always vararg    *)
luaY_parser(toks) ==
  LET o == open_func([toks |-> Append(toks, <<"eos">>), pos |-> 1, fss |-> <<>>, level |-> 0])
      c == check(chunk(PutFs(o, [Fs(o) EXCEPT !.is_vararg = {"ISVARARG"}])), "eos")
      fs == close_func(c).fs
  IN lua_assert(fs, 395, fs.upvalues = <<>>)
=============================================================================
