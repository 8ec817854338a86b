------------------------------ MODULE LuaCheck ------------------------------
(* The code checker (ldebug.c, "Symbolic Execution and code checker"), which *)
(* the compiler asserts of every function it closes and the loader of        *)
(* precompiled chunks asks of every function it reads.  A prototype is       *)
(*   [code, k, p, nups, numparams, is_vararg, maxstacksize].                 *)
(* Without a register to trace no jump is followed, so that the walk over    *)
(* the code is a conjunction over its instructions.                          *)
EXTENDS LuaCode

precheck(pt) ==
  /\ pt.maxstacksize <= MAXSTACK
  /\ pt.numparams + (IF "HASARG" \in pt.is_vararg THEN 1 ELSE 0) <= pt.maxstacksize
  /\ "NEEDSARG" \in pt.is_vararg => "HASARG" \in pt.is_vararg
  /\ Len(pt.code) > 0
  /\ pt.code[Len(pt.code)].op = "OP_RETURN"

checkreg(pt, r) == r < pt.maxstacksize

(* what may follow an instruction that leaves an open list on the stack *)
luaG_checkopenop(i) ==
  i.op \in {"OP_CALL", "OP_TAILCALL", "OP_RETURN", "OP_SETLIST"} /\ i.b = 0

checkArgMode(pt, r, mode) ==
  CASE mode = "N" -> r = 0
    [] mode = "U" -> TRUE
    [] mode = "R" -> checkreg(pt, r)
    [] mode = "K" -> IF ISK(r) THEN INDEXK(r) < Len(pt.k) ELSE checkreg(pt, r)

CheckFormat(pt, at, i) ==
  CASE getOpMode(i.op) = "iABC" ->
         checkArgMode(pt, i.b, getBMode(i.op)) /\ checkArgMode(pt, i.c, getCMode(i.op))
    [] getOpMode(i.op) = "iABx" -> getBMode(i.op) = "K" => i.b < Len(pt.k)
    [] getOpMode(i.op) = "iAsBx" ->
         getBMode(i.op) = "R" => at + 1 + i.b \in 0 .. Len(pt.code) - 1

CheckOp(pt, at, i) ==
  LET n    == Len(pt.code)
      next == At(pt.code, at + 1)
  IN CASE i.op = "OP_LOADBOOL" -> i.c = 1 => at + 2 < n /\ (next.op # "OP_SETLIST" \/ next.c # 0)
       [] i.op \in {"OP_GETUPVAL", "OP_SETUPVAL"} -> i.b < pt.nups
       [] i.op \in {"OP_GETGLOBAL", "OP_SETGLOBAL"} -> ttype(At(pt.k, i.b)) = "str"
       [] i.op = "OP_SELF"     -> checkreg(pt, i.a + 1)
       [] i.op = "OP_CONCAT"   -> i.b < i.c
       [] i.op = "OP_TFORLOOP" -> i.c >= 1 /\ checkreg(pt, i.a + 2 + i.c)
       [] i.op \in {"OP_FORLOOP", "OP_FORPREP"} -> checkreg(pt, i.a + 3)
       [] i.op \in {"OP_CALL", "OP_TAILCALL"} ->
            /\ i.b # 0 => checkreg(pt, i.a + i.b - 1)
            /\ CASE i.c - 1 = LUA_MULTRET -> luaG_checkopenop(next)
                 [] i.c - 1 = 0 -> TRUE
                 [] OTHER -> checkreg(pt, i.a + i.c - 2)
       [] i.op = "OP_RETURN"   -> i.b > 1 => checkreg(pt, i.a + i.b - 2)
       [] i.op = "OP_SETLIST"  -> i.b > 0 => checkreg(pt, i.a + i.b)
       [] i.op = "OP_CLOSURE"  ->
            /\ i.b < Len(pt.p)
            /\ at + At(pt.p, i.b).nups < n
            /\ \A j \in 1 .. At(pt.p, i.b).nups :
                 At(pt.code, at + j).op \in {"OP_GETUPVAL", "OP_MOVE"}
       [] i.op = "OP_VARARG"   ->
            /\ "ISVARARG" \in pt.is_vararg /\ "NEEDSARG" \notin pt.is_vararg
            /\ i.b - 1 = LUA_MULTRET => luaG_checkopenop(next)
            /\ checkreg(pt, i.a + i.b - 2)
       [] OTHER -> TRUE

luaG_checkcode(pt) ==
  /\ precheck(pt)
  /\ \A at \in 0 .. Len(pt.code) - 1 :
       LET i == At(pt.code, at)
       IN /\ checkreg(pt, i.a)
          /\ CheckFormat(pt, at, i)
          /\ testTMode(i.op) => /\ at + 2 < Len(pt.code)
                                /\ At(pt.code, at + 1).op = "OP_JMP"
          /\ CheckOp(pt, at, i)
=============================================================================
