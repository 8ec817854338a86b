----------------------------- MODULE LuaOpcodes -----------------------------
(* Instructions of the Lua virtual machine (lopcodes.h, lopcodes.c).  An     *)
(* instruction is a record of its opcode and its arguments; Bx and sBx are   *)
(* kept in b, sBx without its excess.  The widths of the fields are          *)
(* constants, so that their limits can be met by small programs.             *)
EXTENDS LuaValue, TLC

CONSTANTS
  BITRK,             (* an RK operand from here on names a constant          *)
  MAXARG_sBx,        (* longest jump                                         *)
  LFIELDS_PER_FLUSH  (* list items stored by one SETLIST                     *)

ASSUME WidthsAssumption ==
  /\ BITRK \in Nat \ {0} /\ MAXARG_sBx \in Nat /\ LFIELDS_PER_FLUSH \in Nat \ {0}

CREATE_ABC(o, a, b, c) == [op |-> o, a |-> a, b |-> b, c |-> c]
CREATE_ABx(o, a, bx)   == CREATE_ABC(o, a, bx, 0)

(* RK operands *)
ISK(x)     == x >= BITRK
INDEXK(x)  == x - BITRK
RKASK(x)   == x + BITRK
MAXINDEXRK == BITRK - 1

(* a register no instruction can name *)
NO_REG  == BITRK - 1
NO_JUMP == -1

(* arg.modes of luaP_opmodes: N not used, U used, R register or jump, K     *)
(* constant or register/constant                                            *)
Mode(t, a, b, c, m) == [t |-> t, a |-> a, b |-> b, c |-> c, m |-> m]

luaP_opmodes ==
  LET move  == Mode(FALSE, TRUE,  "R", "N", "iABC")
      arith == Mode(FALSE, TRUE,  "K", "K", "iABC")
      comp  == Mode(TRUE,  FALSE, "K", "K", "iABC")
      call  == Mode(FALSE, TRUE,  "U", "U", "iABC")
      loop  == Mode(FALSE, TRUE,  "R", "N", "iAsBx")
  IN [o \in {"OP_MOVE", "OP_LOADNIL", "OP_UNM", "OP_NOT", "OP_LEN"} |-> move]
  @@ [o \in {"OP_ADD", "OP_SUB", "OP_MUL", "OP_DIV", "OP_MOD", "OP_POW"} |-> arith]
  @@ [o \in {"OP_EQ", "OP_LT", "OP_LE"} |-> comp]
  @@ [o \in {"OP_CALL", "OP_TAILCALL", "OP_LOADBOOL", "OP_NEWTABLE"} |-> call]
  @@ [o \in {"OP_FORLOOP", "OP_FORPREP"} |-> loop]
  @@ [o \in {"OP_LOADK", "OP_GETGLOBAL"} |-> Mode(FALSE, TRUE, "K", "N", "iABx")]
  @@ [o \in {"OP_GETTABLE", "OP_SELF"} |-> Mode(FALSE, TRUE, "R", "K", "iABC")]
  @@ [o \in {"OP_TEST", "OP_TESTSET"} |-> Mode(TRUE, TRUE, "R", "U", "iABC")]
  @@ [o \in {"OP_GETUPVAL", "OP_VARARG"} |-> Mode(FALSE, TRUE, "U", "N", "iABC")]
  @@ [o \in {"OP_SETUPVAL", "OP_RETURN"} |-> Mode(FALSE, FALSE, "U", "N", "iABC")]
  @@ ("OP_SETGLOBAL" :> Mode(FALSE, FALSE, "K", "N", "iABx"))
  @@ ("OP_SETTABLE"  :> Mode(FALSE, FALSE, "K", "K", "iABC"))
  @@ ("OP_CONCAT"    :> Mode(FALSE, TRUE,  "R", "R", "iABC"))
  @@ ("OP_JMP"       :> Mode(FALSE, FALSE, "R", "N", "iAsBx"))
  @@ ("OP_TFORLOOP"  :> Mode(TRUE,  FALSE, "N", "U", "iABC"))
  @@ ("OP_SETLIST"   :> Mode(FALSE, FALSE, "U", "U", "iABC"))
  @@ ("OP_CLOSE"     :> Mode(FALSE, FALSE, "N", "N", "iABC"))
  @@ ("OP_CLOSURE"   :> Mode(FALSE, TRUE,  "U", "N", "iABx"))

getOpMode(o) == luaP_opmodes[o].m
getBMode(o)  == luaP_opmodes[o].b
getCMode(o)  == luaP_opmodes[o].c
testTMode(o) == luaP_opmodes[o].t

(* the sequences of the C arrays are numbered from 0 *)
At(s, i) == s[i + 1]

(* sizes as a "floating point byte" eeeeexxx, rounded up, and back *)
fb[x \in Nat, e \in Nat] ==
  CASE x >= 16 -> fb[(x + 1) \div 2, e + 1]
    [] x < 8   -> x
    [] OTHER   -> (e + 1) * 8 + (x - 8)
luaO_int2fb(x) == fb[x, 0]
luaO_fb2int(x) ==
  LET e == (x \div 8) % 32 IN IF e = 0 THEN x ELSE ((x % 8) + 8) * power[2, e - 1]
=============================================================================
