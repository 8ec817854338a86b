------------------------------ MODULE LuaLimits ------------------------------
(* A limit of luaconf.h that the parser, the stack of calls and LuaCalls     *)
(* share.                                                                    *)
EXTENDS Naturals

CONSTANT LUAI_MAXCCALLS  \* depth of C calls (200)

(* an eighth of it is at least one call in reserve (ldo.c luaD_call)         *)
ASSUME CcallsAssumption == LUAI_MAXCCALLS \in Nat /\ LUAI_MAXCCALLS >= 8
=============================================================================
