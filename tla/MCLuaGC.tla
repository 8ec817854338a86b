------------------------------- MODULE MCLuaGC -------------------------------
(* The collector on a heap of a few objects.                                *)
EXTENDS LuaGC
=============================================================================
