---------------------------- MODULE MCLuaTable ----------------------------
(* A table for TLC: three integers, a string and an object as keys.         *)
EXTENDS LuaTable, TLC

CONSTANTS str, o1, a1

-----------------------------------------------------------------------------
(* The high words of the doubles 1, 2 and 3, whose sum with the low word is *)
(* what hashnum hashes: 1 and 3 collide in every table.  In one of four      *)
(* nodes o1 collides with 2, and str has the last node, where collisions go. *)
MCHash == (1 :> 1072693248) @@ (2 :> 1073741824) @@ (3 :> 1074266112) @@ (str :> 7) @@ (o1 :> 4)

MCInts == 1..3
MCGrowth == {3}
=============================================================================
