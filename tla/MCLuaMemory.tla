---------------------------- MODULE MCLuaMemory ----------------------------
(* The collector for TLC.  The tables of its worlds hold one field; what a  *)
(* table does with more of them is LuaTable.                                *)
EXTENDS Collector, TLC

CONSTANTS str, g, t1, t2, u1, c1, v1, main, co

-----------------------------------------------------------------------------
(* The worlds of the collector: a table and a string, strong and weak; two  *)
(* tables; a userdata with a finalizer, as key and as value; a closure;     *)
(* a coroutine.                                                             *)
World(objects, keys, weakness) ==
    [objects |-> objects, keys |-> keys, mode |-> (g :> {}) @@ (t1 :> weakness) @@ (t2 :> {})]

MCWorlds ==
    {World({t1, str}, {Num, str}, {"k"}), World({t1, str}, {str, t1}, {}),
     World({t1, t2}, {Num}, {}), World({t1, u1}, {u1}, {"k"}),
     World({t1, u1}, {Num}, {"v"}), World({c1, v1, t1}, {}, {}),
     World({co, str}, {}, {})}
=============================================================================
