------------------------------ MODULE LuaValue ------------------------------
(***************************************************************************)
(* Lua values (lualib/lobject.h) as tagged tuples, and the limits that the *)
(* compiler and the virtual machine agree on (lualib/lopcodes.h).          *)
(* Functions, tables and threads are names of objects of a heap.           *)
(***************************************************************************)
EXTENDS Integers

CONSTANT
    FieldsPerFlush    \* LFIELDS_PER_FLUSH

BitRK == 256
MultRet == -1
IsK(x) == x >= BitRK

Nil == <<"nil">>
Bool(b) == <<"bool", b>>
Number(n) == <<"num", n>>
String(s) == <<"str", s>>
LuaFunction(id) == <<"fun", id>>
CFunction(name) == <<"cfun", name>>
Table(id) == <<"table", id>>
Thread(id) == <<"thread", id>>

IsFalse(v) == v = Nil \/ v = Bool(FALSE)
IsFunction(v) == v[1] \in {"fun", "cfun"}

(* ttype of an object; the functions written in C and in Lua are of one    *)
(* type.                                                                   *)
TypeOf(v) == IF IsFunction(v) THEN "fun" ELSE v[1]

(* The numbers of the programs are integers and what they divide is a      *)
(* multiple; NoNumber stands for the results of dividing by zero, and      *)
(* SmallFraction for a fraction that no program calculates with.           *)
NoNumber == -999
SmallFraction == 1001
Arithmetic(op, x, y) ==
    CASE op = "ADD" -> x + y
      [] op = "SUB" -> x - y
      [] op = "MUL" -> x * y
      [] op = "DIV" -> IF y = 0 THEN NoNumber ELSE x \div y
      [] op = "MOD" -> IF y = 0 THEN NoNumber ELSE x % y
      [] op = "POW" -> x ^ y
      [] op = "UNM" -> -x
=============================================================================
