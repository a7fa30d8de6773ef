---------------------------- MODULE Disassembly ----------------------------
(***************************************************************************)
(* The listing of a compiled script (LuaDec/disassemble.cpp, and what it   *)
(* reads of LuaDec/Function.cpp, LuaDec/Op.cpp and LuaDec/RegisterFile.cpp *)
(* and LuaDec/LuaDec.cpp), as a sequence of lines.                         *)
(*                                                                         *)
(* The line of an instruction has its place, its name and its operands     *)
(* with what the comment adds to them: constants, targets of jumps and the *)
(* numbers of functions.  Layout, names and debug lines are left out, and  *)
(* so is the word behind a SETLIST with too many items for its operand c.  *)
(***************************************************************************)
EXTENDS LuaValue, Sequences, SequencesExt

Comment == <<"comment">>
Blank == <<"blank">>

(* The characters of a string; of the strings of scripts, those with       *)
(* control characters have a name here, and another is one word.           *)
Spelled == [control |-> <<"C1", "4">>, shift |-> <<"SO">>]
Characters(s) == IF s \in DOMAIN Spelled THEN Spelled[s] ELSE <<s>>

(* getBxConstant, which is what DecriptConstant has made of it; getPrefix, *)
(* with the operand behind it: one of 256 or more is printed less 256,     *)
(* also where no prefix stands in front of it.                             *)
Text == INSTANCE Literals
Constant(f, bx) ==
    LET v == f.k[bx + 1]
    IN Text!DecriptConstant(IF v[1] = "str" THEN String(Characters(v[2])) ELSE v)
Operand(x) == IF IsK(x) THEN x - BitRK ELSE x
Register(r) == <<"R", r>>
Plain(n) == <<"plain", n>>
Shown(f, x) == IF IsK(x) THEN <<"K", Operand(x), Constant(f, Operand(x))>> ELSE Register(x)
NamedConstant(f, bx) == <<"K", bx, Constant(f, bx)>>
Target(pc, i) == Plain(i.b + pc + 1)

(* A function has the number of its place in each function around it. *)
Number0 == <<>>
OperandsOf(f, number, pc) ==
    LET i == f.code[pc + 1]
        is(ops) == i.op \in ops
        a == Register(i.a)
        next == Target(pc + 1, f.code[pc + 2])
    IN CASE is({"MOVE", "LOADNIL", "VARARG", "UNM", "NOT", "LEN"}) -> <<a, Register(i.b)>>
         [] is({"LOADK", "GETGLOBAL", "SETGLOBAL"}) -> <<a, NamedConstant(f, i.b)>>
         [] is({"LOADBOOL", "NEWTABLE", "CALL", "TAILCALL", "SETLIST"}) -> <<a, Plain(Operand(i.b)), Plain(Operand(i.c))>>
         [] is({"GETUPVAL", "SETUPVAL"}) -> <<a, <<"U", i.b>>>>
         [] is({"GETTABLE", "SELF"}) -> <<a, Register(i.b), Shown(f, i.c)>>
         [] is({"SETTABLE", "ADD", "SUB", "MUL", "DIV", "MOD", "POW"}) -> <<a, Shown(f, i.b), Shown(f, i.c)>>
         [] is({"CONCAT"}) -> <<a, Register(i.b), Register(i.c)>>
         [] is({"JMP"}) -> <<Target(pc, i)>>
         [] is({"EQ", "LT", "LE"}) -> <<Plain(i.a), Shown(f, i.b), Shown(f, i.c), next>>
         [] is({"TEST"}) -> <<a, Plain(Operand(i.c)), next>>
         [] is({"TESTSET"}) -> <<a, Register(i.b), Plain(Operand(i.c)), next>>
         [] is({"RETURN"}) -> <<a, Plain(Operand(i.b))>>
         [] is({"FORLOOP", "FORPREP"}) -> <<a, Target(pc, i)>>
         [] is({"TFORLOOP"}) -> <<a, Plain(Operand(i.c)), next>>
         [] is({"CLOSE"}) -> <<a>>
         [] is({"CLOSURE"}) -> <<a, Plain(i.b), <<"function", number \o <<i.b + 1>>>>>>

Line(f, number, pc) == <<"op", pc, f.code[pc + 1].op, OperandsOf(f, number, pc)>>

(* Function::disassemble: six lines of header, the instructions, and the   *)
(* functions of the function, each under two lines with its number.        *)
FunctionHeader == [n \in 1..6 |-> Comment]
RECURSIVE FunctionText(_, _)
FunctionText(f, number) ==
    FunctionHeader \o <<Blank>>
    \o [n \in DOMAIN f.code |-> Line(f, number, n - 1)]
    \o (IF number = Number0 THEN <<Blank, Blank>> ELSE <<Blank>>)
    \o FlattenSeq([n \in DOMAIN f.p |->
           <<Comment, Comment>> \o FunctionText(f.p[n], Append(number, n)) \o <<Blank>>])

(* disassembleForCompare, of a file that could be loaded. *)
GlobalHeader == <<Comment, Comment, Blank>>
Listing(f) == GlobalHeader \o FunctionText(f, Number0)

-----------------------------------------------------------------------------
(* Reading a listing (LuaCompare::loadFiles): the instructions of each of  *)
(* its functions, in the order of the listing.                             *)

IsBlank(text, n) == n > Len(text) \/ text[n] = Blank
BlankFrom(text, n) == CHOOSE m \in n..(Len(text) + 1) :
                          IsBlank(text, m) /\ \A k \in n..(m - 1) : ~IsBlank(text, k)
TextFrom(text, n) == CHOOSE m \in n..(Len(text) + 1) :
                         /\ m = Len(text) + 1 \/ ~IsBlank(text, m)
                         /\ \A k \in n..(m - 1) : IsBlank(text, k)

RECURSIVE FunctionsFrom(_, _)
FunctionsFrom(text, at) ==
    LET header == BlankFrom(text, at + 1)
        end == BlankFrom(text, header + 1)
    IN IF at > Len(text) THEN <<>>
       ELSE <<SubSeq(text, header + 1, end - 1)>> \o FunctionsFrom(text, TextFrom(text, end))
FunctionsOf(text) == FunctionsFrom(text, BlankFrom(text, 2))
=============================================================================
