----------------------------- MODULE LuaCompare -----------------------------
(***************************************************************************)
(* How the tool compares two scripts (LuaCompare/LuaCompare.cpp): the      *)
(* lines of their listings, place by place.                                *)
(*                                                                         *)
(* A file on the disk has a beginning, which tells its type, and what it   *)
(* holds: a compiled script, the text of one, or something else.  Sources  *)
(* are compiled by the compiler (LuaParser), whose results are given; that *)
(* a compiled script is read as it was written is shown of LuaChunk.       *)
(***************************************************************************)
EXTENDS Disassembly, ManilaFiles, FiniteSets, FiniteSetsExt

CONSTANT
    Compiles      \* [sources -> functions]: what the compiler makes of a source

Chunk == INSTANCE LuaChunk WITH FixedOne <- 1, MaxInt <- 1, MaxDepth <- 1, MaxStack <- 250

File(begin, holds) == [begin |-> begin, holds |-> holds]
CompiledFile(f) == File(<<"luac">>, <<"chunk", f>>)
TextFile(source) == File(<<"luadec">>, <<"source", source>>)
OtherFile(begin) == File(begin, <<"other">>)
NoFile == OtherFile(Missing)

(* luaL_loadfile; a compiled script is refused when its code is not right. *)
RECURSIVE Verifies(_)
Verifies(f) == Chunk!CheckCode(f) /\ \A n \in DOMAIN f.p : Verifies(f.p[n])
CanLoad(file) ==
    CASE file.holds[1] = "chunk" -> Verifies(file.holds[2])
      [] file.holds[1] = "source" -> file.holds[2] \in DOMAIN Compiles
      [] OTHER -> FALSE
LoadFile(file) == IF file.holds[1] = "chunk" THEN file.holds[2] ELSE Compiles[file.holds[2]]

(* disassembleForCompare: no function when there is an error. *)
CanDisassemble(file) == ManilaType(file.begin) \in {"LUAC", "LUA"} /\ CanLoad(file)
ListedFunctions(file) == FunctionsOf(Listing(LoadFile(file)))

(* A line behind the last, and a function behind the last. *)
LineAt(f, n) == IF n \in DOMAIN f THEN f[n] ELSE <<"nil">>
FunctionAt(fs, i) == IF i \in DOMAIN fs THEN fs[i] ELSE <<>>

(* Mutation: the lines behind the end of one function are not looked at. *)
PlacesOfBoth(f, g) == 1..Min({Len(f), Len(g)})

Places(f, g) == 1..Max({Len(f), Len(g)})
SameLines(f, g) == {n \in Places(f, g) : LineAt(f, n) = LineAt(g, n)}
SameFunction(f, g) == SameLines(f, g) = Places(f, g)

(* LuaCompare::compare: all functions, those of the original; or the       *)
(* function of a number with the first function of the new file.           *)
Count(fs) == FoldLeft(LAMBDA n, f : n + Len(f), 0, fs)
SameIn(original, new) ==
    FoldLeft(LAMBDA n, i : n + Cardinality(SameLines(original[i], FunctionAt(new, i))),
             0, [i \in DOMAIN original |-> i])
PercentOf(original, new, number) ==
    IF number <= 0 \/ number >= Len(original) THEN (100 * SameIn(original, new)) \div Count(original)
    ELSE IF SameFunction(original[number + 1], FunctionAt(new, 2)) THEN 100 ELSE 0

Comparable(original, new) == CanDisassemble(original) /\ CanDisassemble(new)
Percent(original, new, number) ==
    IF Comparable(original, new)
    THEN PercentOf(ListedFunctions(original), ListedFunctions(new), number)
    ELSE 0

-----------------------------------------------------------------------------
(* What the properties of the tasks compare: scripts, not their listings.  *)

(* Of a string, what a reader of its text can know: the digits behind a    *)
(* control character that was written as a short number belong to it.      *)
DigitOf(c) == SelectInSeq(Text!Digit, LAMBDA d : d = c) - 1
ReadAs(chars) ==
    FoldLeft(LAMBDA read, c :
                 IF read # <<>> /\ Last(read)[1] = "byte" /\ Last(read)[2] < 100 /\ DigitOf(c) >= 0
                 THEN Append(Front(read), <<"byte", 10 * Last(read)[2] + DigitOf(c)>>)
                 ELSE Append(read, IF c \in DOMAIN Text!Byte \ DOMAIN Text!Named THEN <<"byte", Text!Byte[c]>>
                                   ELSE <<"char", c>>),
             <<>>, chars)
ConstantMeant(v) == IF v[1] = "str" THEN String(ReadAs(Characters(v[2]))) ELSE v

(* Two functions do the same at a place, as far as their text can tell: the *)
(* same instruction, with the same constants for its operands, and with the *)
(* same counts but for the bit of 256.                                      *)
OperandMeant(f, op, mode, x) ==
    CASE mode = "K" -> IF IsK(x) THEN <<"constant", ConstantMeant(f.k[x - BitRK + 1])>> ELSE <<"register", x>>
      [] mode = "Kx" -> ConstantMeant(f.k[x + 1])
      [] mode = "U" /\ op # "CLOSURE" -> x % BitRK
      [] OTHER -> x
Instruction(f, n) ==
    LET i == f.code[n]
        mode == Chunk!OpMode(i.op)
    IN <<i.op, i.a, OperandMeant(f, i.op, mode.b, i.b), OperandMeant(f, i.op, mode.c, i.c)>>
AlikeCode(f, g) == \A n \in DOMAIN f.code : n \in DOMAIN g.code /\ Instruction(f, n) = Instruction(g, n)

RECURSIVE AllFunctions(_)
AllFunctions(f) == <<f>> \o FlattenSeq([n \in DOMAIN f.p |-> AllFunctions(f.p[n])])
AlikeScript(f, g) ==
    LET fs == AllFunctions(f)
        gs == AllFunctions(g)
    IN \A n \in DOMAIN fs : n \in DOMAIN gs /\ AlikeCode(fs[n], gs[n])
=============================================================================
