------------------------------ MODULE LuaChunk ------------------------------
(***************************************************************************)
(* Compiled chunks as files: the check that code must pass                 *)
(* (lualib/ldebug.c, symbexec without a register to trace), how a function *)
(* is written (lualib/ldump.c) and how it is read back (lualib/lundump.c), *)
(* in the format of this tool: wide characters, and numbers as integers    *)
(* with a fixed point.                                                     *)
(*                                                                         *)
(* A file is a sequence of what was written, each with the kind of write.  *)
(* The debug part of a function is empty (it is stripped).                 *)
(***************************************************************************)
EXTENDS LuaValue, Sequences, SequencesExt

CONSTANTS
    FixedOne,     \* 0x10000, the fixed point of a number
    MaxInt,       \* the last int
    MaxDepth,     \* LUAI_MAXCCALLS, for functions in functions
    MaxStack      \* MAXSTACK

(* luaP_opmodes: whether it is a test, and how the operands b and c are used. *)
Mode(t, b, c) == [t |-> t, b |-> b, c |-> c]
OpMode(op) ==
    CASE op \in {"MOVE", "LOADNIL", "UNM", "NOT", "LEN"} -> Mode(FALSE, "R", "N")
      [] op = "LOADK" -> Mode(FALSE, "Kx", "N")
      [] op \in {"LOADBOOL", "NEWTABLE", "CALL", "TAILCALL", "SETLIST"} -> Mode(FALSE, "U", "U")
      [] op \in {"GETUPVAL", "SETUPVAL", "RETURN", "VARARG", "CLOSURE"} -> Mode(FALSE, "U", "N")
      [] op \in {"GETGLOBAL", "SETGLOBAL"} -> Mode(FALSE, "Kx", "N")
      [] op \in {"GETTABLE", "SELF"} -> Mode(FALSE, "R", "K")
      [] op \in {"SETTABLE", "ADD", "SUB", "MUL", "DIV", "MOD", "POW"} -> Mode(FALSE, "K", "K")
      [] op = "CONCAT" -> Mode(FALSE, "R", "R")
      [] op \in {"JMP", "FORLOOP", "FORPREP"} -> Mode(FALSE, "Jump", "N")
      [] op \in {"EQ", "LT", "LE"} -> Mode(TRUE, "K", "K")
      [] op \in {"TEST", "TESTSET"} -> Mode(TRUE, "R", "U")
      [] op = "TFORLOOP" -> Mode(TRUE, "N", "U")
      [] op = "CLOSE" -> Mode(FALSE, "N", "N")
Opcodes == {"MOVE", "LOADK", "LOADBOOL", "LOADNIL", "GETUPVAL", "GETGLOBAL", "GETTABLE", "SETGLOBAL",
            "SETUPVAL", "SETTABLE", "NEWTABLE", "SELF", "ADD", "SUB", "MUL", "DIV", "MOD", "POW", "UNM",
            "NOT", "LEN", "CONCAT", "JMP", "EQ", "LT", "LE", "TEST", "TESTSET", "CALL", "TAILCALL",
            "RETURN", "FORLOOP", "FORPREP", "TFORLOOP", "SETLIST", "CLOSE", "CLOSURE", "VARARG"}

CodeAt(f, pc) == f.code[pc + 1]
IsReg(f, r) == r < f.maxstacksize

Precheck(f) ==
    /\ f.maxstacksize <= MaxStack
    /\ f.numparams + (IF f.hasArg THEN 1 ELSE 0) <= f.maxstacksize
    /\ f.needsArg => f.hasArg
    /\ f.code # <<>> /\ f.code[Len(f.code)].op = "RETURN"

(* luaG_checkopenop, of the instruction behind pc *)
CheckOpenOp(f, pc) ==
    /\ pc + 1 < Len(f.code)
    /\ CodeAt(f, pc + 1).op \in {"CALL", "TAILCALL", "RETURN", "SETLIST"}
    /\ CodeAt(f, pc + 1).b = 0

CheckArgMode(f, r, mode) ==
    CASE mode = "N" -> r = 0
      [] mode = "U" -> TRUE
      [] mode = "R" -> IsReg(f, r)
      [] mode = "K" -> IF IsK(r) THEN r - BitRK < Len(f.k) ELSE IsReg(f, r)
      [] mode = "Kx" -> r < Len(f.k)
      [] mode = "Jump" -> TRUE

(* pc is the count of a SETLIST when an odd number of instructions that    *)
(* look like a SETLIST with a count is before it.                          *)
IsCount(f, pc) ==
    LET long(n) == CodeAt(f, n).op = "SETLIST" /\ CodeAt(f, n).c = 0
        before[n \in 0..pc] == IF n = 0 \/ ~long(n - 1) THEN 0 ELSE before[n - 1] + 1
    IN before[pc] % 2 = 1

(* The cases of symbexec; an instruction is checked with those behind it.  *)
Checked(f, pc) ==
    LET i == CodeAt(f, pc)
        mode == OpMode(i.op)
        is(ops) == i.op \in ops
        size == Len(f.code)
        jumps(dest) == dest \in 0..(size - 1) /\ ~IsCount(f, dest)
    IN /\ i.op \in Opcodes
       /\ IsReg(f, i.a)
       /\ CheckArgMode(f, i.b, mode.b) /\ CheckArgMode(f, i.c, mode.c)
       /\ mode.b = "Jump" => jumps(pc + 1 + i.b)
       /\ mode.t => pc + 2 < size /\ CodeAt(f, pc + 1).op = "JMP"
       /\ is({"LOADBOOL"}) /\ i.c = 1 => pc + 2 < size /\ ~IsCount(f, pc + 2)
       /\ is({"GETUPVAL", "SETUPVAL"}) => i.b < f.nups
       /\ is({"GETGLOBAL", "SETGLOBAL"}) => f.k[i.b + 1][1] = "str"
       /\ is({"SELF"}) => IsReg(f, i.a + 1)
       /\ is({"CONCAT"}) => i.b < i.c
       /\ is({"TFORLOOP"}) => i.c >= 1 /\ IsReg(f, i.a + 2 + i.c)
       /\ is({"FORLOOP", "FORPREP"}) => IsReg(f, i.a + 3)
       /\ is({"CALL", "TAILCALL"}) =>
              /\ i.b # 0 => IsReg(f, i.a + i.b - 1)
              /\ IF i.c - 1 = MultRet THEN CheckOpenOp(f, pc)
                 ELSE i.c - 1 # 0 => IsReg(f, i.a + i.c - 2)
       /\ is({"RETURN"}) /\ i.b > 1 => IsReg(f, i.a + i.b - 2)
       /\ is({"SETLIST"}) => /\ i.b > 0 => IsReg(f, i.a + i.b)
                             /\ i.c = 0 => pc + 1 < size - 1
       /\ is({"CLOSURE"}) =>
              /\ i.b < Len(f.p) /\ pc + f.p[i.b + 1].nups < size
              /\ \A j \in 1..f.p[i.b + 1].nups : CodeAt(f, pc + j).op \in {"GETUPVAL", "MOVE"}
       /\ is({"VARARG"}) =>
              /\ f.isVararg /\ ~f.needsArg
              /\ i.b - 1 = MultRet => CheckOpenOp(f, pc)
              /\ IsReg(f, i.a + i.b - 2)

(* luaG_checkcode *)
CheckCode(f) ==
    /\ Precheck(f)
    /\ \A pc \in 0..(Len(f.code) - 1) : IsCount(f, pc) \/ Checked(f, pc)

-----------------------------------------------------------------------------
(* Writing a function.                                                     *)

Header ==
    <<<<"char", "ESC">>, <<"char", "L">>, <<"char", "u">>, <<"char", "a">>, <<"char", "version">>,
      <<"char", "format">>, <<"char", "endianness">>, <<"char", "int">>, <<"char", "size_t">>,
      <<"char", "Instruction">>, <<"char", "lua_Number">>, <<"char", "integral">>>>
HeaderCompared == 6   \* memcmp compares LUAC_HEADERSIZE bytes of characters of two

(* (int)(x*0x10000); what no int holds becomes the least one, and the fixed *)
(* point has no digits for a fraction that is small.                        *)
DumpNumber(n) ==
    <<"number", IF n = SmallFraction THEN 0
                ELSE IF n > MaxInt \div FixedOne \/ n < -(MaxInt \div FixedOne) THEN -MaxInt - 1
                ELSE n * FixedOne>>

(* The characters of a string, each by its bytes in UTF-8: those that are   *)
(* not plain have names, a Terminator is a zero, Malformed is a byte that   *)
(* begins no character.                                                     *)
Terminator == 0
Malformed == 9
NotPlain == [zero |-> <<1, Terminator, 1>>, broken |-> <<1, Malformed>>,
             wide |-> <<3, 3>>, mixed |-> <<3, 1, 3>>, accents |-> <<2, 2, 2>>]
CharactersOf(s) == IF s \in DOMAIN NotPlain THEN NotPlain[s] ELSE [i \in 1..Len(s) |-> 1]
BeforeFirst(chars, c) ==
    LET at == SelectInSeq(chars, LAMBDA x : x = c)
    IN IF at = 0 THEN chars ELSE SubSeq(chars, 1, at - 1)
UpToZero(s) == Append(BeforeFirst(CharactersOf(s), Terminator), Terminator)

(* DumpString: strcpy takes a string up to its first zero, whose place what *)
(* the memory holds then follows, and iconv converts it up to the first     *)
(* byte it does not know.                                                   *)
DumpString(s) ==
    <<"string", [of |-> s, chars |-> BeforeFirst(UpToZero(s), Malformed)]>>

(* Mutation: of a boolean only its type is written. *)
DumpConstantShort(v) ==
    <<<<"char", v[1]>>>> \o
    CASE v[1] = "num" -> <<DumpNumber(v[2])>>
      [] v[1] = "str" -> <<DumpString(v[2])>>
      [] OTHER -> <<>>

DumpConstant(v) ==
    <<<<"char", v[1]>>>> \o
    CASE v[1] = "nil" -> <<>>
      [] v[1] = "bool" -> <<<<"char", v[2]>>>>
      [] v[1] = "num" -> <<DumpNumber(v[2])>>
      [] v[1] = "str" -> <<DumpString(v[2])>>

DumpDebug == <<<<"int", 0>>, <<"int", 0>>, <<"int", 0>>>>

(* The writes of the elements of a vector, behind their number. *)
DumpEach(written) == <<<<"int", Len(written)>>>> \o FlattenSeq(written)

RECURSIVE DumpFunction(_)
DumpFunction(f) ==
    LET code == [i \in DOMAIN f.code |-> <<<<"instruction", f.code[i]>>>>]
        constants == [i \in DOMAIN f.k |-> DumpConstant(f.k[i])]
        functions == [i \in DOMAIN f.p |-> DumpFunction(f.p[i])]
    IN <<<<"char", f.nups>>, <<"char", f.numparams>>,
         <<"char", [isVararg |-> f.isVararg, hasArg |-> f.hasArg, needsArg |-> f.needsArg]>>,
         <<"char", f.maxstacksize>>>>
       \o DumpEach(code) \o DumpEach(constants) \o DumpEach(functions) \o DumpDebug

Dump(f) == Header \o DumpFunction(f)

-----------------------------------------------------------------------------
(* Reading it back.  The state S of a load has the file that is left, what *)
(* was read last, the depth of functions, and whether an error was thrown; *)
(* nothing can be read after an error.  S.lucky: what stood in the memory  *)
(* behind a zero is by accident what the string had there.                 *)

LoadError(S) == [S EXCEPT !.file = <<>>, !.x = 0, !.ok = FALSE]
(* Mutation: a number that is missing at the end is taken for 0. *)
LoadTrusting(S, kind) ==
    IF S.file = <<>> THEN IF kind = "int" THEN [S EXCEPT !.x = 0] ELSE LoadError(S)
    ELSE IF Head(S.file)[1] # kind THEN LoadError(S)
    ELSE [S EXCEPT !.file = Tail(@), !.x = Head(S.file)[2]]

Load(S, kind) ==
    IF S.file = <<>> THEN LoadError(S)
    ELSE IF Head(S.file)[1] # kind THEN LoadError(S)
    ELSE [S EXCEPT !.file = Tail(@), !.x = Head(S.file)[2]]

(* LoadString: iconv may put out as many bytes as the string had in UTF-16, *)
(* and the last byte that it puts out is taken for the terminator.          *)
BytesOf(chars) == FoldSeq(LAMBDA c, n : n + (IF c = Terminator THEN 1 ELSE c), 0, chars)
BytesInUTF16(chars) == FoldSeq(LAMBDA c, n : n + (IF c = 4 THEN 4 ELSE 2), 0, chars)
Spoiled(s) == s \o "?"
LoadString(x, lucky) ==
    LET whole == x.chars = UpToZero(x.of) /\ BytesOf(x.chars) <= BytesInUTF16(x.chars)
        hasZero == Terminator \in Range(CharactersOf(x.of))
    IN IF whole /\ (hasZero => lucky) THEN x.of ELSE Spoiled(x.of)

ValueOf(type, S) ==
    CASE ~S.ok -> S
      [] S.ok /\ type = "bool" -> [S EXCEPT !.x = Bool(@)]
      [] S.ok /\ type = "num" -> [S EXCEPT !.x = Number(@ \div FixedOne)]
      [] S.ok /\ type = "str" -> [S EXCEPT !.x = String(LoadString(@, S.lucky))]
LoadValue(S) ==
    CASE ~S.ok -> S
      [] S.ok /\ S.x = "nil" -> [S EXCEPT !.x = Nil]
      [] S.ok /\ S.x \in {"bool", "num", "str"} ->
             ValueOf(S.x, Load(S, CASE S.x = "bool" -> "char" [] S.x = "num" -> "number"
                                    [] S.x = "str" -> "string"))
      [] OTHER -> LoadError(S)
LoadConstant(S) == LoadValue(Load(S, "char"))

(* As many elements as the number in front of them says. *)
RECURSIVE LoadFunction(_)
LoadEach(S, what) ==
    LET LoadOne(T) == CASE what = "constant" -> LoadConstant(T)
                        [] what = "function" -> LoadFunction(T)
                        [] OTHER -> Load(T, what)
        count == Load(S, "int")
        loaded[n \in 0..count.x] ==
            IF n = 0 THEN [S |-> count, list |-> <<>>]
            ELSE LET before == loaded[n - 1]
                     next == LoadOne(before.S)
                 IN [S |-> next, list |-> Append(before.list, next.x)]
        all == loaded[count.x]
    IN [all.S EXCEPT !.x = all.list]

LoadDebug(S) == Load(Load(Load(S, "int"), "int"), "int")

(* The parts of a function in the order of the file, S.parts those read. *)
PartsOfFunction ==
    <<"char", "char", "char", "char", "instruction", "constant", "function", "debug">>
LoadPart(S, part) ==
    CASE part = "char" -> Load(S, part)
      [] part = "debug" -> LoadDebug(S)
      [] OTHER -> LoadEach(S, part)
WithPart(S) == [S EXCEPT !.parts = Append(@, S.x)]
FunctionOf(parts) ==
    [code |-> parts[5], k |-> parts[6], p |-> parts[7], nups |-> parts[1], numparams |-> parts[2],
     isVararg |-> parts[3].isVararg, hasArg |-> parts[3].hasArg, needsArg |-> parts[3].needsArg,
     maxstacksize |-> parts[4]]
Verified(S, f) == IF CheckCode(f) THEN [S EXCEPT !.x = f] ELSE LoadError(S)

LoadFunction(S) ==
    LET read[n \in 0..Len(PartsOfFunction)] ==
            IF n = 0 THEN [S EXCEPT !.depth = @ + 1, !.parts = <<>>]
            ELSE WithPart(LoadPart(read[n - 1], PartsOfFunction[n]))
        all == read[Len(PartsOfFunction)]
    IN IF S.depth + 1 > MaxDepth THEN LoadError(S)
       ELSE IF ~all.ok THEN all
       ELSE [Verified(all, FunctionOf(all.parts)) EXCEPT !.depth = S.depth, !.parts = S.parts]

(* luaU_undump *)
Undump(file, lucky) ==
    LET S == [file |-> file, x |-> 0, parts |-> <<>>, depth |-> 0, ok |-> TRUE, lucky |-> lucky]
        size == Len(Header)
    IN IF Len(file) < size THEN LoadError(S)
       ELSE IF SubSeq(file, 1, HeaderCompared) # SubSeq(Header, 1, HeaderCompared) THEN LoadError(S)
       ELSE LoadFunction([S EXCEPT !.file = SubSeq(file, size + 1, Len(file))])
=============================================================================
