---------------------------- MODULE MCLuaCompiler ----------------------------
(***************************************************************************)
(* The whole way of a script: it is compiled, written to a file, read back *)
(* and executed, for programs of every construct and for expressions in    *)
(* every place that may need their value.                                  *)
(***************************************************************************)
EXTENDS LuaPrograms

CONSTANTS Scripts, MaxIndexRK, MaxArgC, FixedOne, MaxInt, MaxDepth, MaxStack,
          MaxTagLoop, MaxCCalls, MaxCalls, MinStack

VARIABLES
    program,   \* what is compiled
    parser,    \* the parser, between the statements of the script
    built,     \* what the compiler and the loader have said of it
    m          \* the machine that executes it

Compiler == INSTANCE LuaParser
Chunk == INSTANCE LuaChunk
VM == INSTANCE LuaVM
Files == INSTANCE ToolScripts

vars == <<program, parser, built, m>>

(* The scripts of a run: the one whose continues miss their loop, or all    *)
(* others, with those whose functions the commands of the tool are given.   *)
Sources ==
    IF Scripts = "continue" THEN {<<"continue">>}
    ELSE {<<"number", n>> : n \in DOMAIN Programs} \cup {<<"expression", e>> : e \in Simple \cup Logical}
         \cup {<<"constant", v>> : v \in Constants}
         \cup {<<"given", s>> : s \in Files!Sources} \cup {<<"sample">>}
BodyOf(p) ==
    CASE p[1] = "number" -> Programs[p[2]]
      [] p[1] = "expression" -> UsedBy(p[2])
      [] p[1] = "constant" -> Constantly(p[2])
      [] p[1] = "given" -> Files!BodyOfSource(p[2])
      [] p[1] = "sample" -> Files!Sample
      [] p[1] = "continue" -> ContinueMisses
Reference(p) == IF p[1] = "number" THEN SameAs[p[2]] ELSE BodyOf(p)

Phase == m.outcome[1]
Executes == Phase \notin {"none", "parses", "parsed", "compiled", "written"}
Init ==
    /\ program \in Sources
    /\ parser = [last |-> FALSE]
    /\ built = <<>>
    /\ m = [outcome |-> <<"none">>]

Open ==
    /\ Phase = "none"
    /\ parser' = Compiler!Opened(Source(BodyOf(program)))
    /\ m' = [outcome |-> <<"parses">>]
    /\ UNCHANGED <<program, built>>

Parse ==
    /\ Phase = "parses" /\ ~Compiler!BlockFollow(Compiler!Tok(parser))
    /\ parser' = Compiler!NextStatement(parser)
    /\ m' = IF Compiler!IsLast(Compiler!Tok(parser)) THEN [outcome |-> <<"parsed">>] ELSE m
    /\ UNCHANGED <<program, built>>

(* All files that end too early. *)
CutsAreRefused(file) ==
    Len(file) > 120 \/ \A n \in 0..(Len(file) - 1) : ~Chunk!Undump(SubSeq(file, 1, n), FALSE).ok

Finish ==
    /\ Phase \in {"parses", "parsed"}
    /\ Phase = "parses" => Compiler!BlockFollow(Compiler!Tok(parser))
    /\ built' = Compiler!Compiled(parser)
    /\ parser' = [last |-> TRUE]
    /\ m' = [outcome |-> <<"compiled">>]
    /\ UNCHANGED program

Write ==
    /\ Phase = "compiled"
    /\ built' = [proto |-> built.proto, file |-> Chunk!Dump(built.proto),
                 sound |-> built.sound /\ Chunk!CheckCode(built.proto)]
    /\ m' = [outcome |-> <<"written">>]
    /\ UNCHANGED <<program, parser>>

(* What a file can hold, counted by itself.  Of a string with characters of *)
(* three bytes the reader has room for one more than it has plain ones.     *)
HoldsString(str, lucky) ==
    LET number(c) == Cardinality({i \in DOMAIN Chunk!CharactersOf(str) : Chunk!CharactersOf(str)[i] = c})
    IN /\ number(Chunk!Malformed) = 0 /\ (number(Chunk!Terminator) = 0 \/ lucky)
       /\ number(3) <= number(1) + 1
HoldsNumber(n) == n # SmallFraction /\ n * FixedOne \in (-MaxInt - 1)..MaxInt
RECURSIVE HoldsFunction(_, _)
HoldsFunction(f, lucky) ==
    /\ \A i \in DOMAIN f.k : /\ f.k[i][1] = "str" => HoldsString(f.k[i][2], lucky)
                             /\ f.k[i][1] = "num" => HoldsNumber(f.k[i][2])
    /\ \A i \in DOMAIN f.p : HoldsFunction(f.p[i], lucky)

Take(back, held) ==
    /\ built' = [sound |-> built.sound, ok |-> back.ok, same |-> back.ok /\ back.x = built.proto,
                 held |-> held, cuts |-> CutsAreRefused(built.file),
                 meaning |-> Meaning(Reference(program), VM!Library)]
    /\ m' = VM!Loaded(IF back.ok THEN back.x ELSE built.proto)

(* Behind the zero of a string the memory may have what was there before.   *)
Read ==
    /\ Phase = "written"
    /\ \E lucky \in BOOLEAN :
          /\ lucky => program[1] = "constant"
          /\ Take(Chunk!Undump(built.file, lucky), HoldsFunction(built.proto, lucky))
    /\ UNCHANGED <<program, parser>>

Run ==
    /\ Executes
    /\ VM!Next
    /\ UNCHANGED <<program, parser, built>>
Next == Open \/ Parse \/ Finish \/ Write \/ Read \/ Run
Spec == Init /\ [][Next]_vars

(* The functions that the commands of the tool are given are what the      *)
(* compiler makes of their sources.                                        *)
ToolIsGivenWhatCompiles ==
    Phase = "compiled" =>
        /\ program[1] = "given" => built.proto = Files!Compiles[program[2]]
        /\ program[1] = "sample" => built.proto = Files!CompiledSample

(* The assertions of the compiler hold (lua_assert of lualib/lparser.c and  *)
(* lualib/lcode.c): registers are freed in the order of a stack, a block    *)
(* leaves no jump or register behind, and the code passes luaG_checkcode.   *)
CompilesSoundly == Executes => built.sound

(* A file that luaU_dump has written is accepted by luaU_undump, header,    *)
(* structure and check of the code, and the function is the one written,    *)
(* exactly when its constants are such that the format holds them: numbers  *)
(* by the fixed point, strings without a zero or a malformed character, and *)
(* with no more characters of three bytes than the reader has room for      *)
(* (lualib/ldump.c, lualib/lundump.c).                                      *)
ReadsBack == Executes => built.ok /\ (built.same <=> built.held)

(* A file that is cut off, wherever, is not taken for a script: LoadBlock   *)
(* of lualib/lundump.c throws an error when a read meets the end.           *)
CutFileRefused == Executes => built.cuts

(* The assertions of the machine, see LuaVM: a call or an error leaves the  *)
(* top and the count of calls as they belong to the function that goes on, *)
(* and the upvalues of it alone are open.                                  *)
CallsBalance == Executes => VM!TopDiscipline /\ VM!CallsCounted
UpvaluesLive == Executes => VM!UpvaluesLive

(* A script whose constants its file holds puts out what it means, and ends *)
(* as it means to: by its last statement or by an error.  The jumps of      *)
(* lualib/lcode.c, the registers of lualib/lparser.c, and calls, closures,  *)
(* metatables, errors and coroutines of lualib/lvm.c and lualib/ldo.c have  *)
(* no other purpose.  The two loops of ContinueMisses are the exception,    *)
(* which ContinueMeansNextRound is about.                                   *)
MeansWhatItSays == m.out = built.meaning.out /\ m.outcome = built.meaning.ends
ComputesMeaning == Phase \in {"done", "error"} /\ built.held => MeansWhatItSays

(* A continue goes on with the next round of its loop (the comment on       *)
(* continuestat in lualib/lparser.c: CONTINUE [loop number]), with new      *)
(* variables as every round has them.                                       *)
ContinueMeansNextRound == Phase \in {"done", "error"} => MeansWhatItSays
=============================================================================
