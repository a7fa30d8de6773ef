---------------------------- MODULE ToolScripts ----------------------------
(***************************************************************************)
(* Sessions, files and command lines for the tool: scripts of functions    *)
(* alike and not alike, in each other or behind each other, and the        *)
(* compiled programs of LuaPrograms with one operand changed.              *)
(***************************************************************************)
EXTENDS LuaPrograms, TLC

OpModes == INSTANCE LuaChunk WITH FixedOne <- 1, MaxInt <- 1, MaxDepth <- 1, MaxStack <- 250

(* The functions of the scripts: an answer, another one, a function with a *)
(* function in it, one whose listing is the first's and more, and two that *)
(* answer different strings whose text is the same.                        *)
FunctionTree(f) ==
    CASE f = "one" -> Fun(<<>>, <<Return(<<Num(1)>>)>>)
      [] f = "two" -> Fun(<<>>, <<Return(<<Num(2)>>)>>)
      [] f = "maker" -> Fun(<<>>, <<Return(<<Fun(<<>>, <<Return(<<Num(1)>>)>>)>>)>>)
      [] f = "more" -> Fun(<<>>, <<Block(<<Return(<<Num(1)>>)>>), Block(<<Return(<<>>)>>), Return(<<Num(2)>>)>>)
      [] f \in {"control", "shift"} -> Fun(<<>>, <<Return(<<Str(f)>>)>>)
Trees == {"one", "two", "maker", "more", "control", "shift"}
Globals == <<"f", "g", "h">>
Lists == {<<>>, <<"one">>, <<"one", "two">>, <<"one", "more">>, <<"maker", "one">>, <<"two", "maker", "one">>, <<"control">>, <<"shift">>}
Sources == {<<"script", fs>> : fs \in Lists} \cup {<<"single", f>> : f \in Trees}
(* A script with every instruction that the compiler writes for small      *)
(* tables, and the same with one operand changed.                          *)
Sample ==
    <<Local(<<"a", "b">>, <<Num(1)>>), Let("t", Rec(<<It(V("a")), Fd(Str("x"), V("b"))>>)),
      Set("b", Un("#", At("t", Str("x")))), Set("g", Bin("..", V("a"), V("b"))),
      LocalFun("f", <<"x">>, <<Set("a", V("x")), Return(<<V("a")>>)>>),
      Let("c", Bin("and", V("a"), V("b"))), Let("d", Bin("<", V("a"), Num(2))),
      When(Un("not", V("c")), <<Do(Method(V("t"), "x", <<Plus(V("a"), 2), Bin("<=", V("b"), V("a"))>>))>>),
      For("i", 1, 2, <<Let("k", V("i")), Let("h", Fun(<<>>, <<Return(<<V("k")>>)>>))>>),
      ForIn_(<<"k">>, <<V("t")>>, <<SetTo(<<At("t", V("k"))>>, <<Un("-", V("k"))>>)>>),
      Set("d", Un("not", V("d"))), When(Bin("==", V("a"), V("b")), <<Show(<<Dots>>)>>),
      Return(<<CallOf("f", <<V("a")>>)>>)>>
BodyOfSource(s) ==
    CASE s[1] = "single" -> <<Set("SingleFunction", FunctionTree(s[2]))>>
      [] s[1] = "script" -> [n \in DOMAIN s[2] |-> Set(Globals[n], FunctionTree(s[2][n]))]

(* What the compiler makes of them, which the run compares with what it    *)
(* makes of them.                                                          *)
CodeFrom(list) == [n \in DOMAIN list |-> [op |-> list[n][1], a |-> list[n][2], b |-> list[n][3], c |-> list[n][4]]]
CompiledTo(list, k, p) ==
    [code |-> CodeFrom(list), k |-> k, p |-> p, nups |-> 0, numparams |-> 0, isVararg |-> FALSE,
     hasArg |-> FALSE, needsArg |-> FALSE, maxstacksize |-> 2]
Back == <<"RETURN", 0, 1, 0>>
CompiledAnswer(v) == CompiledTo(<<<<"LOADK", 0, 0, 0>>, <<"RETURN", 0, 2, 0>>, Back>>, <<v>>, <<>>)
CompiledFunction(f) ==
    CASE f = "one" -> CompiledAnswer(Number(1))
      [] f = "two" -> CompiledAnswer(Number(2))
      [] f = "maker" -> CompiledTo(<<<<"CLOSURE", 0, 0, 0>>, <<"RETURN", 0, 2, 0>>, Back>>, <<>>, <<CompiledAnswer(Number(1))>>)
      [] f \in {"control", "shift"} -> CompiledAnswer(String(f))
      [] f = "more" -> CompiledTo(<<<<"LOADK", 0, 0, 0>>, <<"RETURN", 0, 2, 0>>, Back,
                                    <<"LOADK", 0, 1, 0>>, <<"RETURN", 0, 2, 0>>, Back>>, <<Number(1), Number(2)>>, <<>>)
CompiledMain(names, fs) ==
    [CompiledTo([n \in 1..(2 * Len(fs)) |-> IF n % 2 = 1 THEN <<"CLOSURE", 0, n \div 2, 0>>
                                            ELSE <<"SETGLOBAL", 0, n \div 2 - 1, 0>>] \o <<Back>>,
                [n \in DOMAIN fs |-> String(names[n])], [n \in DOMAIN fs |-> CompiledFunction(fs[n])])
     EXCEPT !.isVararg = TRUE]
CompiledSample ==
    [CompiledTo(<<
        <<"LOADK", 0, 0, 0>>, <<"LOADNIL", 1, 1, 0>>, <<"NEWTABLE", 2, 1, 1>>, <<"MOVE", 3, 0, 0>>,
        <<"SETTABLE", 2, 257, 1>>, <<"SETLIST", 2, 1, 1>>, <<"GETTABLE", 3, 2, 257>>, <<"LEN", 1, 3, 0>>,
        <<"MOVE", 3, 0, 0>>, <<"MOVE", 4, 1, 0>>, <<"CONCAT", 3, 3, 4>>, <<"SETGLOBAL", 3, 2, 0>>,
        <<"CLOSURE", 3, 0, 0>>, <<"MOVE", 0, 0, 0>>, <<"TESTSET", 4, 0, 0>>, <<"JMP", 0, 1, 0>>,
        <<"MOVE", 4, 1, 0>>, <<"LT", 1, 0, 259>>, <<"JMP", 0, 1, 0>>, <<"LOADBOOL", 5, 0, 1>>,
        <<"LOADBOOL", 5, 1, 0>>, <<"TEST", 4, 0, 1>>, <<"JMP", 0, 8, 0>>, <<"SELF", 6, 2, 257>>,
        <<"LOADK", 8, 3, 0>>, <<"ADD", 8, 0, 8>>, <<"LE", 1, 1, 0>>, <<"JMP", 0, 1, 0>>,
        <<"LOADBOOL", 9, 0, 1>>, <<"LOADBOOL", 9, 1, 0>>, <<"CALL", 6, 4, 1>>, <<"LOADK", 6, 0, 0>>,
        <<"LOADK", 7, 3, 0>>, <<"LOADK", 8, 0, 0>>, <<"FORPREP", 6, 4, 0>>, <<"MOVE", 10, 9, 0>>,
        <<"CLOSURE", 11, 1, 0>>, <<"MOVE", 0, 10, 0>>, <<"CLOSE", 10, 0, 0>>, <<"FORLOOP", 6, -5, 0>>,
        <<"MOVE", 6, 2, 0>>, <<"LOADNIL", 7, 8, 0>>, <<"JMP", 0, 2, 0>>, <<"UNM", 10, 9, 0>>,
        <<"SETTABLE", 2, 9, 10>>, <<"TFORLOOP", 6, 0, 1>>, <<"JMP", 0, -4, 0>>, <<"NOT", 5, 5, 0>>,
        <<"EQ", 0, 0, 1>>, <<"JMP", 0, 3, 0>>, <<"GETGLOBAL", 6, 4, 0>>, <<"VARARG", 7, 0, 0>>,
        <<"CALL", 6, 0, 1>>, <<"MOVE", 6, 3, 0>>, <<"MOVE", 7, 0, 0>>, <<"TAILCALL", 6, 2, 0>>,
        <<"RETURN", 6, 0, 0>>, Back>>,
        <<Number(1), String("x"), String("g"), Number(2), String("out")>>,
        <<[CompiledTo(<<<<"SETUPVAL", 0, 0, 0>>, <<"GETUPVAL", 1, 0, 0>>, <<"RETURN", 1, 2, 0>>, Back>>, <<>>, <<>>)
           EXCEPT !.nups = 1, !.numparams = 1],
          [CompiledTo(<<<<"GETUPVAL", 0, 0, 0>>, <<"RETURN", 0, 2, 0>>, Back>>, <<>>, <<>>) EXCEPT !.nups = 1]>>)
     EXCEPT !.isVararg = TRUE, !.maxstacksize = 12]
CompiledSource(s) ==
    CASE s[1] = "single" -> CompiledMain(<<"SingleFunction">>, <<s[2]>>)
      [] s[1] = "script" -> CompiledMain(Globals, s[2])
Compiles == [s \in Sources |-> CompiledSource(s)]

(* The operands that the machine reads. *)
Operands(op) ==
    (IF op = "JMP" THEN {} ELSE {"a"})
    \cup (IF OpModes!OpMode(op).b = "N" \/ op = "TEST" THEN {} ELSE {"b"})
    \cup (IF OpModes!OpMode(op).c = "N" THEN {} ELSE {"c"})
(* An operand of the first instruction of its kind, of the main function   *)
(* or of one in it, is one more or 256 more.                               *)
CodeOf(n) == IF n = 0 THEN CompiledSample.code ELSE CompiledSample.p[n].code
FirstOfKind(n, k) == \A i \in 1..(k - 1) : CodeOf(n)[i].op # CodeOf(n)[k].op
Edits == UNION {UNION {{<<"edit", n, k, o, more>> : o \in Operands(CodeOf(n)[k].op), more \in {1, 256}}
                       : k \in {j \in DOMAIN CodeOf(n) : FirstOfKind(n, j)}}
                : n \in 0..Len(CompiledSample.p)}
Edited(e) ==
    IF e[2] = 0 THEN [CompiledSample EXCEPT !.code[e[3]][e[4]] = @ + e[5]]
    ELSE [CompiledSample EXCEPT !.p[e[2]].code[e[3]][e[4]] = @ + e[5]]

File(begin, holds) == [begin |-> begin, holds |-> holds]
Luac(f) == File(<<"luac">>, <<"chunk", f>>)
Arg(name) == <<"file", name>>
N(n) == <<"number", n>>
ScriptFile == Arg(<<"a", "luac">>)
CommandLine(task, args) == <<<<"LuaTool">>, <<task>>>> \o args
ScriptCommands ==
    {CommandLine("/d", <<<<"-f">>, N(n), ScriptFile>>) : n \in 1..3}
    \cup {CommandLine("/c", <<<<"-r">>, N(n), ScriptFile, Arg(<<"a", "lua">>)>>) : n \in 0..3}
    \cup {CommandLine(task, <<ScriptFile>>) : task \in {"/decompile", "/compile", "/compare", "/detect"}}
    \cup {CommandLine("/decompile", <<<<"-o">>, ScriptFile, ScriptFile>>), CommandLine("/d", <<ScriptFile, <<"-f">>>>),
          CommandLine("/d", <<<<"-dis">>, ScriptFile>>), CommandLine("/d", <<<<"-f">>>>),
          CommandLine("/compare", <<<<"-s">>, <<"-du">>, ScriptFile, Arg(<<"b", "luac">>)>>),
          CommandLine("/cr", <<ScriptFile, Arg(<<"a", "lua">>)>>), CommandLine("/c", <<Arg(<<"a", "lua">>)>>),
          CommandLine("/c", <<<<"-s">>, <<"-o">>, Arg(<<"b", "luac">>), Arg(<<"a", "lua">>)>>),
          CommandLine("/dt", <<>>)}
ScriptSessions == {<<"script", fs>> : fs \in Lists \ {<<"one">>, <<"one", "two">>}}
MCSessions == [s \in ScriptSessions \cup Edits |->
    IF s \in ScriptSessions
    THEN [disk |-> <<"a", "luac">> :> Luac(Compiles[s]), commands |-> ScriptCommands]
    ELSE [disk |-> <<"a", "luac">> :> Luac(CompiledSample) @@ <<"b", "luac">> :> Luac(Edited(s)),
          commands |-> {CommandLine("/cr", <<ScriptFile, Arg(<<"b", "luac">>)>>)}]]

(* Folders of scripts that are decompiled right or wrong or not at all, or *)
(* into another that has the same text, or cannot be loaded, under names that differ or differ in their ending.    *)
Kinds == {"right", "alike", "wrong", "broken", "unloadable"}
Original == <<"script", <<"maker", "one">>>>
Unloadable == [Compiles[Original] EXCEPT !.p[2].code = SubSeq(@, 1, 1)]
ScriptInput(name, kind) ==
    [name |-> name,
     file |-> Luac(CASE kind = "unloadable" -> Unloadable
                     [] kind = "alike" -> Compiles[<<"script", <<"shift">>>>]
                     [] OTHER -> Compiles[Original]),
     decompiled |-> CASE kind = "right" -> Original
                      [] kind = "alike" -> <<"script", <<"control">>>>
                      [] kind = "wrong" -> <<"script", <<"one", "two">>>>
                      [] OTHER -> <<"broken">>,
     packed |-> <<>>]
OtherInput(name, begin) ==
    [name |-> name, file |-> File(<<begin>>, <<"other">>), decompiled |-> <<"broken">>, packed |-> <<>>]
FolderOf(kinds, base) == <<ScriptInput(<<"a", "bin">>, kinds[1]), ScriptInput(<<base, "luac">>, kinds[2])>>

(* A container has its own end, and each script an end behind it, one more *)
(* token and a bar; where 0 is in front of LF there is a CR between them.  *)
RECURSIVE WithReturns(_)
WithReturns(script) ==
    IF Len(script) < 2 THEN script
    ELSE LET rest == WithReturns(Tail(script))
         IN IF script[1] = "0" /\ script[2] = "LF" THEN <<"0", "CR">> \o rest ELSE <<script[1]>> \o rest
Packed(scripts) ==
    <<"end">> \o FlattenSeq([n \in DOMAIN scripts |-> WithReturns(scripts[n]) \o <<"end", "x", "|">>])
Container(scripts) ==
    [name |-> <<"c", "bin">>, file |-> File(<<"end">>, <<"container", Packed(scripts)>>),
     decompiled |-> <<"broken">>, packed |-> scripts]
Rests == {<<>>, <<"x">>, <<"end">>, <<"0", "LF">>, <<"0", "CR">>, <<"end", "x">>, <<"x", "end">>, <<"end", "x", "x">>,
          <<"end", "end", "x">>, <<"0", "LF", "end", "0", "LF">>, <<"end", "x", "|">>, <<"0", "CR", "LF">>}
PackedScripts == {<<"luac">> \o rest : rest \in Rests}

MCBatches ==
    LET folders == {"folder"} \X [1..2 -> Kinds] \X {"a", "b"}
        containers == {"container"} \X (UNION {[1..n -> PackedScripts] : n \in 0..2})
    IN [b \in folders \cup containers \cup {<<"mixed">>} |->
        CASE b[1] = "folder" -> FolderOf(b[2], b[3])
          [] b[1] = "container" -> <<Container(b[2])>>
          [] OTHER -> <<Container(<<<<"luac">>>>), OtherInput(<<"q", "bin">>, "qtc"), OtherInput(<<"x", "bin">>, "xml"),
                        OtherInput(<<"o", "bin">>, "mode9"), ScriptInput(<<"s", "luac">>, "right")>>]
=============================================================================
