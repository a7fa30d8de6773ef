------------------------------ MODULE LuaTool ------------------------------
(***************************************************************************)
(* The tasks of the tool for one file (LuaTool/runLuaDec.cpp, runLuaC.cpp, *)
(* runLuaComapre.cpp and runManilaDetect.cpp, with LuaDec/LuaDec.cpp and   *)
(* LuaC/LuaC.cpp): each command reads files of the disk and writes others. *)
(*                                                                         *)
(* An argument is <<word>>, <<"number", n>> or <<"file", name>>, a name a  *)
(* sequence of the parts between its dots.  The passes of the decompiler   *)
(* are not modelled: its text may be any, right or wrong.  A source is     *)
(* <<"script", functions>>, which assigns functions to globals,            *)
(* <<"single", function>>, which assigns one to SingleFunction, or         *)
(* <<"broken">>, which is not Lua.                                         *)
(***************************************************************************)
EXTENDS LuaCompare

CONSTANTS
    Sessions,     \* names -> [disk: names -> files, commands: those that are given]
    MaxCommands   \* bound of the model: commands of a session

VARIABLE tool     \* part; the disk; how many commands ran; what the last one did

-----------------------------------------------------------------------------
(* Command lines.  An option takes the arguments behind it, and those that *)
(* are not there are made by looking at them.                              *)

None == <<"">>
Grown(args, n) == args \o [k \in 1..(IF n > Len(args) THEN n - Len(args) ELSE 0) |-> None]

RECURSIVE Scan(_, _, _)
Scan(arity, at, S) ==
    LET word == S.args[at][1]
        n == arity[word]
        args == Grown(S.args, at + n)
        taken == [S EXCEPT !.args = args, !.count = @ + n + 1,
                           !.options = Append(@, <<word, SubSeq(args, at + 1, at + n)>>)]
    IN IF at > Len(S.args) THEN S
       ELSE IF word \in DOMAIN arity THEN Scan(arity, at + n + 1, taken)
       ELSE Scan(arity, at + 1, S)
Parsed(args, arity) == Scan(arity, 3, [args |-> args, count |-> 0, options |-> <<>>])

(* Everything but the program, the task and the files is an option. *)
Valid(line, files) == line.count = Len(line.args) - 2 - files

(* The last of several. *)
Given(line, words) == SelectSeq(line.options, LAMBDA o : o[1] \in words)
ValueOf(line, word) == IF Given(line, {word}) = <<>> THEN None ELSE Last(Given(line, {word}))[2][1]

NumberOf(arg) == IF arg[1] = "number" THEN arg[2] ELSE 0      \* atoi
NameOf(arg) == IF arg[1] = "file" THEN arg[2] ELSE <<arg[1]>>

RemoveExt(name) == IF Len(name) > 1 THEN Front(name) ELSE name

FileAt(disk, name) == IF name \in DOMAIN disk THEN disk[name] ELSE NoFile
Written(disk, name, file) == [n \in DOMAIN disk \cup {name} |-> IF n = name THEN file ELSE disk[n]]

-----------------------------------------------------------------------------
(* What a task says: itself, an error or none, and the percentage.  The    *)
(* rest is for the properties: the files it was about.                     *)
Said(task, error, percent, about) == [task |-> task, error |-> error, percent |-> percent, about |-> about]

After(disk, said) ==
    tool' = [tool EXCEPT !.disk = disk, !.ran = @ + 1, !.said = said]
Refuses(task) == After(tool.disk, Said(task, "usage", 0, <<>>))

(* The text of a decompiler that makes no mistake. *)
IsSourceOf(source, f, number) ==
    IF number \in 1..Len(f.p)
    THEN source[1] = "single" /\ Compiles[source].p = <<f.p[number]>>
    ELSE source[1] = "script" /\ Compiles[source] = f
Decompilations(f, number) ==
    {<<"broken">>} \cup {s \in DOMAIN Compiles : (s[1] = "single") = (number \in 1..Len(f.p))}

(* Reports of a comparison that is not 100 %: what differs when there was  *)
(* something to compare, an error when there was not, and a listing.       *)
Reports(disk, name, original, new, number) ==
    LET differs == Append(name, "cmp") \o <<"lua">>
        failed == name \o <<"error", "txt">>
        compared == Comparable(original, new)
        report == IF compared THEN Written(disk, differs, OtherFile(<<"other">>))
                  ELSE Written(disk, failed, OtherFile(<<"other">>))
    IN IF CanDisassemble(original)
       THEN Written(report, name \o <<"dis", "lua">>, OtherFile(<<"luadec">>)) ELSE report

(* singleLuaDec without -dis. *)
Decompile(input, output, number) ==
    LET original == FileAt(tool.disk, input)
        name == IF output = None THEN Append(RemoveExt(input), "lua") ELSE output
    IN IF ManilaType(original.begin) # "LUAC" \/ ~CanLoad(original)
       THEN After(tool.disk, Said("decompile", "input", 0, <<>>))
       ELSE \E source \in Decompilations(LoadFile(original), number) :
            LET written == Written(tool.disk, name, TextFile(source))
                read == FileAt(written, input)
                percent == Percent(read, written[name], number)
                disk == IF percent = 100 THEN written
                        ELSE Reports(written, RemoveExt(name), read, written[name], number)
            IN After(disk, Said("decompile", "none", percent,
                   [original |-> original, new |-> written[name], number |-> number,
                    source |-> source, same |-> name = input]))

Disassemble(input, output) ==
    LET original == FileAt(tool.disk, input)
        name == IF output = None THEN RemoveExt(input) \o <<"dis", "lua">> ELSE output
    IN IF ~CanDisassemble(original) THEN After(tool.disk, Said("disassemble", "input", 0, <<>>))
       ELSE After(Written(tool.disk, name, OtherFile(<<"luadec">>)), Said("disassemble", "none", 0, <<>>))

DecompileOptions == [option \in {"-dis", "-f", "-o"} |-> IF option = "-dis" THEN 0 ELSE 1]
RunLuaDec(args) ==
    LET line == Parsed(args, DecompileOptions)
        input == NameOf(Last(line.args))
        output == NameOf(ValueOf(line, "-o"))
    IN CASE ~Valid(line, 1) -> Refuses("decompile")
         [] Valid(line, 1) /\ Given(line, {"-dis"}) # <<>> -> Disassemble(input, output)
         [] OTHER -> Decompile(input, output, NumberOf(ValueOf(line, "-f")))

-----------------------------------------------------------------------------
(* LuaC::compile *)
Compile(input, name) ==
    LET file == FileAt(tool.disk, input)
    IN IF ~CanLoad(file) THEN After(tool.disk, Said("compile", "input", 0, <<>>))
       ELSE After(Written(tool.disk, name, CompiledFile(LoadFile(file))), Said("compile", "none", 0, <<>>))

(* Mutation: functions are counted from 0. *)
ReplacedFrom0(f, number, function) ==
    IF number + 1 \in DOMAIN f.p THEN [f EXCEPT !.p[number + 1] = function] ELSE f

Replaced(f, number, function) == [f EXCEPT !.p[number] = function]

(* LuaC::compileAndReplace: the first function of the input takes the      *)
(* place of a function of the destination, which is written back.          *)
CompileAndReplace(input, name, number) ==
    LET file == FileAt(tool.disk, input)
        dest == FileAt(tool.disk, name)
        error == CASE ~CanLoad(dest) -> "destination"
                   [] CanLoad(dest) /\ ~CanLoad(file) -> "input"
                   [] CanLoad(dest) /\ CanLoad(file) /\ number > Len(LoadFile(dest).p) -> "number"
                   [] OTHER -> IF LoadFile(file).p = <<>> THEN "function" ELSE "none"
        new == CompiledFile(Replaced(LoadFile(dest), number, LoadFile(file).p[1]))
    IN IF error # "none" THEN After(tool.disk, Said("replace", error, 0, <<>>))
       ELSE After(Written(tool.disk, name, new),
                  Said("replace", "none", 0, [original |-> dest, new |-> new, number |-> number, input |-> file]))

CompileOptions == [option \in {"-s", "-o", "-r"} |-> CASE option = "-s" -> 0 [] option = "-o" -> 1 [] OTHER -> 2]
RunLuaC(args) ==
    LET line == Parsed(args, CompileOptions)
        input == NameOf(Last(line.args))
        outputs == Given(line, {"-o", "-r"})
        output == IF outputs = <<>> THEN None ELSE NameOf(Last(Last(outputs)[2]))
        name == IF output = None THEN Append(RemoveExt(input), "luac") ELSE output
        isReplace == Given(line, {"-r"}) # <<>>
        number == NumberOf(ValueOf(line, "-r"))
    IN CASE ~Valid(line, 1) \/ (isReplace /\ number <= 0) -> Refuses("compile")
         [] Valid(line, 1) /\ isReplace /\ number > 0 -> CompileAndReplace(input, name, number)
         [] OTHER -> Compile(input, name)

-----------------------------------------------------------------------------
CompareOptions == [option \in {"-s", "-du", "-o"} |-> IF option = "-o" THEN 1 ELSE 0]
RunLuaCompare(args) ==
    LET line == Parsed(args, CompareOptions)
        originalName == NameOf(line.args[Len(line.args) - 1])
        newName == NameOf(Last(line.args))
        original == FileAt(tool.disk, originalName)
        new == FileAt(tool.disk, newName)
        output == NameOf(ValueOf(line, "-o"))
        name == IF output = None THEN RemoveExt(newName) \o <<"cmp", "lua">> ELSE output
    IN IF ~Valid(line, 2) THEN Refuses("compare")
       ELSE IF ~Comparable(original, new) THEN After(tool.disk, Said("compare", "input", 0, <<>>))
       ELSE After(Written(tool.disk, name, OtherFile(<<"other">>)),
                  Said("compare", "none", Percent(original, new, 0),
                       [original |-> original, new |-> new, number |-> 0]))

RunManilaDetect(args) ==
    IF Len(args) # 3 THEN Refuses("detect")
    ELSE After(tool.disk, Said(ManilaType(FileAt(tool.disk, NameOf(Last(args))).begin), "none", 0, <<>>))

-----------------------------------------------------------------------------
(* main, with the task and its other name. *)
Began(name) == [part |-> "session", session |-> name, disk |-> Sessions[name].disk, ran |-> 0, said |-> Said("nothing", "none", 0, <<>>)]
Init == \E name \in DOMAIN Sessions : tool = Began(name)

Ready == tool.part = "session" /\ tool.ran < MaxCommands
Task(args) == args[2][1]
Runs(args) ==
    \/ Task(args) \in {"/decompile", "/d"} /\ RunLuaDec(args)
    \/ Task(args) \in {"/compile", "/c"} /\ RunLuaC(args)
    \/ Task(args) \in {"/compare", "/cr"} /\ RunLuaCompare(args)
    \/ Task(args) \in {"/detect", "/dt"} /\ RunManilaDetect(args)
Command == Ready /\ \E args \in Sessions[tool.session].commands : Runs(args)
Leave == tool.part = "session" /\ UNCHANGED tool
Next == Command \/ Leave

-----------------------------------------------------------------------------
(* Properties. *)

(* A tool that says 100 % found every instruction of the original at its   *)
(* place in the new script, with the same operands and constants, and it   *)
(* says so whenever that is the case: a listing tells instructions apart,  *)
(* and what a file is compared with is what the command asked for          *)
(* (LuaCompare::compare of LuaCompare/LuaCompare.cpp, Function::disassemble *)
(* of LuaDec/disassemble.cpp).  Just two things are alike to it that are    *)
(* not the same: strings whose text a reader takes for the same, because a *)
(* digit stands behind a control character (RegisterFile::DecriptString),  *)
(* and a count and the count 256 above it (op.c -= 256).  Of one function   *)
(* this is true when no function in front of it or in it contains another, *)
(* and of a decompilation when it did not overwrite its input.             *)
Flat(f) == \A n \in DOMAIN f.p : f.p[n].p = <<>>
Honest(said) ==
    LET about == said.about
        original == LoadFile(about.original)
        new == LoadFile(about.new)
    IN IF ~CanLoad(about.new) THEN said.percent = 0
       ELSE IF about.number \notin 1..Len(original.p)
            THEN Flat(original) \/ about.number = 0 => (said.percent = 100 <=> AlikeScript(original, new))
       ELSE Flat(original) =>
            (said.percent = 100 <=>
                /\ new.p # <<>> /\ Len(new.p[1].code) = Len(original.p[about.number].code)
                /\ AlikeCode(original.p[about.number], new.p[1]))
ComparesHonestly ==
    tool.part = "session" /\ tool.said.about # <<>> =>
        \/ tool.said.task = "compare" /\ Honest(tool.said)
        \/ tool.said.task = "decompile" /\ (tool.said.about.same \/ Honest(tool.said))
        \/ tool.said.task = "replace"

(* What a script is, is not changed by putting one of its functions, as it *)
(* was decompiled without mistake, in its own place; and another function  *)
(* in that place leaves the others as they were (LuaC::compileAndReplace   *)
(* of LuaC/LuaC.cpp, with the -f of LuaTool/runLuaDec.cpp).                *)
ReplacesInPlace ==
    tool.part = "session" /\ tool.said.task = "replace" /\ tool.said.error = "none" =>
        LET about == tool.said.about
            original == LoadFile(about.original)
            new == LoadFile(about.new)
            own == about.input.holds[1] = "source" /\ IsSourceOf(about.input.holds[2], original, about.number)
        IN /\ own => new = original
           /\ [new EXCEPT !.p = <<>>] = [original EXCEPT !.p = <<>>]
           /\ \A n \in DOMAIN original.p \ {about.number} : new.p[n] = original.p[n]
=============================================================================
