------------------------------ MODULE MultiDec ------------------------------
(***************************************************************************)
(* The task that decompiles all files of a folder (LuaTool/runMultiDec.cpp *)
(* and ML_CommonLib/Directory.cpp), which the user may stop and start      *)
(* again between any two of its commands.                                  *)
(*                                                                         *)
(* An input is [name, file, decompiled, packed]; its name is a sequence of *)
(* the parts between its dots, what is decompiled of it is the same in     *)
(* each run, and a container has the scripts that it was packed from.  The *)
(* folder of a script is one of the workspace, named for the script, until *)
(* it is renamed for the percentage.                                       *)
(***************************************************************************)
EXTENDS LuaCompare

CONSTANTS
    Batches,     \* names -> sequences of inputs, in the order of the folder
    MaxRuns      \* bound of the model: how often the task is started

VARIABLE tool    \* part, and what the folders hold

Inputs == Batches[tool.batch]
Input == Inputs[tool.at]

(* removeExt *)
BaseName(name) == IF Len(name) > 1 THEN Front(name) ELSE name

WorkFolder(input) == <<-1, BaseName(input.name)>>
NamedFolder(input, percent) == <<percent, input.name>>

(* MKDIR, which leaves a folder that exists alone. *)
WithFolder(folders, folder) ==
    [f \in DOMAIN folders \cup {folder} |-> IF f \in DOMAIN folders THEN folders[f] ELSE {}]
WithFile(folders, folder, file) == [folders EXCEPT ![folder] = @ \cup {file}]

(* RENAME, which fails when there is a folder of that name. *)
WithName(folders, folder, name) ==
    IF name \in DOMAIN folders THEN folders
    ELSE [f \in (DOMAIN folders \ {folder}) \cup {name} |-> IF f = name THEN folders[folder] ELSE folders[f]]

NewOf(input) == TextFile(input.decompiled)
PercentFor(input) == Percent(input.file, NewOf(input), 0)

-----------------------------------------------------------------------------
(* The steps for a file of the folder. *)

At(step) == tool.part = "batch" /\ tool.loop = 1 /\ tool.at <= Len(Inputs) /\ tool.step = step
Then(step, folders) == tool' = [tool EXCEPT !.step = step, !.folders = folders]
NextFile == [tool EXCEPT !.at = @ + 1, !.step = "detect"]
Copied(place) == tool' = [NextFile EXCEPT !.sorted = @ \cup {<<place, Input.name>>}]

Type(input) == ManilaType(input.file.begin)
PlaceOf(type) == CASE type = "MODE9_BIN" -> "Mode9"
                   [] type = "QTC" -> "QTC"
                   [] type = "LOC_XML" -> "XML"
                   [] OTHER -> "Other"

MakeFolder ==
    /\ At("detect") /\ Type(Input) = "LUAC"
    /\ Then("decompile", WithFolder(tool.folders, WorkFolder(Input)))

(* An input that cannot be loaded leaves its folder as it is. *)
Decompile ==
    /\ At("decompile")
    /\ IF CanLoad(Input.file) THEN Then("compare", WithFile(tool.folders, WorkFolder(Input), "lua"))
       ELSE tool' = NextFile

Compare ==
    /\ At("compare")
    /\ IF PercentFor(Input) = 100 THEN Then("rename", tool.folders)
       ELSE Then("list", WithFile(tool.folders, WorkFolder(Input),
                                  IF Comparable(Input.file, NewOf(Input)) THEN "cmp" ELSE "error"))

List ==
    /\ At("list")
    /\ Then("rename", WithFile(tool.folders, WorkFolder(Input), "dis"))

Rename ==
    /\ At("rename")
    /\ Then("sort", WithName(tool.folders, WorkFolder(Input), NamedFolder(Input, PercentFor(Input))))

(* Mutation: a script that was compared at all is a completed one. *)
PlaceForCompared(input) == IF Comparable(input.file, NewOf(input)) THEN "Completed" ELSE "Failed"

PlaceFor(input) == IF PercentFor(input) = 100 THEN "Completed" ELSE "Failed"
Sort == At("sort") /\ Copied(PlaceFor(Input))

(* The scripts of a container are written behind one another. *)
Extract ==
    /\ At("detect") /\ Type(Input) = "MODE9_BIN"
    /\ LET scripts == ExtractFrom(Input.file.holds[2], 1)
           files == [k \in DOMAIN scripts |-> [from |-> Input.name, number |-> k - 1, script |-> scripts[k]]]
       IN tool' = [tool EXCEPT !.step = "copy",
                               !.extracted = @ \/ scripts # <<>>,
                               !.embedded = @ \o SelectSeq(files, LAMBDA f : f \notin Range(tool.embedded))]

CopyContainer == At("copy") /\ Copied(PlaceOf("MODE9_BIN"))
CopyOther == At("detect") /\ Type(Input) \notin {"LUAC", "MODE9_BIN"} /\ Copied(PlaceOf(Type(Input)))

(* The scripts that were extracted are looked for under the name of their  *)
(* folder with their own behind it, where there is no file.                *)
EmbeddedFile(name) == NoFile
FolderDone ==
    /\ tool.part = "batch" /\ tool.loop = 1 /\ tool.at > Len(Inputs)
    /\ tool' = [tool EXCEPT !.loop = 2, !.at = IF tool.extracted THEN 1 ELSE Len(tool.embedded) + 1]
Embedded ==
    /\ tool.part = "batch" /\ tool.loop = 2 /\ tool.at <= Len(tool.embedded)
    /\ ManilaType(EmbeddedFile(tool.embedded[tool.at]).begin) # "LUAC"
    /\ tool' = NextFile

-----------------------------------------------------------------------------
Started(batch, run, folders, sorted, embedded) ==
    [part |-> "batch", batch |-> batch, run |-> run, loop |-> 1, at |-> 1, step |-> "detect",
     folders |-> folders, sorted |-> sorted, embedded |-> embedded, extracted |-> FALSE]
Init == \E batch \in DOMAIN Batches : tool = Started(batch, 1, [f \in {} |-> {}], {}, <<>>)

(* Whenever the user likes; what is in the folders stays. *)
StartAgain ==
    /\ tool.part = "batch" /\ tool.run < MaxRuns
    /\ tool' = Started(tool.batch, tool.run + 1, tool.folders, tool.sorted, tool.embedded)

Ended == tool.part = "batch" /\ tool.loop = 2 /\ tool.at > Len(tool.embedded)
Rest == Ended /\ UNCHANGED tool
Next == \/ MakeFolder \/ Decompile \/ Compare \/ List \/ Rename \/ Sort
        \/ Extract \/ CopyContainer \/ CopyOther \/ FolderDone \/ Embedded
        \/ StartAgain \/ Rest

-----------------------------------------------------------------------------
(* Properties. *)

Alone(input) == \A i \in DOMAIN Inputs : BaseName(Inputs[i].name) = BaseName(input.name) => Inputs[i] = input
IsRight(input) == NewOf(input).holds[2] \in DOMAIN Compiles
                  /\ AlikeScript(LoadFile(input.file), LoadFile(NewOf(input)))
FilesFor(input) ==
    {"lua"} \cup (IF IsRight(input) THEN {}
                  ELSE {"dis", IF CanLoad(NewOf(input)) THEN "cmp" ELSE "error"})
Loadable == {i \in DOMAIN Inputs : Type(Inputs[i]) = "LUAC" /\ CanLoad(Inputs[i].file)}

(* A folder that is named for a percentage is the one of an input, named   *)
(* 100 % just when the decompiled text is the whole script, as far as a    *)
(* comparison can tell (ComparesHonestly of LuaTool), and it has the       *)
(* files that belong to that percentage, and no others, however often the  *)
(* task was stopped between any two commands and started again; only when  *)
(* two inputs differ in nothing but the ending of their names may another  *)
(* run leave the files of one in the folder of the other.  When a run      *)
(* ended, each script that could be loaded is with the completed or with   *)
(* the failed ones, and is with the completed just when its text is right  *)
(* (LuaTool::runMultiDec of LuaTool/runMultiDec.cpp).                      *)
FoldersTell ==
    tool.part = "batch" =>
        /\ \A folder \in DOMAIN tool.folders : folder[1] >= 0 =>
               \E i \in Loadable :
                   /\ Inputs[i].name = folder[2]
                   /\ folder[1] = 100 <=> IsRight(Inputs[i])
                   /\ tool.run = 1 \/ Alone(Inputs[i]) => tool.folders[folder] = FilesFor(Inputs[i])
        /\ Ended => \A i \in Loadable :
               /\ <<"Completed", Inputs[i].name>> \in tool.sorted <=> IsRight(Inputs[i])
               /\ <<"Failed", Inputs[i].name>> \in tool.sorted <=> ~IsRight(Inputs[i])
               /\ \E folder \in DOMAIN tool.folders : folder[1] >= 0 /\ folder[2] = Inputs[i].name

(* What a script must be to be found whole in a container: behind each of  *)
(* the ends in it there is some more of it, and no bar where one ends it.  *)
IsWhole(script) ==
    /\ \A n \in DOMAIN script : script[n] = "end" =>
           /\ n + BarGap <= Len(script) + 1
           /\ n + BarGap \in DOMAIN script => script[n + BarGap] # "|"
    /\ \A n \in 1..(Len(script) - 2) : SubSeq(script, n, n + 2) # <<"0", "CR", "LF">>

(* The scripts of a container are extracted as they were packed, all of    *)
(* them and in their order, although what ends a script may also be in one *)
(* (m9extract of LuaTool/runMultiDec.cpp).                                 *)
ExtractsAll ==
    tool.part = "batch" /\ tool.step = "copy" /\ (\A n \in DOMAIN Input.packed : IsWhole(Input.packed[n])) =>
        SelectSeq(tool.embedded, LAMBDA f : f.from = Input.name)
            = [n \in DOMAIN Input.packed |->
                  [from |-> Input.name, number |-> n - 1, script |-> Input.packed[n]]]
=============================================================================
