# A model of the yBreaker/zdn automation and of its script tool

The repository holds a Lua add-on for the PC client of a role-playing game and the tools to make
it. Two parts carry logic of their own, and both are specified here:

* the automation under `src/yBreaker/Source/admin_yBreaker/lua/admin_zdn/`: tasks that play parts
  of the game by themselves, and the *task manager*, "Trợ lý", that runs them one after the other
  around the day;
* LuaTool under `src/Support/LuaEncDecryptTool/SourceCode/LuaTool/`: a Lua 5.1 with changes of its
  own (wide characters, numbers with a fixed point, a `continue` statement), and around it a
  program that compiles, lists, decompiles, compares and repairs compiled scripts, one or a whole
  folder at a time.

The rest is older forms, the client's own scripts, skins, packaged releases and an x64 copy of the
same Lua. In the following, paths of the first part are relative to `admin_zdn/`, those of the
second to `LuaTool/`, unless they begin with `src/`.

## Inventory

### The automation

| Component | State | Operations | Correct when |
|---|---|---|---|
| Event manager, `zdn_event_manager.lua` | `SubscriberList`, an array | `Subscribe`, `Unsubscribe`, `TriggerEvent` | no subscription twice; `Unsubscribe` removes it; a publication reaches each subscriber once, whatever the callbacks do to the array meanwhile |
| Task manager, `zdn_logic_task_manager.lua` | `Running`, `TodoList`, `TimeManager`, `StopOnDoneFlg`, `StopOnDieFlg`, `currentRunningTask`, `TimerTaskInterruptCheck`; coroutines asleep in two wait loops | `Start`, `Stop`, `onTaskStop`, `onTaskInterrupt`, `StopGlobalTask`, `ContinueGlobalTask` | one task at a time, the first that can run, Nội Tu before all; never on without something that will make it go on; off means nothing runs |
| Simple tasks, `zdn_logic_{luyen_cong,thu_nghiep,noi_tu,hao_kiet,farm,escort,thu_thap,do_tham,thich_quan,ltt,vat_pham}.lua` | `Running`; a coroutine asleep in the loop | `Start`, `Stop`, `CanRun`, `IsTaskDone`, one pass of the loop | a set flag has a loop that looks at it; the end of a task is published |
| Composite tasks, `zdn_logic_{noi6,an_the}.lua`, and their quests (`zdn_logic_noi6_*.lua`, `zdn_logic_an_the/*.lua`, `zdn_lib_an_the.lua`) | `Running`, a `TodoList` of their own; `ResetTime` in the ini file | as the manager, over quests | as the manager; a quest done today is not begun again |
| Encounters, `zdn_logic_ky_ngo.lua` | a coroutine asleep for up to 180 s | `OnReceiveKyNgo` | what was suspended runs again (it does not when two overlap) |
| Forms, `form_zdn_task.lua`, `form_zdn_<task>.lua`, `zdn_form_common.lua` | open or not, text of the button | open, close, click | the button tells the truth |
| Settings, `form_zdn_task_setting.lua` and the ini file | the saved list | save | |
| Listener, `zdn_listener.lua` | `ListenList` | `addListen`, `removeListen`, `Resolve` | removes only what it should |
| Combat, `zdn_logic_skill.lua` | `Running`, `Paused`, skill set, timers | `AutoAttack*`, `PauseAttack`, `StopAutoAttack` | one attack loop, none after stop |
| Movement and queries, `zdn_lib_moving.lua`, `zdn_logic_base.lua`, `zdn_util.lua` | timers | calls into the engine | |
| Further add-ons (`zdn_logic_{tdc,thth,thien_the,chien_truong,dan,bat_tho,tam_ma,on_tuyen,...}.lua`) and the yBreaker forms | flags of single loops | start, stop | |

**How they interact.** Everything runs on one thread. `nx_execute(script, f, ...)` starts `f` of
another script as a coroutine and runs it *at once*, until it returns or first calls `nx_pause`;
then the caller goes on. A paused coroutine is resumed by the engine. Scripts share no variable:
they call `IsRunning`, `CanRun`, `Start`, `Stop` of one another and publish `on-task-stop` and
`on-task-interrupt` through the event manager, whose callbacks run inside the publication. So the
end of a task (`Stop`) contains the start of the next one, to the first pause of its loop, and
that start may itself publish an interrupt, which may stop it again, and so on.

**What is hard.** The callbacks nest and change the array that suspended loops walk. `Running` is
the only token of a loop: a coroutine asleep cannot tell whether the flag it finds up is the one it
was started with. The waiting coroutines of the manager outlive its `Stop` by a pause and go on to
act. The list is reloaded at each `Start` while an old coroutine holds the old length. Clicks,
server messages and encounters arrive between any two bursts. `PROJECT.json` lists the hazards at
their lines.

### The tool

| Component | State | Operations | Correct when |
|---|---|---|---|
| Tables, `lualib/ltable.c` | array part, nodes, `lastfree` | get, set, `newkey`, `rehash`, `getn`, `next` | it is a dictionary; a traversal meets every key that stays once; a chain of nodes begins at the main position of its keys; `#` is a border |
| Memory, `lualib/lgc.c` with `lstring.c`, `lfunc.c`, `lstate.c` | colours, gray lists, the list to sweep, finalizers to call; the heap | a step of the collector, the barriers, everything a program does to objects | nothing that can be reached is freed, garbage is, a finalizer runs once |
| Compiler, `lualib/lparser.c`, `lcode.c`, `llex.c` | lexer, function states, pending jumps, registers | each statement and expression | the code does what the script means; its assertions hold; text is cut into the tokens it was written from |
| Chunks, `lualib/ldump.c`, `lundump.c`, `ldebug.c` | a file | dump, undump, the check of code | what was written is read back; a cut file is refused |
| Machine, `lualib/lvm.c`, `ldo.c`, `lapi.c`, `lbaselib.c` | threads with stack, calls and open upvalues | instructions, calls, errors, coroutines | as above; calls balance; upvalues are the live ones |
| Libraries, `lualib/lstrlib.c`, `ltablib.c` | captures; a list being sorted | match, find, gsub, format, sort, insert, remove | patterns mean what they should; a sort ends, whatever it is told |
| Listing and comparison, `LuaDec/disassemble.cpp`, `LuaCompare/LuaCompare.cpp` | lines | disassemble, compare | equal scripts compare equal, others do not |
| Commands, `LuaTool/runLuaDec.cpp`, `runLuaC.cpp`, `runLuaComapre.cpp`, `LuaC/LuaC.cpp` | files | decompile, compile, compare, replace a function | a replaced function stands where the old one stood |
| Folders, `LuaTool/runMultiDec.cpp`, `ML_CommonLib/` | a workspace that survives interruptions | extract, decompile, compare, rename | the name of a folder tells what was achieved |
| Decompiler passes, `LuaDec/*.cpp` | | | checked by the tool's own comparison |
| Other libraries, stand-alone programs | | | |

**How they interact.** A script text goes through the lexer and the compiler to a function, which
is dumped, loaded, executed, listed and compared. The machine works on tables and on memory that
the collector sweeps between its instructions. The commands read and write files that hold chunks
or texts; the folder task calls the decompiler and the comparison for each file.

**What is hard.** The collector is incremental: the program writes into objects it has already
looked at, closes upvalues of threads that may be dead, brings dead strings back. The table moves
keys between two parts while a traversal stands in it. The code generator threads lists of jumps
through code it is still writing. An error leaves C and Lua calls in the middle. The folder task
is stopped between two commands and begins again over what it left.

## Modules

| Module | Models |
|---|---|
| `SubscriberList` | the three calls of the event manager as operators on the value of the array |
| `EventManager` | the same calls one loop iteration at a time, callbacks calling them again: `calls` is the stack of activations, each with its loop index. Three history fields of a publication (`called`, `kept`, `intact`) only serve the properties |
| `MCEventManager` | two publishers, two subscribers, one nesting, symmetric |
| `Scheduler` | the abstract promise of the manager: at most one task active; a task begins only when the manager is on, nothing is active and the task is due |
| `TaskManager` | manager, tasks, forms, encounters together; uses `SubscriberList` |
| `MCTaskManager` | the tasks and ini files of the instances; one `.cfg` per run |
| `SubscriberList_proofs`, `EventManager_proofs`, `TaskManager_proofs`, `Stopping_proofs` | the theorems about these modules |

The tool:

| Module | Models |
|---|---|
| `LuaTable`, `Dictionary` | a table, every operation an operator on its value, and what it promises: `LuaTable` implements `Dictionary` |
| `MCLuaTable` | keys of the three kinds that collide |
| `LuaTable_proofs` | the theorems about tables: chains of nodes, searching, inserting, growing, traversing, the length |
| `CollectorMarking` | the heap, the colours and the two ways of marking, `reallymarkobject` and `propagatemark`/`propagateall` |
| `Collector` | the steps of the collector against a program that goes on working |
| `MCLuaMemory` | the worlds the collector is checked in |
| `CollectorMarking_proofs`, `Collector_proofs`, `CollectorEnds_proofs` | the theorems about marking, about what the collector leaves alone, and about what becomes of garbage |
| `LuaValue` | values and limits shared by compiler, chunk and machine |
| `LuaCode`, `LuaParser`, `LuaLexer` | the three layers of the compiler, as operators on their states |
| `LuaChunk` | the check of code, dump and undump |
| `LuaVM` | the machine, one instruction, call or return at a time |
| `LuaReference`, `LuaPrograms` | an evaluator that follows the tree of a program and knows neither code nor registers; the programs that are compiled and executed |
| `MCLuaCompiler` | the way of a script: compile, dump, load, run, compare with the evaluator |
| `LuaPattern`, `PatternReference`, `LuaTableLib`, `LibraryCalls` | the two libraries, what patterns mean, and the calls that are checked |
| `Literals`, `SourceTexts` | how the tool writes a constant into a text; the texts the lexer is given |
| `Disassembly`, `LuaCompare`, `LuaTool` | listing, comparison, the commands for one file |
| `ManilaFiles`, `MultiDec` | types and containers of files, the task for a folder |
| `ToolScripts` | scripts, sessions and folders for the commands, with what the compiler makes of them (which the run checks) |
| `MCLuaTool` | all of these for TLC: a behaviour is one of one part |

`MCLuaTool` puts parts side by side that share no state, so that one run asks the questions of all
of them; their behaviours do not interleave, because the parts would not notice.

`LuaTable` and `Collector` meet in two places only: an assignment to a table is `SetField` or
`ClearField` of `Collector`, and what the collector does to a table is `RemoveEntries` of
`LuaTable`. In `LuaTable` the loops of the C code are recursive functions (`InsertAll` over the
entries that are inserted again, `Search` for both binary searches, the doubling of
`UnboundSearch`), which can be proved about; `Rehash` counts with sets what `rehash` counts in
slices.

`TaskManager` uses whole calls of the event manager where `EventManager` has their loops. That is
sound because `Subscribe` and `Unsubscribe` call nothing, and because `EventManager` shows
(`UnsubscribeRemoves`, given `NoDuplicates`) that the loop of `Unsubscribe` does what
`Unsubscribed` says. `TriggerEvent` keeps its loop index in `TaskManager` too.

In `Collector` the objects are fixed sets by kind and an object is free, white (of two kinds),
gray or black; `heap` is what objects refer to. `GCStep` are the steps of `singlestep`, `FullGC`
the part of `luaC_fullgc` before its own cycle, `Program` what a running thread does: it creates,
reads, writes (with the barrier), closes upvalues, resumes and yields, all through its stack. The
order of the lists the collector walks is left open; `propagateall`, whose order does not matter,
is one closure under what traversing an object marks.

### State and steps of `TaskManager`

`stack` holds the functions in progress in the current burst, innermost last; `stack = <<>>` is a
moment at which the engine may resume a coroutine, deliver a click or a message, or let the game
change. Every function of this code that pauses does so as the outermost function of its coroutine
(`nx_execute` makes a new one), so a coroutine asleep is determined by its place, and counters are
enough: `loops[l]` in the loop of task `l`, `waitA[cnt]` in `while Running and needToWait()` with
the local `cnt`, `waitB` in `while not anyTaskAvailable()`, `encounters` in `doAcceptKyNgo`.

* `LogicStart`, `LogicBusy`, `LogicPass`, `LogicPause`, `LogicWake`, `LogicStop`: the life cycle of
  a task. What the task does in the game between two pauses is left out; a pass either does nothing
  (the map loads, a timer runs), or stops the task, or offers to be interrupted. The tasks differ
  from the common form in the ways `TraitNames` lists; a set of traits per task is a constant.
* `PublishStop`, `PublishInterrupt`, `OnTaskInterrupt`: a publication and its callbacks.
* `Start`, `Stop`, `StopEach`, `UnsubscribeAll`, `StopAll`, `SubscribeAll`, `Pick`, `WaitForTask`,
  `AllDone`, `WaitForAny`: `Start`, `Stop` and `checkNextTask` of the manager, one loop iteration
  at a time where the iteration calls out.
* `StopGlobalTask`, `Accept`, `ContinueGlobalTask`, `Encounter`, `EncounterOver`: encounters.
* `OpenForm`, `CloseForm`, `ClickStart`, `ClickStop`, `ButtonOff`: the user.
* `ReadyChanges`, `TimeChanges`, `LifeChanges`, `StopMessage`, `ThrottleExpires`: the game, the
  server and the clock. `ready[l]` says what `CanRun` and `IsTaskDone` of a task would answer
  (they exclude each other in every script), `inTime[l]` what `isInTaskTime` would.

Operators whose comment begins with "Mutation" are faulty variants of the definition that follows
them. No specification uses them; replacing the definition by the variant shows that the property
named in `PROJECT.json` depends on it.

## What the runs check

| Run | Question | Instance |
|---|---|---|
| `event_manager` | do publication and removal survive changes of the array by callbacks? | 2 publishers × 2 subscribers, so lists of up to 4 entries with 2 matches; 2 activations at a time |
| `manager_alone` | does the manager implement `Scheduler` (`KeepsSchedule`), listen exactly while it runs, leave nothing running; does some task run when one can, does a task give way? | luyen_cong, thu_nghiep (with a time window), noi_tu; one encounter; StopOnDone |
| `with_task_forms` | the same task is also run by its own form; forms open and close at any time, nobody waits for coroutines to end: does `Stop` leave nothing behind, is a task chosen only when none runs, is the manager never lost, its button right? | luyen_cong, thu_nghiep; the form of luyen_cong; StopOnDone on and off; the saved list may change, and shrink to one task, between two Starts while old coroutines sleep |
| `odd_logics` | does a raised flag always have its loop in the tasks with special cases; does every burst end? | hao_kiet, escort, farm without settings; overlapping encounter; death |
| `lua_table` | is the table a dictionary, are its keys where they are looked for, is growing enough, is the length a border? | keys 1..3 of which 1 and 3 collide, a string and an object, up to four nodes |
| `lua_memory` | does the collector free only garbage, and all of it; does a finalizer run once? | seven worlds of a few objects: a weak table and a string, two tables, a userdata as key and as value, a closure with its upvalue, a coroutine |
| `lua_tool` | everything else of the tool | 33 programs of all constructs and over 800 expressions, each in every place that may need its value; constants that a dump changes; patterns of up to three items on words of two letters; sorts of up to eight elements; texts; sessions of two commands on four scripts and on a script with one operand or constant changed, also where both are printed alike; folders of two scripts and containers of two |
| `stop_on_death`, `farm_unset`, `stopped_manager_revives`, `encounters_overlap`, `while_continue` | promises the code does not keep | see below |

`KeepsSchedule` is a refinement: `on` is the manager's flag, `active` the tasks whose flag is up,
`order` the list; every burst maps to steps of `Scheduler` or to stuttering. It and
`StoppedIsStopped` hold of a manager that is used in the way `manager_alone` has it: no task is
also run by its own form, forms stay open, `Patient`, StopOnDone, encounters one at a time. TLC
finds `KeepsSchedule` violated when any one of the first four is dropped. What holds without them
is what `with_task_forms` checks and `Stopping_proofs` proves: `StopLeavesNothing` and
`ChoosesAlone` speak of the moments inside a burst at which the code has done its part, before
anything the user, a form or an old coroutine does beside it.

**Bounds.** Two tasks are enough for priority, interruption and for a publication that meets both
the manager and a form; noi_tu adds preemption. `MaxAsleep = 2` lets two coroutines linger at one
place (a Stop and a Start within a pause), which is where a second one begins to differ from the
first; more only repeat it. `Encounters = 1` in the passing runs that have
them, 2 in `encounters_overlap`; the guard of `odd_logics` allows the next to begin while what the
last one stopped is still asleep. The guard `Room` keeps
bursts that might exceed a bound from beginning; it disables nothing else. `Patient = TRUE`
makes the user and the end of an encounter wait until no coroutine that was told to stop is left
asleep, five seconds at most; the properties of `manager_alone` are about a manager used that way,
and the other passing runs of the manager drop the assumption.

The tables of `lua_table` grow and shrink through all sizes from the shared dummy node to four
nodes, which has collisions on the main path, collisions with a displaced node, and a full table;
larger sizes repeat these cases. The limits of the compiler and of the chunk are set low
(`FieldsPerFlush = 2`, `MaxIndexRK = 3`, `MaxArgC = 2`, `MaxCCalls = 8`), so that small programs
meet them.

**Fairness** (`Fairness` in `TaskManager`). The engine runs a burst to its end and resumes every
coroutine when its pause is over: weak fairness of bursts and wake-ups. An encounter ends after
180 s at the latest: weak fairness of `EncounterOver`. The four seconds of the interrupt throttle
pass although bursts come in between, and a map does not load for ever: strong fairness of
`ThrottleExpires` and `LogicPass`. Nothing is assumed of the user or of the game.

**What does not hold.**
* `stop_on_death`: the check box "stop the assistant when the character dies" is looked at only
  when all tasks are done and StopOnDone is off (`checkNextTask`, line 182). A manager with any
  other task running goes on. (The escort task looks at it by itself.)
* `farm_unset`: `Stop` of the farm does not publish. With no saved position `Start` of the farm
  stops itself; the manager is left on, with no coroutine and no task.
* `stopped_manager_revives`: stopped while it waits in `while not anyTaskAvailable()`, the manager
  starts a task when it wakes and finds one available, and is subscribed again, with `Running`
  false.
* `encounters_overlap`: an encounter stops the assistant, remembers its name and starts it again
  when it is over. `zdn_listener` (line 67) begins another one meanwhile, which finds nothing
  running and writes the empty name over the one that was remembered (`StopGlobalTask`, line 67):
  neither of them starts anything, and the assistant the user left on stays off.
* `while_continue`: one script, two disagreements. `whilestat` patches the jumps of `continue`
  behind the loop instead of to its condition (`lualib/lparser.c:1052`): a `continue` in a `while`
  loop leaves it. `forbody` patches them behind the instruction that closes the captured locals of
  the round (`lualib/lparser.c:1108-1109`), and `continuestat` emits none of its own: after a
  `continue` the next round reuses the open upvalue, and closures of both share one variable. The
  programs of `lua_tool` keep to what is left (`Program33`): `continue` in a `repeat` loop, with
  captured locals too, and in a `for` loop at a point where no function holds a local of the round.

Two endless recursions, which no finite instance contains, were found on paper and are hazards in
`PROJECT.json`:
* thu_thap without saved positions: `Stop` and `Start` call one another
  (`zdn_logic_thu_thap.lua` 157, `zdn_logic_task_manager.lua` 139);
* escort, with StopOnDie set, StopOnDone off and the character dead: a stopped manager that came
  back (`stopped_manager_revives`) is subscribed with `Running` false; escort's loop calls
  `StopGlobalTask` (`zdn_logic_escort.lua` 222), which stops escort itself, whose publication makes
  the manager start escort again, whose loop begins with the same test.

Other differences between the code and what one would expect of it, found while modelling, which
the models contain as they are:

* Dumping. A number in a chunk has sixteen binary places (`lualib/ldump.c:53-57`): a smaller
  fraction reads back as 0, and one that overflows as the least integer. A string goes through
  `strcpy` and two conversions (`ldump.c:65-98`, `lundump.c:84-112`): what follows a zero is what
  the memory held, a byte that is no UTF-8 ends it, and one with more characters of three bytes
  than plain ones (and the terminator) loses its end, because the output of `LoadString` may take as
  many bytes as the string had in UTF-16. `ReadsBack` says that a function reads back as it was
  exactly when it holds no such constant. (The header is filled and compared as it should be: the
  signature is four wide characters.)
* Printing. A control character is written without leading zeros
  (`LuaDec/RegisterFile.cpp:137-141`). A digit behind it is read as part of it: `TextReadsBack`
  holds exactly outside of this case. And two different constants are printed alike ("\1" and "4",
  "\14"), as are counts that are 256 apart, since operands of 256 and more are printed less 256 also
  where they are no constants (`LuaDec/disassemble.cpp:48-53`): such scripts are 100 % equal to the
  comparison. `ComparesHonestly` and `FoldersTell` say what equal means with exactly these exceptions.
* Numbering. `-f n` counts top-level functions for the decompiler and all functions for the
  comparison (`LuaDec/LuaDec.cpp:38`, `LuaCompare/LuaCompare.cpp:128-139`), and since the line of a
  closure carries the path of its function, even a perfect decompilation of a nested function does
  not compare as equal.
* Folders. An input named `.lua` is overwritten by its decompilation
  (`LuaTool/runLuaDec.cpp:71-76`); two inputs that differ in their ending only share a folder
  (`LuaTool/runMultiDec.cpp:93`); `RENAME` does not replace a folder of an earlier run; the second
  loop of the folder task looks for the extracted scripts under a path where they are not, and never
  finds one.

## What is proved

TLAPS proves, for all values of the constants under the assumptions named in the modules
(`ScriptAssumption`, `TraitAssumption`, `ConfigAssumption`, `BoundAssumption`,
`NestingAssumption`: kinds of values only):

* `EventManager_proofs`: type correctness, `NoDuplicates`, `CalledOnce`, `UnsubscribeRemoves`,
  `PublicationComplete`. The two properties of publications are not inductive: what has been called
  says nothing unless it is known where it stands. The invariant `Inv` adds, for each activation,
  that entries already called that were not removed stand at or before its index (so they cannot
  be met again) and that, as long as nothing was removed, the entries still to be called stand
  behind it; and for `Unsubscribe`, that the key is not at or before the index. Removal of an entry
  moves the rest up by one place, which is the case the proofs of `EntryRemoved` and
  `PublicationShrinks` are about.
* `TaskManager_proofs`: type correctness; `NoDuplicates` (from the lemmas on `Subscribed` and
  `Unsubscribed` in `SubscriberList_proofs`); `RunningHasLoop`, which is inductive together with
  the types because every step but the end of a pass leaves the frames below the top alone
  (`MovesKeepLoops`) and the end of a pass puts the coroutine to sleep (`PassEnds`); `ButtonHonest`
  and `ManagerNotLost`, see below.
* `Stopping_proofs`: `StopLeavesNothing`, `ChoosesAlone` and `ListensWhileRunning`, for every
  configuration, see below.
* `SubscriberList_proofs`: what the calls do to a list without duplicates; replacing, pushing and
  popping the top of a sequence, and removal at a position.
* `CollectorMarking_proofs`: `Closure` is the least set that holds the roots and is closed under
  `next` (`ClosureProperties`; the recursion of `Closure` ends because `Objects` is finite, by
  descent on what is still outside). From this, what `Marked` and `PropagatedAll` do to the colours:
  only white objects turn, what turned is gray and listed or has no white child, what was shaded
  stays shaded, and nothing outside a set closed under children turns.
* `Collector_proofs`: type correctness, `NoDangling` and `ColoursTell`, for every finite set of
  objects of the six kinds, any number of stack places and every world. See below.
* `CollectorEnds_proofs`: `FinalizedOnce` and `GarbageGoes`.
* `LuaTable_proofs`: everything the run `lua_table` checks, type correctness, `BrentInvariant`,
  `GrowthSuffices`, `LengthIsBorder` and the refinement `IsDictionary`, and two facts about single
  steps. See below.

### The task manager

Both properties are about the moments when no function is in progress, and both fail in the midst
of nearly every function. Their invariants say what a function in progress still owes. For this
the stack is seen as three sets: the frames on it (`Frames`), those below the top (`Below`) and
those that were called by another (`Called`); `GotoFrames`, `CallFrames`, `ReturnFrames` and
`MovesKeepBelow` say once what each kind of step does to them.

* `ButtonTellsTruth`: `ButtonInv` says that only the form listens to the manager's stop, and does
  while its button says Stop (`FormListens`), and that if the button says Stop and the manager does
  not run, some frame is on its way to turn it off (`ButtonGoesOff`): `Start` or `Stop` of the
  manager, the loop of that `Stop`, the publication that ends it, not yet begun, or the form's
  callback. A publication that began before the form subscribed would not count; the proof needs
  that `Stop` lowers the flag before it publishes and that the form subscribes before its button
  says Stop.
* `ManagerGoesOn`: `KeptInv` says that a running manager has a waiter asleep, or a running task of
  its list, or a frame that will bring it to one of them (`GoesOn`): a loop of `checkNextTask`, a
  publication that has yet to reach the manager, a task about to start or to stop. To follow these
  it needs `Shape` (which functions are never below another, and which are never called),
  `NotStopping` (while the manager runs it is not in the loop of its `Stop`),
  `ListensOrRefreshes` (while it runs it listens to the whole list or is about to) and `FromIni`
  (the list is one of the configurations').
  The hypothesis `ListsLoud` is about the configurations: no task on the list whose `Stop` is
  silent, and none whose guarded `Stop` may be called by its own `Start`. Of the tasks in the code
  only farm does not meet it. Run `farm_unset` shows the manager lost in that case, so the
  hypothesis cannot be left out; lists with farm are left to the runs.

### Stopping and choosing

`Stopping_proofs` proves, for every set of logics with any of the traits, every list, with forms
that open and close, tasks run by their own forms, impatient users and any number of encounters:

* `StopIsComplete`: when `Stop` of the manager tells its form (`StopLeavesNothing`), the manager is
  off, no task of the list runs and it listens to none;
* `ChoiceIsAlone`: when `checkNextTask` comes to choose (`ChoosesAlone`), no task of the list runs,
  whoever started it, and the manager listens to all of them;
* `ListensExactlyWhileRunning` (`ListensWhileRunning`): between bursts the manager listens to every
  task while it runs, and to none while it does not. The second half is stated for lists with
  StopOnDone; `stopped_manager_revives` shows why.

Both loops stop the tasks one by one, each `Stop` publishes, and the callbacks of a publication may
start tasks. `StackInv` says what holds for each innermost function (`Expected`): how many tasks a
loop has silenced (`Silent`, nothing of them is heard) and stopped (`Halted`). A loop that is not
innermost is only ever directly below what it called, the `Stop` of its own task or the publication
of it (`StoppedBy`); this is why nothing is started inside of it. The reason is the order in the
code: a task is unsubscribed before it is stopped, so its publication meets no callback of the
manager (`Deaf`), only that of its form, which starts nothing (`Free` collects the functions that
leave what the loops have done alone). For the second half of the last theorem `OffInv` says that
no waiter sleeps in `anyTaskAvailable`, that the loops of `checkNextTask` are only in progress while
the manager runs (`OnlyWhileOn`), and that a task it still hears when it is off is one that the loop
of its `Stop` has yet to reach (`WillUnsubscribe`).

### The collector

`NoDangling` speaks of all that can be reached; no step of the program sees that. The inductive
invariant `IInv` is local instead:

* `Sound`, `Roots`: what lives (neither free nor dead) refers only to what lives, and so do the
  roots: the running thread, the main thread, the globals, the userdata that wait for a finalizer,
  the lists of gray objects. `Reachable`, the least such set, therefore holds nothing dead.
* `FreeEmpty`: an object that is free refers to nothing. Without it the next object created in its
  place would refer to anything.
* `Opened`: an open upvalue has no value of its own, is not on the list being swept (it is swept
  with its thread), and its thread is not free. `HasUpval`: a closure has its upvalue.
* `Chain`: the threads that have resumed one another form one chain from the main thread to the
  running one. `Yield` relies on there being exactly one that resumed the running thread, and on
  the running thread not being garbage.
* `Coloured`: weak tables, threads and open upvalues are never black, userdata never gray. This is
  why a stack needs no write barrier.
* `TriColour`, in the mark phase: nothing is of the other white, what is gray is in a list, and what
  is black and not waiting for a finalizer has no white child: `NoBlackToWhite`, which the barriers
  keep.
* `Swept`, outside of it: what is not of the current white is still to be swept or waits for its
  finalizer.

The step that needs most of this is `Atomic`. It marks three times over, separates userdata, marks
again for them, clears weak tables and swaps the whites; a marking is followed through these stages
(`Good`, `Grown`, `Stage`, `Ended`), at the end of which nothing is gray but what may be and no
shaded object has a white child, so what turns dead with the swap is referred to by nothing that
lives.

`FinalizedOnce` needs `Finalizing`: `tmudata` repeats nothing, holds only userdata with
FINALIZEDBIT, and the finalizer of exactly those that have the bit and have left the queue has been
called, once; what is dead among the userdata has been finalized.

`GarbageGoes` needs `Doomed`. In the mark phase what was garbage when the collection began is
white, and *hidden*: nothing else refers to it, not weakly either, and neither do the roots. What
the program can read is thus never doomed, so whatever it writes keeps it hidden
(`ProgramRewired`); what a barrier or the collector marks stays in the shut set of all the rest
(`MarkedConfined`, `PropagatedConfined`), so it stays white (`ProgramUnpainted`,
`MarkedAgainConfined`). With the swap of the whites it is dead, and by `Swept` none of it is left
when the sweep is over. The two exceptions are in the model's `doomed`: a string or an upvalue that
is looked up again, and what a finalizer needs.

Assumed are, in `Collector`, `RootAssumption` (the globals are a table, the main thread a thread), `SizeAssumption`
(there are finitely many objects, as in any memory), `KindAssumption` (kinds are disjoint, nil and
numbers are no objects) and `WorldAssumption` (the types of a world), each evaluated by the run
`lua_memory`.

### The table

The inductive invariant `Inv` says that the table is `WellFormed` between operations and that the
traversal, if there is one, has given what it should (`Traversed`).

`WellFormed` has these parts:

* `IsTable`: the types, and as many nodes as a power of two.
* `LinksOK`: the nodes form chains that end, and no two nodes have the same next one. A chain is
  seen as a set, `Reach`, the least one closed under `next`; that it ends is `Acyclic`, that from
  every set of nodes some link leads out. `SearchExists` and `SearchFinds` derive from it that the
  recursive search of `NodeOf` is a function and gives the first node that holds the key.
* `FreeOK`, `LastFreeOK`: a node without a key is in no chain and before `lastfree`; the dummy node
  has no key.
* `HomeOK`, `BrentOK`: a key is on the chain of its main position, and the node at this position
  holds a key that belongs there. The second is the main invariant of the comment at the head of
  `ltable.c`, for keys without a value and dead ones too; `BrentInvariant` is what it says of keys
  with a value.
* `OnceOK`, `DeadOK`: no live key is in the nodes twice, and where a dead copy of it is still there
  (the key died, and was assigned again in another node) the copy comes after it in the chain, so
  that `findindex`, which takes dead keys too, meets the live one first. A dead key has no value.
* `PartsOK`: a key is in the array part or in the nodes, never in both.

`newkey` does one of three things (`PlaceCases`): it takes the main position when its value is nil
(`Reuses`), moves a node that does not belong there into the free node and takes its place
(`Displaces`), or takes the free node and comes second in the chain (`Follows`). Each keeps
`WellFormed` and puts the key where it is found; the second exchanges two nodes in the chains
(`Swapped`), of which one was free. With the key in its place the assignment changes the value of
this key only (`PutSets`).

Growing is where `GrowthSuffices` is decided. `Room(g, S)`: the table `g`, every key of whose
nodes has a value, is to take the keys of `S`, and has as many nodes. As long as a key of `S` is
not in it there are fewer keys than nodes, so one node is free, and by `LastFreeOK` it is before
`lastfree`, although that never goes up (`RoomForKey`, by the pigeonhole principle). `rehash`
counts the keys with a value and the new one; what does not go to the array part goes to the nodes,
of which there are as many or more (`RehashKeeps`), so inserting all entries again, in whatever
order, never fails (`InsertAllInserts`), and neither does the key that made the table grow. `na` is
not needed for this: any size of the array part would do, and that `computesizes` chooses the
largest that is more than half full is a matter of economy.

`Traversed`: the fields already given are exactly those at or before the position of the last key,
so what is left is what lies behind it. Assigning to a field that is there, and the death of keys,
move no key (`SameShape`), so a traversal may do both; the key it stands at stays in its node,
perhaps dead, and is found by `findindex`. That is `TraversalKeepsItsKey`, by which `next` does not
raise "invalid key to 'next'", and what `TableIsDictionary` needs: in `Dictionary` a walk visits
each key that has a value once, in any order, and ends when none is left. `StoreStores` says what the
refinement says of an assignment for the code as it stands: after `Store(k, v)` the table answers
`v` for `k`, through `newkey` and `rehash` too.

The length is found by one of three searches. They are tail recursions, whose argument changes
until it stops; `TailExists` and `TailReaches` say once that such a function exists when a measure
descends, and that what its argument keeps holds at the end. `SearchFindsBorder`: between a place
with a value and one without, a binary search ends at a border, in a table with holes too.
`UnboundFindsBorder`: doubling ends with such a pair, or gives up at `MaxInt` and counts.

Assumed are `KeyAssumption` (the three kinds of keys, nil and numbers are distinct, integer keys
are from 1 to `MaxInt`, and `Full` is no table), `HashAssumption` (a hash is a natural number) and
`SizeAssumption`: there are finitely many keys, at most 2^26. The C code raises "table overflow" for
more, which the model leaves out. The run `lua_table` evaluates them. The invariant was checked by
TLC on the instance of that run before it was proved.

### What is only model-checked

Of the automation what needs fairness (`SomeTaskRuns`, `GivesWay`, `BurstsEnd`), which the prover
does not do, and what holds of the manager alone only (`KeepsSchedule`, `StoppedIsStopped`): it
rests on how the assistant is used, not on the code, so a theorem for every value of the constants
would be about a case the code does not enforce. Of the tool the properties of `lua_tool`, whose modules
evaluate programs with RECURSIVE operators, which the prover does not read.

## Not modelled

Of the automation: what the tasks do in the game (movement, dialogue, items), the composite tasks
and their quests, vat_pham, the list of listeners, combat, the arithmetic of time windows and of
`ResetTime`, the other add-ons and the yBreaker forms. do_tham, thich_quan and ltt have the life
cycle of `TaskManager` and need no module of their own for it. thu_thap without saved positions
recurses without end (see above): the trait `unset` of a task that publishes expresses it, but no
finite instance contains it.

Of the tool: the passes of the decompiler (heuristics whose result the tool itself compares with
the original; in the models their text may be any), the pace of the collector and sizes in bytes,
debug information, hooks, the libraries that call the operating system or the C
library, layout of listings and messages. The client's scripts and the x64 copy are not part of
the system's own logic.

## Plan

1. Done: the event manager, the task manager with its forms, tasks and encounters; the table and
   the collector; compiler, chunks, machine, libraries; listing, comparison, commands, folders.
2. Done: proofs for the event manager, the task manager, the collector and the table.
3. Parts that are listed as hazards but have no module yet: the list of listeners
   (`zdn_listener.lua`), the composite tasks, combat.
