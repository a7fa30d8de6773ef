---------------------------- MODULE TaskManager ----------------------------
(***************************************************************************)
(* zdn_logic_task_manager.lua together with what it drives: the logic      *)
(* scripts of the tasks (their common Start/Stop/loop life cycle), the     *)
(* forms that start and stop them, the subscriptions of                    *)
(* zdn_event_manager.lua that tie them together, and the encounters        *)
(* (zdn_logic_ky_ngo.lua) that suspend whatever runs.                      *)
(*                                                                         *)
(* All scripts are coroutines on one thread.  nx_execute(script, f) runs f *)
(* until it returns or first pauses and then goes on with the caller; a    *)
(* paused coroutine is resumed later, from the engine.  A burst is what    *)
(* runs between two such moments: `stack' holds the functions in progress  *)
(* in the current burst, innermost last, and is empty between bursts.      *)
(* Every function that pauses in this code does so as the outermost        *)
(* function of its coroutine or in a tail call of it, so a coroutine       *)
(* asleep is known by the place it sleeps at, and the three counters       *)
(* loops, waitA and waitB say how many there are at each place.            *)
(***************************************************************************)
EXTENDS SubscriberList, FiniteSets

CONSTANTS
    Logics,      \* the logic scripts of the tasks (TASK_LIST[i][2])
    NoiTu,       \* zdn_logic_noi_tu, the task that preempts every other
    Mgr,         \* the script zdn_logic_task_manager itself
    None,        \* the empty script name ""
    Traits,      \* [Logics -> SUBSET TraitNames]: how a logic departs from the common life cycle
    Configs,     \* possible contents of the section TroLy of the user's ini file
    Windowed,    \* the logics with a time window shorter than the day
    TaskForms,   \* the logics whose own form the user opens
    Reopen,      \* the user may open and close forms at any time
    Patient,     \* the user and the encounters act only when no old coroutine lingers
    Encounters,  \* bound: encounters in progress at the same time
    MaxAsleep    \* bound: coroutines asleep at one place

Scripts == Logics \cup {Mgr}
Forms == TaskForms \cup {Mgr}

(* How a logic script departs from the common life cycle.                  *)
(*   silent            Stop publishes nothing (farm)                       *)
(*   guardedStart      Start stops again when CanRun is false (hao_kiet)   *)
(*   guardedStop       Stop does nothing unless running (escort)           *)
(*   unset             Start stops again: loadConfig finds no positions    *)
(*                     (farm, thu_thap, when the user has saved none)      *)
(*   noInterrupt       the loop never offers to be interrupted (noi_tu,    *)
(*                     farm, thu_thap)                                     *)
(*   stoppedByMessage  the loop does not ask CanRun; a server message      *)
(*                     stops the task from outside (hao_kiet)              *)
(*   stopsOnDeath      the loop itself looks at StopOnDie (escort)         *)
(*   neverDone         IsTaskDone is constantly false (noi_tu)             *)
(*   neverWaits        IsTaskDone is `not CanRun()' (luyen_cong, ...)      *)
(*   alwaysRuns        CanRun is constantly true (farm, thu_thap)          *)
TraitNames ==
    {"silent", "guardedStart", "guardedStop", "unset", "noInterrupt", "stoppedByMessage",
     "stopsOnDeath", "neverDone", "neverWaits", "alwaysRuns"}

(* A task is in the list at most once: form_zdn_task_setting refuses to    *)
(* add one that is there (taskExists).                                     *)
Config ==
    [todo : {s \in Seq(Logics) : IsInjective(s)}, stopOnDone : BOOLEAN, stopOnDie : BOOLEAN]

ASSUME ScriptAssumption ==
    Mgr \notin Logics /\ None \notin Scripts /\ TaskForms \subseteq Logics /\ Windowed \subseteq Logics
ASSUME TraitAssumption == Traits \in [Logics -> SUBSET TraitNames]
ASSUME ConfigAssumption == Configs \subseteq Config
ASSUME BoundAssumption ==
    Reopen \in BOOLEAN /\ Patient \in BOOLEAN /\ Encounters \in Nat /\ MaxAsleep \in Nat \ {0}

VARIABLES
    running,     \* the flag Running of every script
    cfg,         \* TodoList, StopOnDoneFlg and StopOnDieFlg of the manager
    throttled,   \* TimerDiff(TimerTaskInterruptCheck) < 4
    suspended,   \* currentRunningTask: what ContinueGlobalTask starts again
    subs,        \* SubscriberList
    stack,       \* the functions in progress in the current burst
    loops,       \* coroutines asleep in the loop of each logic
    waitA,       \* coroutines asleep in `while Running and needToWait()', by their cnt
    waitB,       \* coroutines asleep in `while not anyTaskAvailable()'
    encounters,  \* coroutines asleep in doAcceptKyNgo
    open,        \* the forms on screen
    btn,         \* whether the form's button reads "Stop" (updateBtnSubmitState)
    ready,       \* what CanRun and IsTaskDone of each logic say of the game
    inTime,      \* isInTaskTime of each task
    dead         \* IsPlayerDead

manager == <<cfg, throttled, suspended>>
asleep == <<loops, waitA, waitB, encounters>>
ui == <<open, btn>>
game == <<ready, inTime, dead>>
vars == <<running, manager, subs, stack, asleep, ui, game>>

(* "run": CanRun; "done": IsTaskDone; "wait": neither.  They exclude each  *)
(* other in every logic script.                                            *)
Conditions(l) ==
    {"run"} \cup {c \in {"wait", "done"} :
        /\ "alwaysRuns" \notin Traits[l]
        /\ c = "wait" => "neverWaits" \notin Traits[l]
        /\ c = "done" => "neverDone" \notin Traits[l]}

Lengths == {0} \cup {Len(c.todo) : c \in Configs}

Subscriber == {"manager", "form"}   \* "form": the form of the publishing script
Subscription == [src : Scripts, ev : {"stop", "interrupt"}, sub : Subscriber]

Places ==
    {"Start", "Stop", "loop", "pause", "publishStop", "publishInterrupt", "onTaskInterrupt",
     "unsubscribeAll", "stopAll", "subscribeAll", "pick", "waitA", "allDone", "waitB",
     "stopEach", "buttonOff", "StopGlobalTask", "accept", "ContinueGlobalTask"}

Frame == [pc : Places, at : Scripts, i : Nat]

TypeOK ==
    /\ running \in [Scripts -> BOOLEAN]
    /\ cfg \in Config
    /\ throttled \in BOOLEAN
    /\ suspended \in Scripts \cup {None}
    /\ subs \in Seq(Subscription)
    /\ stack \in Seq(Frame)
    /\ loops \in [Logics -> Nat]
    /\ waitA \in [Lengths -> Nat] /\ waitB \in Nat /\ encounters \in Nat
    /\ open \in [Forms -> BOOLEAN] /\ btn \in [Forms -> BOOLEAN]
    /\ ready \in [Logics -> {"run", "wait", "done"}]
    /\ inTime \in [Logics -> BOOLEAN]
    /\ dead \in BOOLEAN

-----------------------------------------------------------------------------
(* The stack. *)

F(pc, script) == [pc |-> pc, at |-> script, i |-> 0]
Top == stack[Len(stack)]
Between == stack = <<>>
At(pc) == stack # <<>> /\ Top.pc = pc
AtScript(pc, script) == At(pc) /\ Top.at = script

Begin(frame) == stack' = <<frame>>
Goto(frame) == stack' = [stack EXCEPT ![Len(stack)] = frame]
Call(frame, callee) == stack' = Append([stack EXCEPT ![Len(stack)] = frame], callee)
Return == stack' = Front(stack)

-----------------------------------------------------------------------------
(* What the manager asks the logics. *)

todo == cfg.todo
CanRunTask(l) == ready[l] = "run" /\ inTime[l]
CanRunNoiTu == (\E k \in DOMAIN todo : todo[k] = NoiTu) /\ CanRunTask(NoiTu)
Runnable == {k \in DOMAIN todo : CanRunTask(todo[k])}
First(S) == {k \in S : \A j \in S : k <= j}
NeedToWait == \E k \in DOMAIN todo : ready[todo[k]] # "done"

Sub(l, ev) == [src |-> l, ev |-> ev, sub |-> "manager"]
FormSub(f) == [src |-> f, ev |-> "stop", sub |-> "form"]
WithoutTask(list, l) == Unsubscribed(Unsubscribed(list, Sub(l, "stop")), Sub(l, "interrupt"))
WithTask(list, l) == Subscribed(Subscribed(list, Sub(l, "stop")), Sub(l, "interrupt"))

Init ==
    /\ running = [s \in Scripts |-> FALSE]
    /\ cfg = [todo |-> <<>>, stopOnDone |-> TRUE, stopOnDie |-> TRUE]
    /\ throttled = FALSE
    /\ suspended = None
    /\ subs = <<>>
    /\ stack = <<>>
    /\ loops = [l \in Logics |-> 0]
    /\ waitA = [cnt \in Lengths |-> 0] /\ waitB = 0 /\ encounters = 0
    /\ open = [f \in Forms |-> ~Reopen]
    /\ btn = [f \in Forms |-> FALSE]
    /\ ready \in {r \in [Logics -> {"run", "wait", "done"}] : \A l \in Logics : r[l] \in Conditions(l)}
    /\ inTime = [l \in Logics |-> TRUE]
    /\ dead = FALSE

(* Bound: no burst that may put a coroutine to sleep begins while a place  *)
(* is full, except by waking one of that very place.                       *)
Room(place) ==
    /\ \A l \in Logics \ {place} : loops[l] < MaxAsleep
    /\ place = "waitA" \/ \A cnt \in Lengths : waitA[cnt] < MaxAsleep
    /\ place = "waitB" \/ waitB < MaxAsleep

-----------------------------------------------------------------------------
(* The life cycle of a logic script. *)

(* Mutation: the flag goes up before the early return of a Start that must *)
(* not run.                                                                *)
LogicStartFlagFirst(l) ==
    /\ AtScript("Start", l)
    /\ running' = [running EXCEPT ![l] = TRUE]
    /\ IF running[l] \/ ready[l] # "run" THEN Return ELSE Goto(F("loop", l))
    /\ UNCHANGED <<manager, subs, asleep, ui, game>>

(* Start of a logic, up to the first test of its while loop.  A Start that *)
(* stops again has the flag down when it reaches the loop.                 *)
LogicStart(l) ==
    /\ AtScript("Start", l)
    /\ IF running[l] THEN Return /\ UNCHANGED running
       ELSE IF \/ "guardedStart" \in Traits[l] /\ ready[l] # "run"
               \/ "unset" \in Traits[l]
       THEN Goto(F("Stop", l)) /\ UNCHANGED running
       ELSE Goto(F("loop", l)) /\ running' = [running EXCEPT ![l] = TRUE]
    /\ UNCHANGED <<manager, subs, asleep, ui, game>>

(* nx_pause in the loop of a logic: the coroutine sleeps, its caller goes on. *)
Pause(l) ==
    /\ Return
    /\ loops' = [loops EXCEPT ![l] = @ + 1]
    /\ UNCHANGED <<waitA, waitB, encounters>>

(* Mutation: return instead of nx_pause while the map loads. *)
LogicBusyReturns(l) ==
    /\ AtScript("loop", l)
    /\ Return
    /\ UNCHANGED <<running, manager, subs, asleep, ui, game>>

(* One pass of the loop.  It does nothing while the map loads or the game  *)
(* makes it wait; ...                                                      *)
LogicBusy(l) ==
    /\ AtScript("loop", l)
    /\ Pause(l)
    /\ UNCHANGED <<running, manager, subs, ui, game>>

(* ... it stops the task when CanRun turned false, or everything when the  *)
(* character died; otherwise it offers to be interrupted and, if it still  *)
(* runs then, plays on.                                                    *)
Ends(l) == ready[l] # "run" /\ "stoppedByMessage" \notin Traits[l]
Dies(l) == "stopsOnDeath" \in Traits[l] /\ dead /\ cfg.stopOnDie

LogicPass(l) ==
    /\ AtScript("loop", l)
    /\ \/ Ends(l) /\ Call(F("pause", l), F("Stop", l))
       \/ ~Ends(l) /\ Dies(l) /\ Call(F("pause", l), F("StopGlobalTask", Mgr))
       \/ /\ ~Ends(l) /\ ~Dies(l) /\ "noInterrupt" \notin Traits[l]
          /\ Call(F("pause", l), F("publishInterrupt", l))
    /\ UNCHANGED <<running, manager, subs, asleep, ui, game>>

(* Mutation: the loop goes on without nx_pause. *)
LogicNeverPauses(l) ==
    /\ AtScript("pause", l)
    /\ IF running[l] THEN Goto(F("loop", l)) ELSE Return
    /\ UNCHANGED <<running, manager, subs, asleep, ui, game>>

LogicPause(l) ==
    /\ AtScript("pause", l)
    /\ Pause(l)
    /\ UNCHANGED <<running, manager, subs, ui, game>>

(* The engine resumes the coroutine: `while Running do'. *)
LogicWake(l) ==
    /\ Between /\ loops[l] > 0 /\ (running[l] => Room(l))
    /\ loops' = [loops EXCEPT ![l] = @ - 1]
    /\ IF running[l] THEN Begin(F("loop", l)) ELSE UNCHANGED stack
    /\ UNCHANGED <<waitA, waitB, encounters, running, manager, subs, ui, game>>

(* The message that there is no more to do here: it is recorded, and the   *)
(* task is stopped while its loop sleeps.                                  *)
StopMessage(l) ==
    /\ Between /\ "stoppedByMessage" \in Traits[l] /\ running[l] /\ Room(None)
    /\ ready' = [ready EXCEPT ![l] = "done"]
    /\ Begin(F("Stop", l))
    /\ UNCHANGED <<running, manager, subs, asleep, ui, inTime, dead>>

LogicStop(l) ==
    /\ AtScript("Stop", l)
    /\ IF "guardedStop" \in Traits[l] /\ ~running[l]
       THEN Return /\ UNCHANGED running
       ELSE /\ running' = [running EXCEPT ![l] = FALSE]
            /\ IF "silent" \in Traits[l] THEN Return ELSE Goto(F("publishStop", l))
    /\ UNCHANGED <<manager, subs, asleep, ui, game>>

-----------------------------------------------------------------------------
(* TriggerEvent, with the callbacks it finds: frame.i is the loop index.   *)

(* The callbacks on-task-stop: the form's button, and onTaskStop of the    *)
(* manager, which is a checkNextTask.                                      *)
PublishStop(s) ==
    /\ AtScript("publishStop", s)
    /\ LET next == MatchesAfter(subs, Top.i, s, "stop")
       IN \/ next = {} /\ Return /\ UNCHANGED btn
          \/ \E k \in First(next) :
                \/ /\ subs[k].sub = "form"
                   /\ Goto([Top EXCEPT !.i = k])
                   /\ btn' = [btn EXCEPT ![s] = FALSE]
                \/ /\ subs[k].sub = "manager"
                   /\ Call([Top EXCEPT !.i = k], F("unsubscribeAll", Mgr))
                   /\ UNCHANGED btn
    /\ UNCHANGED <<running, manager, subs, asleep, open, game>>

PublishInterrupt(s) ==
    /\ AtScript("publishInterrupt", s)
    /\ LET next == MatchesAfter(subs, Top.i, s, "interrupt")
       IN \/ next = {} /\ Return
          \/ \E k \in First(next) :
                Call([Top EXCEPT !.i = k], F("onTaskInterrupt", s))
    /\ UNCHANGED <<running, manager, subs, asleep, ui, game>>

(* Mutation: only noi_tu preempts. *)
OnTaskInterruptNoScan(s) ==
    /\ AtScript("onTaskInterrupt", s)
    /\ IF running[Mgr] /\ ~throttled /\ CanRunNoiTu
       THEN Goto(F("Stop", s)) /\ UNCHANGED throttled
       ELSE Return /\ throttled' = (throttled \/ running[Mgr])
    /\ UNCHANGED <<running, cfg, suspended, subs, asleep, ui, game>>

(* onTaskInterrupt(source): the scan of the list ends at the source itself *)
(* or at a task that can run, whichever comes first.                       *)
OnTaskInterrupt(s) ==
    /\ AtScript("onTaskInterrupt", s)
    /\ LET ends == {k \in DOMAIN todo : todo[k] = s \/ CanRunTask(todo[k])}
       IN \/ /\ ~running[Mgr] \/ throttled
             /\ Return /\ UNCHANGED throttled
          \/ /\ running[Mgr] /\ ~throttled /\ CanRunNoiTu
             /\ Goto(F("Stop", s)) /\ UNCHANGED throttled
          \/ /\ running[Mgr] /\ ~throttled /\ ~CanRunNoiTu
             /\ throttled' = TRUE
             /\ \/ ends = {} /\ Return
                \/ \E k \in First(ends) :
                      IF todo[k] = s /\ inTime[s] THEN Return ELSE Goto(F("Stop", s))
    /\ UNCHANGED <<running, cfg, suspended, subs, asleep, ui, game>>

-----------------------------------------------------------------------------
(* The manager.  Frame.i is the index of its for loops. *)

Step(f) == [f EXCEPT !.i = @ + 1]
LoopDone == Top.i >= Len(todo)
LoopTask == todo[Top.i + 1]

(* Start, with loadConfig: the ini file may hold anything the settings     *)
(* form saved since the last start.                                        *)
Start ==
    /\ AtScript("Start", Mgr)
    /\ IF running[Mgr] THEN Return /\ UNCHANGED <<running, cfg>>
       ELSE \E c \in Configs :
              /\ cfg' = c
              /\ IF c.todo # <<>>
                 THEN running' = [running EXCEPT ![Mgr] = TRUE] /\ Goto(F("unsubscribeAll", Mgr))
                 ELSE UNCHANGED running /\ Goto(F("Stop", Mgr))
    /\ UNCHANGED <<throttled, suspended, subs, asleep, ui, game>>

Stop ==
    /\ AtScript("Stop", Mgr)
    /\ running' = [running EXCEPT ![Mgr] = FALSE]
    /\ Goto(F("stopEach", Mgr))
    /\ UNCHANGED <<manager, subs, asleep, ui, game>>

(* Mutation: Stop keeps the subscriptions. *)
StopEachStaysSubscribed ==
    /\ At("stopEach")
    /\ IF LoopDone THEN Goto(F("publishStop", Mgr)) ELSE Call(Step(Top), F("Stop", LoopTask))
    /\ UNCHANGED <<running, manager, subs, asleep, ui, game>>

(* Mutation: the loop of Stop ends one task early. *)
StopEachMissesLast ==
    /\ At("stopEach")
    /\ IF Top.i + 1 >= Len(todo) THEN Goto(F("publishStop", Mgr)) /\ UNCHANGED subs
       ELSE /\ subs' = WithoutTask(subs, LoopTask)
            /\ Call(Step(Top), F("Stop", LoopTask))
    /\ UNCHANGED <<running, manager, asleep, ui, game>>

(* The loop of Stop over TodoList: it stops every task, running or not. *)
StopEach ==
    /\ At("stopEach")
    /\ IF LoopDone THEN Goto(F("publishStop", Mgr)) /\ UNCHANGED subs
       ELSE /\ subs' = WithoutTask(subs, LoopTask)
            /\ Call(Step(Top), F("Stop", LoopTask))
    /\ UNCHANGED <<running, manager, asleep, ui, game>>

(* checkNextTask: first stopAllTaskSilently, in three loops. *)
UnsubscribeAll ==
    /\ At("unsubscribeAll")
    /\ IF LoopDone THEN Goto(F("stopAll", Mgr)) /\ UNCHANGED subs
       ELSE Goto(Step(Top)) /\ subs' = WithoutTask(subs, LoopTask)
    /\ UNCHANGED <<running, manager, asleep, ui, game>>

(* Mutation: the loop of stopAllTaskSilently ends one task early. *)
StopAllMissesLast ==
    /\ At("stopAll")
    /\ IF Top.i + 1 >= Len(todo) THEN Goto(F("subscribeAll", Mgr))
       ELSE IF running[LoopTask] THEN Call(Step(Top), F("Stop", LoopTask))
       ELSE Goto(Step(Top))
    /\ UNCHANGED <<running, manager, subs, asleep, ui, game>>

StopAll ==
    /\ At("stopAll")
    /\ IF LoopDone THEN Goto(F("subscribeAll", Mgr))
       ELSE IF running[LoopTask] THEN Call(Step(Top), F("Stop", LoopTask))
       ELSE Goto(Step(Top))
    /\ UNCHANGED <<running, manager, subs, asleep, ui, game>>

(* Mutation: the manager does not ask to be told that a task stopped. *)
SubscribeAllInterruptOnly ==
    /\ At("subscribeAll")
    /\ IF LoopDone THEN Goto(F("pick", Mgr)) /\ UNCHANGED subs
       ELSE Goto(Step(Top)) /\ subs' = Subscribed(subs, Sub(LoopTask, "interrupt"))
    /\ UNCHANGED <<running, manager, asleep, ui, game>>

SubscribeAll ==
    /\ At("subscribeAll")
    /\ IF LoopDone THEN Goto(F("pick", Mgr)) /\ UNCHANGED subs
       ELSE Goto(Step(Top)) /\ subs' = WithTask(subs, LoopTask)
    /\ UNCHANGED <<running, manager, asleep, ui, game>>

(* Mutation: any runnable task is started. *)
PickAny ==
    /\ At("pick")
    /\ \/ \E k \in Runnable : Goto(F("Start", todo[k]))
       \/ Runnable = {} /\ Goto([F("waitA", Mgr) EXCEPT !.i = Len(todo)])
    /\ UNCHANGED <<running, manager, subs, asleep, ui, game>>

(* Mutation: with no task to start the function returns. *)
PickGivesUp ==
    /\ At("pick")
    /\ \/ \E k \in First(Runnable) : Goto(F("Start", todo[k]))
       \/ Runnable = {} /\ Return
    /\ UNCHANGED <<running, manager, subs, asleep, ui, game>>

(* ... then start the task that is due.  Start is the last thing the       *)
(* function does, so its frame takes the place of this one.                *)
Pick ==
    /\ At("pick")
    /\ \/ CanRunNoiTu /\ Goto(F("Start", NoiTu))
       \/ ~CanRunNoiTu /\ \E k \in First(Runnable) : Goto(F("Start", todo[k]))
       \/ ~CanRunNoiTu /\ Runnable = {} /\ Goto([F("waitA", Mgr) EXCEPT !.i = Len(todo)])
    /\ UNCHANGED <<running, manager, subs, asleep, ui, game>>

(* Mutation: the function returns instead of pausing. *)
WaitForTaskGivesUp ==
    /\ At("waitA")
    /\ LET due == {k \in Runnable : k <= Top.i}
       IN \/ ~(running[Mgr] /\ NeedToWait) /\ Goto(F("allDone", Mgr))
          \/ running[Mgr] /\ NeedToWait /\ \E k \in First(due) : Goto(F("Start", todo[k]))
          \/ running[Mgr] /\ NeedToWait /\ due = {} /\ Return
    /\ UNCHANGED <<running, manager, subs, asleep, ui, game>>

(* while Running and needToWait() do ... nx_pause(5) end                   *)
(* Frame.i is cnt, the length TodoList had before the loop.  A Start while *)
(* the loop sleeps may have loaded another list: a longer one is scanned   *)
(* only so far, and past the end of a shorter one canRunTask(nil) is an    *)
(* error, which ends the coroutine.                                        *)
WaitForTask ==
    /\ At("waitA")
    /\ LET due == {k \in Runnable : k <= Top.i}
       IN \/ /\ ~(running[Mgr] /\ NeedToWait)
             /\ Goto(F("allDone", Mgr)) /\ UNCHANGED waitA
          \/ /\ running[Mgr] /\ NeedToWait /\ UNCHANGED waitA
             /\ \E k \in First(due) : Goto(F("Start", todo[k]))
          \/ /\ running[Mgr] /\ NeedToWait /\ due = {} /\ Top.i > Len(todo)
             /\ Return /\ UNCHANGED waitA
          \/ /\ running[Mgr] /\ NeedToWait /\ due = {} /\ Top.i <= Len(todo)
             /\ Return /\ waitA' = [waitA EXCEPT ![Top.i] = @ + 1]
    /\ UNCHANGED <<running, manager, subs, loops, waitB, encounters, ui, game>>

AllDone ==
    /\ At("allDone")
    /\ IF cfg.stopOnDone \/ (cfg.stopOnDie /\ dead)
       THEN Goto(F("Stop", Mgr))
       ELSE Goto(F("waitB", Mgr))
    /\ UNCHANGED <<running, manager, subs, asleep, ui, game>>

(* Mutation: no checkNextTask after the loop. *)
WaitForAnyGivesUp ==
    /\ At("waitB")
    /\ Return
    /\ waitB' = IF Runnable = {} /\ running[Mgr] THEN waitB + 1 ELSE waitB
    /\ UNCHANGED <<running, manager, subs, loops, waitA, encounters, ui, game>>

(* while not anyTaskAvailable() do ... nx_pause(5) end; checkNextTask() *)
WaitForAny ==
    /\ At("waitB")
    /\ \/ Runnable # {} /\ Goto(F("unsubscribeAll", Mgr)) /\ UNCHANGED waitB
       \/ Runnable = {} /\ ~running[Mgr] /\ Return /\ UNCHANGED waitB
       \/ Runnable = {} /\ running[Mgr] /\ Return /\ waitB' = waitB + 1
    /\ UNCHANGED <<running, manager, subs, loops, waitA, encounters, ui, game>>

WakeWaitA ==
    /\ Between /\ Room("waitA")
    /\ \E cnt \in Lengths :
          /\ waitA[cnt] > 0
          /\ waitA' = [waitA EXCEPT ![cnt] = @ - 1]
          /\ Begin([F("waitA", Mgr) EXCEPT !.i = cnt])
    /\ UNCHANGED <<running, manager, subs, loops, waitB, encounters, ui, game>>

WakeWaitB ==
    /\ Between /\ waitB > 0 /\ Room("waitB")
    /\ waitB' = waitB - 1
    /\ Begin(F("waitB", Mgr))
    /\ UNCHANGED <<running, manager, subs, loops, waitA, encounters, ui, game>>

-----------------------------------------------------------------------------
(* An encounter: zdn_listener hands it to OnReceiveKyNgo, whose coroutine  *)
(* stops what runs, deals with the encounter for up to 180 seconds         *)
(* (returning at once for some), and starts again what it stopped.         *)

(* The scripts that run, in the order of CAN_RUN_LOGIC_LIST (any order). *)
StopGlobalTask ==
    /\ At("StopGlobalTask")
    /\ \/ /\ running[Mgr]
          /\ suspended' = Mgr /\ Goto(F("Stop", Mgr))
       \/ /\ ~running[Mgr]
          /\ \E l \in Logics : running[l] /\ suspended' = l /\ Goto(F("Stop", l))
       \/ /\ \A s \in Scripts : ~running[s]
          /\ suspended' = None /\ Return
    /\ UNCHANGED <<running, cfg, throttled, subs, asleep, ui, game>>

(* Mutation: no test for the empty name. *)
ContinueNothing ==
    /\ At("ContinueGlobalTask")
    /\ Goto(F("Start", suspended))
    /\ UNCHANGED <<running, manager, subs, asleep, ui, game>>

ContinueGlobalTask ==
    /\ At("ContinueGlobalTask")
    /\ IF suspended = None THEN Return ELSE Goto(F("Start", suspended))
    /\ UNCHANGED <<running, manager, subs, asleep, ui, game>>

(* doAcceptKyNgo: it pauses unless it has nothing to wait for. *)
Accept ==
    /\ At("accept")
    /\ \/ Return /\ encounters' = encounters + 1
       \/ ~Patient /\ Goto(F("ContinueGlobalTask", Mgr)) /\ UNCHANGED encounters
    /\ UNCHANGED <<running, manager, subs, loops, waitA, waitB, ui, game>>

(* A coroutine that was told to stop and has not woken up since. *)
Lingering ==
    \/ \E l \in Logics : loops[l] > 0 /\ ~running[l]
    \/ ~running[Mgr] /\ (waitB > 0 \/ \E cnt \in Lengths : waitA[cnt] > 0)

Settled == Patient => ~Lingering

Encounter ==
    /\ Between /\ encounters < Encounters /\ Room(None)
    /\ stack' = <<F("accept", Mgr), F("StopGlobalTask", Mgr)>>
    /\ UNCHANGED <<running, manager, subs, asleep, ui, game>>

EncounterOver ==
    /\ Between /\ encounters > 0 /\ Settled /\ Room(None)
    /\ encounters' = encounters - 1
    /\ Begin(F("ContinueGlobalTask", Mgr))
    /\ UNCHANGED <<running, manager, subs, loops, waitA, waitB, ui, game>>

-----------------------------------------------------------------------------
(* The forms of the manager and of the tasks: the same script but for the  *)
(* name of the logic.                                                      *)

OpenForm(f) ==
    /\ Between /\ Reopen /\ ~open[f]
    /\ open' = [open EXCEPT ![f] = TRUE]
    /\ btn' = [btn EXCEPT ![f] = running[f]]
    /\ subs' = IF running[f] THEN Subscribed(subs, FormSub(f)) ELSE subs
    /\ UNCHANGED <<running, manager, stack, asleep, game>>

CloseForm(f) ==
    /\ Between /\ Reopen /\ open[f]
    /\ open' = [open EXCEPT ![f] = FALSE]
    /\ btn' = [btn EXCEPT ![f] = FALSE]
    /\ subs' = Unsubscribed(subs, FormSub(f))
    /\ UNCHANGED <<running, manager, stack, asleep, game>>

(* Mutation: the form does not ask to be told that its script stopped. *)
ClickStartUnsubscribed(f) ==
    /\ Between /\ open[f] /\ ~running[f] /\ Settled /\ Room(None)
    /\ btn' = [btn EXCEPT ![f] = TRUE]
    /\ Begin(F("Start", f))
    /\ UNCHANGED <<running, manager, subs, asleep, open, game>>

ClickStart(f) ==
    /\ Between /\ open[f] /\ ~running[f] /\ Settled /\ Room(None)
    /\ btn' = [btn EXCEPT ![f] = TRUE]
    /\ subs' = Subscribed(subs, FormSub(f))
    /\ Begin(F("Start", f))
    /\ UNCHANGED <<running, manager, asleep, open, game>>

ClickStop(f) ==
    /\ Between /\ open[f] /\ running[f] /\ Room(None)
    /\ stack' = <<F("buttonOff", f), F("Stop", f)>>
    /\ UNCHANGED <<running, manager, subs, asleep, ui, game>>

ButtonOff ==
    /\ At("buttonOff")
    /\ btn' = [btn EXCEPT ![Top.at] = FALSE]
    /\ Return
    /\ UNCHANGED <<running, manager, subs, asleep, open, game>>

-----------------------------------------------------------------------------
(* The game and the clock move between bursts. *)

ReadyChanges(l) ==
    /\ Between
    /\ \E c \in Conditions(l) \ {ready[l]} : ready' = [ready EXCEPT ![l] = c]
    /\ UNCHANGED <<running, manager, subs, stack, asleep, ui, inTime, dead>>

TimeChanges(l) ==
    /\ Between /\ l \in Windowed
    /\ inTime' = [inTime EXCEPT ![l] = ~@]
    /\ UNCHANGED <<running, manager, subs, stack, asleep, ui, ready, dead>>

(* Who plays with no list that stops on death never asks for it. *)
LifeChanges ==
    /\ Between /\ \E c \in Configs : c.stopOnDie
    /\ dead' = ~dead
    /\ UNCHANGED <<running, manager, subs, stack, asleep, ui, ready, inTime>>

ThrottleExpires ==
    /\ Between /\ throttled
    /\ throttled' = FALSE
    /\ UNCHANGED <<running, cfg, suspended, subs, stack, asleep, ui, game>>

-----------------------------------------------------------------------------
Burst ==
    \/ \E l \in Logics : LogicStart(l) \/ LogicBusy(l) \/ LogicPass(l) \/ LogicPause(l)
                         \/ LogicStop(l)
    \/ \E s \in Scripts : PublishStop(s)
    \/ \E l \in Logics : PublishInterrupt(l) \/ OnTaskInterrupt(l)
    \/ Start \/ Stop \/ StopEach \/ UnsubscribeAll \/ StopAll \/ SubscribeAll
    \/ Pick \/ WaitForTask \/ AllDone \/ WaitForAny
    \/ StopGlobalTask \/ ContinueGlobalTask \/ Accept \/ ButtonOff

Wake == (\E l \in Logics : LogicWake(l)) \/ WakeWaitA \/ WakeWaitB

User ==
    \E f \in Forms : OpenForm(f) \/ CloseForm(f) \/ ClickStop(f) \/ ClickStart(f)

Game ==
    \/ \E l \in Logics : ReadyChanges(l) \/ TimeChanges(l) \/ StopMessage(l)
    \/ LifeChanges \/ ThrottleExpires

Next == Burst \/ Wake \/ User \/ Game \/ Encounter \/ EncounterOver

Spec == Init /\ [][Next]_vars

(* The engine runs a burst to its end and resumes what sleeps when its     *)
(* pause is over; an encounter is over after 180 seconds at the latest.    *)
(* The four seconds of the throttle pass, and a map does not load for      *)
(* ever, although bursts come in between: these two are strong.  Nothing   *)
(* is assumed of the user, nor of what the game lets the tasks do.         *)
Fairness ==
    /\ WF_vars(Burst)
    /\ \A l \in Logics : WF_vars(LogicWake(l)) /\ SF_vars(LogicPass(l))
    /\ WF_vars(WakeWaitA) /\ WF_vars(WakeWaitB)
    /\ SF_vars(ThrottleExpires)
    /\ WF_vars(EncounterOver)

FairSpec == Spec /\ Fairness

-----------------------------------------------------------------------------
(* Properties of every instance. *)

(* A logic whose flag Running is set has a coroutine that looks at the     *)
(* flag: asleep in its loop or in progress.  Were it not so, Start would   *)
(* refuse (`if Running then return') and nothing would ever run it again.  *)
RunningHasLoop ==
    \A l \in Logics : running[l] =>
        \/ loops[l] > 0
        \/ \E k \in DOMAIN stack : stack[k].at = l /\ stack[k].pc \in {"loop", "pause"}

(* No subscription is held twice, so Unsubscribe, which skips an entry     *)
(* after one it removes, removes all there is.                             *)
NoDuplicates == IsInjective(subs)

(* The manager's form says "Stop" only while the manager runs. *)
ButtonHonest == Between /\ btn[Mgr] => running[Mgr]

(* A manager that runs always has something that will make it go on: a     *)
(* waiter asleep, or a running task whose end it will be told of.          *)
ManagerNotLost ==
    Between /\ running[Mgr] =>
        \/ waitB > 0 \/ \E cnt \in Lengths : waitA[cnt] > 0
        \/ \E k \in DOMAIN todo :
              running[todo[k]] /\ IsSubscribing(subs, Sub(todo[k], "stop"))

(* The manager listens to every task of its list while it runs, and to     *)
(* none while it does not, unless one of the user's lists goes on when all *)
(* is done: a manager stopped in anyTaskAvailable may subscribe again.     *)
EndsWhenDone == \A c \in Configs : c.stopOnDone
ListensWhileRunning ==
    Between =>
        \A k \in DOMAIN todo, ev \in {"stop", "interrupt"} :
            IF running[Mgr] THEN IsSubscribing(subs, Sub(todo[k], ev))
            ELSE EndsWhenDone => ~IsSubscribing(subs, Sub(todo[k], ev))

(* When Stop of the manager tells its form, all it has done holds at once, *)
(* though each task it stopped published that, too: the manager is off, no *)
(* task of the list runs, and it listens to none.                          *)
StopLeavesNothing ==
    AtScript("publishStop", Mgr) =>
        /\ ~running[Mgr]
        /\ \A k \in DOMAIN todo :
              /\ ~running[todo[k]]
              /\ \A ev \in {"stop", "interrupt"} : ~IsSubscribing(subs, Sub(todo[k], ev))

(* checkNextTask chooses a task only when no task of the list runs, whoever *)
(* started it, and the manager will hear of each of them.                  *)
ChoosesAlone ==
    At("pick") =>
        \A k \in DOMAIN todo :
            /\ ~running[todo[k]]
            /\ \A ev \in {"stop", "interrupt"} : IsSubscribing(subs, Sub(todo[k], ev))

(* However the callbacks nest (stop, next task, start, interrupt, stop     *)
(* ...), control comes back to the engine.                                 *)
BurstsEnd == []<>Between

-----------------------------------------------------------------------------
(* Properties of the manager alone: no task is started by its own form.    *)

(* The manager keeps the promise of Scheduler: one task at a time, begun   *)
(* only when it is the one that is due and the manager is on.              *)
Sched == INSTANCE Scheduler WITH
    on <- running[Mgr],
    active <- {l \in Logics : running[l]},
    order <- todo,
    runnable <- {l \in Logics : CanRunTask(l)}

KeepsSchedule == Sched!Spec

(* After Stop no task of the list runs. *)
StoppedIsStopped ==
    Between /\ ~running[Mgr] => \A k \in DOMAIN todo : ~running[todo[k]]

(* A task that stays runnable gets the manager to run some task. *)
SomeTaskRuns ==
    (running[Mgr] /\ Runnable # {}) ~>
        (~running[Mgr] \/ Runnable = {} \/ \E l \in Logics : running[l])

(* l stands before m in the list. *)
Outranks(l, m) == \E j, k \in DOMAIN todo : j < k /\ todo[j] = l /\ todo[k] = m

(* The tasks that run, offer to be interrupted and have a runnable task    *)
(* before them in the list.                                                *)
Overtaken ==
    {m \in Logics : /\ running[m] /\ "noInterrupt" \notin Traits[m]
                    /\ \E l \in Logics : Outranks(l, m) /\ CanRunTask(l)}

(* Such a task gives way. *)
GivesWay ==
    (running[Mgr] /\ Overtaken # {}) ~> (~running[Mgr] \/ Overtaken = {})

(* A manager stopped by an encounter runs again. *)
EncounterResumes ==
    (encounters > 0 /\ suspended = Mgr) ~> running[Mgr]

(* What the settings form says of its second check box: "Dung tro ly khi   *)
(* nhan vat tu vong", stop the assistant when the character dies.          *)
DeathStops ==
    (running[Mgr] /\ cfg.stopOnDie /\ dead) ~> (~running[Mgr] \/ ~dead)
=============================================================================
