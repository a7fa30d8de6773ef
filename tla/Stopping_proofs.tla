-------------------------- MODULE Stopping_proofs --------------------------
(***************************************************************************)
(* What Stop of the manager and checkNextTask leave behind, and whom the   *)
(* manager listens to between bursts, for every set of logics with any     *)
(* traits, every list, and whatever the user, the game and the encounters  *)
(* do.                                                                     *)
(*                                                                         *)
(* Both functions walk the list of tasks and stop them one by one, and     *)
(* every task that stops publishes it.  The argument is about the moment   *)
(* in between: the loop unsubscribes a task before it stops it, so the     *)
(* publication meets no callback of the manager, nothing is started inside *)
(* the loop, and what the loop has done so far stays done.                 *)
(***************************************************************************)
EXTENDS TaskManager_proofs

-----------------------------------------------------------------------------
(* The inductive invariant. *)

(* The loops that stop tasks. *)
StopLoop(f) == f.pc \in {"stopEach", "stopAll"}

(* The manager does not listen to a task; to none of the first n; none of  *)
(* the first n runs.                                                       *)
Deaf(l) == \A ev \in {"stop", "interrupt"} : ~IsSubscribing(subs, Sub(l, ev))
Silent(n) == \A k \in 1..n : k \in DOMAIN todo => Deaf(todo[k])
Halted(n) == \A k \in 1..n : k \in DOMAIN todo => ~running[todo[k]]

(* What holds when f is the innermost function. *)
Expected(f) ==
    /\ f.pc = "unsubscribeAll" => Silent(f.i)
    /\ f.pc = "stopAll" => Silent(Len(todo)) /\ Halted(f.i)
    /\ f.pc \in {"subscribeAll", "pick"} => Halted(Len(todo))
    /\ f.pc = "stopEach" => ~running[Mgr] /\ Silent(f.i) /\ Halted(f.i)
    /\ f.pc = "publishStop" /\ f.at = Mgr =>
          ~running[Mgr] /\ Silent(Len(todo)) /\ Halted(Len(todo))

(* What holds when g, the innermost function, was called by the loop f. *)
StoppedBy(g, f) ==
    /\ f.i \in DOMAIN todo /\ g.at = todo[f.i]
    /\ g.pc \in {"Stop", "publishStop"}
    /\ Halted(IF g.pc = "Stop" THEN f.i - 1 ELSE f.i)
    /\ Silent(f.i)
    /\ f.pc = "stopAll" => Silent(Len(todo))
    /\ f.pc = "stopEach" => ~running[Mgr]

(* The functions below the one that called the innermost. *)
Deeper == {stack[k] : k \in 1..(Len(stack) - 2)}

StackInv ==
    /\ \A f \in Deeper : ~StopLoop(f)
    /\ \A f \in Below : /\ StopLoop(f) => StoppedBy(Top, f)
                        /\ f.pc = "publishStop" => f.at # Mgr
    /\ stack # <<>> => Expected(Top)

-----------------------------------------------------------------------------
(* The stack. *)

(* A goto leaves what is deeper. *)
LEMMA GotoDeeper ==
    ASSUME stack \in Seq(Frame), stack # <<>>, NEW f, Goto(f)
    PROVE  Deeper' = Deeper
<1> DEFINE n == Len(stack)
<1>0. stack \in Seq(Frame \cup {f})
  BY SeqDef
<1>1. /\ Len(stack') = n /\ n \in Nat \ {0}
      /\ \A k \in 1..(n - 1) : stack'[k] = stack[k]
  BY <1>0, ReplaceTop DEF Goto
<1> HIDE DEF n
<1>2. \A k \in 1..(n - 2) : stack'[k] = stack[k]
  BY <1>1
<1> QED BY <1>1, <1>2 DEF Deeper, n

(* After a call everything below the caller is deeper. *)
LEMMA CallDeeper ==
    ASSUME stack \in Seq(Frame), stack # <<>>, NEW f, NEW g, Call(f, g)
    PROVE  Deeper' = Below
<1> DEFINE n == Len(stack)
<1>0. stack \in Seq(Frame \cup {f, g})
  BY SeqDef
<1>1. /\ Len(stack') = n + 1 /\ n \in Nat \ {0}
      /\ \A k \in 1..(n - 1) : stack'[k] = stack[k]
  BY <1>0, PushOnTop DEF Call
<1> HIDE DEF n
<1>2. Len(stack') - 2 = n - 1
  BY <1>1
<1> QED BY <1>1, <1>2 DEF Deeper, Below, n

(* After a return what was deeper is below. *)
LEMMA ReturnDeeper ==
    ASSUME stack \in Seq(Frame), stack # <<>>, Return
    PROVE  Below' = Deeper /\ Deeper' \subseteq Deeper
<1> DEFINE n == Len(stack)
<1>1. /\ Len(stack') = n - 1 /\ n \in Nat \ {0}
      /\ \A k \in 1..(n - 1) : stack'[k] = stack[k]
  BY PopTop DEF Return
<1> HIDE DEF n
<1>2. \A k \in 1..(n - 2) : stack'[k] = stack[k]
  BY <1>1
<1>3. Len(stack') - 1 = n - 2 /\ Len(stack') - 2 = n - 3 /\ 1..(n - 3) \subseteq 1..(n - 2)
  BY <1>1
<1>4. Below' = {stack'[k] : k \in 1..(n - 2)} /\ Deeper' = {stack'[k] : k \in 1..(n - 3)}
  BY <1>3 DEF Below, Deeper
<1>5. Deeper = {stack[k] : k \in 1..(n - 2)}
  BY DEF Deeper, n
<1>6. Below' = Deeper
  BY <1>2, <1>4, <1>5
<1>7. Deeper' \subseteq Deeper
  BY <1>2, <1>3, <1>4, <1>5
<1> QED BY <1>6, <1>7

(* The frame on top is exchanged. *)
LEMMA GotoOn ==
    ASSUME stack \in Seq(Frame), stack # <<>>, NEW f, Goto(f), StackInv,
           \A g \in Below : StopLoop(g) => StoppedBy(f, g)',
           Expected(f)'
    PROVE  StackInv'
<1>1. Top' = f /\ Below' = Below /\ Deeper' = Deeper
  BY GotoFrames, GotoDeeper
<1>2. Expected(Top)'
  BY <1>1
<1>3. ASSUME NEW g \in Below', StopLoop(g)
      PROVE  StoppedBy(Top, g)'
  BY <1>1, <1>3
<1> QED BY <1>1, <1>2, <1>3 DEF StackInv, StopLoop

(* A function is called, by one that no loop called. *)
LEMMA CallOn ==
    ASSUME stack \in Seq(Frame), stack # <<>>, NEW f, NEW g, Call(f, g), StackInv,
           \A h \in Below : ~StopLoop(h),
           f.pc = "publishStop" => f.at # Mgr,
           StopLoop(f) => StoppedBy(g, f)',
           Expected(g)'
    PROVE  StackInv'
<1>1. Top' = g /\ Below' = Below \cup {f} /\ Deeper' = Below
  BY CallFrames, CallDeeper
<1>2. Expected(Top)'
  BY <1>1
<1>3. StopLoop(f) => StoppedBy(Top, f)'
  BY <1>1
<1> QED BY <1>1, <1>2, <1>3 DEF StackInv, StopLoop

(* A function returns. *)
LEMMA ReturnOn ==
    ASSUME stack \in Seq(Frame), stack # <<>>, Return, Shape, StackInv,
           \A f \in Below : StopLoop(f) => Expected(f)'
    PROVE  StackInv'
<1>1. /\ stack' # <<>> => Top' \in Below
      /\ Below' = Deeper /\ Below' \subseteq Below /\ Deeper' \subseteq Deeper
  BY ReturnFrames, ReturnDeeper
<1>2. ASSUME NEW f \in Below
      PROVE  Expected(f)'
  <2>1. CASE StopLoop(f)
    BY <2>1
  <2>2. CASE ~StopLoop(f)
    <3>1. f.pc \in CallingPlaces /\ (f.pc = "publishStop" => f.at # Mgr)
      BY DEF Shape, StackInv
    <3> QED BY <2>2, <3>1 DEF Expected, StopLoop, CallingPlaces
  <2> QED BY <2>1, <2>2
<1>3. stack' # <<>> => Expected(Top)'
  <2> SUFFICES ASSUME stack' # <<>> PROVE Expected(Top)'
    OBVIOUS
  <2>1. PICK f \in Below : f = Top'
    BY <1>1
  <2>2. Expected(f)'
    BY <1>2
  <2> QED BY <2>1, <2>2
<1>4. \A f \in Below' : ~StopLoop(f) /\ (f.pc = "publishStop" => f.at # Mgr)
  BY <1>1 DEF StackInv
<1> QED BY <1>1, <1>3, <1>4 DEF StackInv, StopLoop

(* A burst begins. *)
LEMMA BeginOn ==
    ASSUME NEW f, Begin(f), Expected(f)'
    PROVE  StackInv'
<1>1. Top' = f /\ Below' = {} /\ Deeper' = {}
  BY BeginFrames DEF Begin, Deeper
<1>2. Expected(Top)'
  BY <1>1
<1> QED BY <1>1, <1>2 DEF StackInv

(* A burst begins with one function called from another. *)
LEMMA BeginTwoOn ==
    ASSUME NEW f, NEW g, stack' = <<f, g>>, f.pc \in {"accept", "buttonOff"}, Expected(g)'
    PROVE  StackInv'
<1>1. Top' = g /\ Below' = {f} /\ Deeper' = {}
  BY BeginTwoFrames DEF Deeper
<1>2. Expected(Top)'
  BY <1>1
<1> QED BY <1>1, <1>2 DEF StackInv, StopLoop

-----------------------------------------------------------------------------
(* The steps that the loops over the list have no part in. *)

(* A function of which nothing is expected. *)
Free(f) ==
    /\ f.pc \notin {"unsubscribeAll", "stopAll", "subscribeAll", "pick", "stopEach", "waitB"}
    /\ f.pc = "publishStop" => f.at # Mgr

(* A step from a function that no loop calls to such functions. *)
FreeStep ==
    /\ stack # <<>> /\ Top.pc \notin {"Stop", "publishStop"}
    /\ \/ Return
       \/ \E f : Goto(f) /\ Free(f)
       \/ \E f, g : Call(f, g) /\ Free(f) /\ Free(g)

(* The steps within a burst. *)
LEMMA BurstSteps ==
    ASSUME TypeOK, [Next]_vars, stack # <<>>
    PROVE  \/ FreeStep \/ UNCHANGED vars \/ Start \/ AllDone \/ WaitForAny
           \/ \E l \in Logics : LogicStop(l)
           \/ \E s \in Scripts : PublishStop(s)
           \/ Stop \/ StopEach \/ UnsubscribeAll \/ StopAll \/ SubscribeAll
<1> Mgr \in Scripts
  BY DEF Scripts
<1>a. ASSUME NEW pc \in {"Start", "Stop", "loop", "pause", "publishInterrupt", "onTaskInterrupt",
                         "allDone", "StopGlobalTask", "ContinueGlobalTask"}, NEW s
      PROVE  Free(F(pc, s))
  BY <1>a, FrameFields DEF Free
<1>1. ASSUME NEW l \in Logics, LogicStart(l) \/ OnTaskInterrupt(l)
      PROVE  FreeStep
  <2>1. /\ stack # <<>> /\ Top.pc \notin {"Stop", "publishStop"}
        /\ Return \/ Goto(F("Stop", l)) \/ Goto(F("loop", l))
    BY <1>1 DEF LogicStart, OnTaskInterrupt, First, AtScript, At
  <2> QED BY <1>a, <2>1 DEF FreeStep
<1>2. ASSUME NEW l \in Logics, LogicBusy(l) \/ LogicPause(l)
      PROVE  FreeStep
  BY <1>2 DEF LogicBusy, LogicPause, Pause, AtScript, At, FreeStep
<1>3. ASSUME NEW l \in Logics, LogicPass(l)
      PROVE  FreeStep
  <2>1. Free(F("Stop", l)) /\ Free(F("pause", l)) /\ Free(F("publishInterrupt", l))
        /\ Free(F("StopGlobalTask", Mgr))
    BY <1>a
  <2> QED BY <1>3, <2>1 DEF LogicPass, AtScript, At, FreeStep
<1>4. ASSUME NEW l \in Logics, PublishInterrupt(l)
      PROVE  FreeStep
  <2>1. stack # <<>> /\ Top.pc = "publishInterrupt" /\ Top \in Frame
    BY <1>4, TopFrame DEF PublishInterrupt, AtScript, At, TypeOK
  <2>2. Return \/ \E k \in Nat : Call([Top EXCEPT !.i = k], F("onTaskInterrupt", l))
    BY <1>4, MatchesAfterType DEF PublishInterrupt, First, TypeOK
  <2>3. \A k \in Nat : Free([Top EXCEPT !.i = k])
    BY <2>1, FrameFields DEF Free
  <2>4. Free(F("onTaskInterrupt", l))
    BY <1>a
  <2> QED BY <2>1, <2>2, <2>3, <2>4 DEF FreeStep
<1>5. ASSUME Pick \/ WaitForTask
      PROVE  FreeStep
  <2>1. Free([F("waitA", Mgr) EXCEPT !.i = Len(todo)])
    <3>1. F("waitA", Mgr) \in Frame /\ F("waitA", Mgr).pc = "waitA"
      BY NewFrame, FrameFields DEF Places
    <3>2. [F("waitA", Mgr) EXCEPT !.i = Len(todo)].pc = "waitA"
      BY <3>1, TodoTask, FrameFields
    <3> QED BY <3>2 DEF Free
  <2>2. /\ stack # <<>> /\ Top.pc \in {"pick", "waitA"}
        /\ \/ Return \/ Goto(F("allDone", Mgr)) \/ Goto([F("waitA", Mgr) EXCEPT !.i = Len(todo)])
           \/ \E s : Goto(F("Start", s))
    BY <1>5 DEF Pick, WaitForTask, First, At
  <2>3. Free(F("allDone", Mgr)) /\ \A s : Free(F("Start", s))
    BY <1>a
  <2> QED BY <2>1, <2>2, <2>3 DEF FreeStep
<1>6. ASSUME StopGlobalTask \/ ContinueGlobalTask \/ Accept \/ ButtonOff
      PROVE  FreeStep
  <2>1. /\ stack # <<>> /\ Top.pc \notin {"Stop", "publishStop"}
        /\ \/ Return \/ Goto(F("ContinueGlobalTask", Mgr))
           \/ \E s : Goto(F("Stop", s)) \/ Goto(F("Start", s))
    BY <1>6 DEF StopGlobalTask, ContinueGlobalTask, Accept, ButtonOff, At
  <2>2. Free(F("ContinueGlobalTask", Mgr)) /\ \A s : Free(F("Stop", s)) /\ Free(F("Start", s))
    BY <1>a
  <2> QED BY <2>1, <2>2 DEF FreeStep
<1>7. /\ \A l \in Logics : ~LogicWake(l) /\ ~ReadyChanges(l) /\ ~TimeChanges(l) /\ ~StopMessage(l)
      /\ \A f \in Forms : ~OpenForm(f) /\ ~CloseForm(f) /\ ~ClickStart(f) /\ ~ClickStop(f)
      /\ ~WakeWaitA /\ ~WakeWaitB /\ ~Encounter /\ ~EncounterOver /\ ~LifeChanges
      /\ ~ThrottleExpires
  BY DEF LogicWake, ReadyChanges, TimeChanges, StopMessage, OpenForm, CloseForm, ClickStart,
         ClickStop, WakeWaitA, WakeWaitB, Encounter, EncounterOver, LifeChanges,
         ThrottleExpires, Between
<1> QED
  BY <1>1, <1>2, <1>3, <1>4, <1>5, <1>6, <1>7 DEF Next, Burst, Wake, User, Game

(* The steps between bursts. *)
LEMMA BetweenSteps ==
    ASSUME TypeOK, [Next]_vars, stack = <<>>
    PROVE  \/ UNCHANGED stack
           \/ \E f : Begin(f) /\ Free(f)
           \/ \E f, g : stack' = <<f, g>> /\ f.pc \in {"accept", "buttonOff"} /\ Free(g)
           \/ WakeWaitB
<1>a. ASSUME NEW pc \in {"Start", "Stop", "loop", "StopGlobalTask", "ContinueGlobalTask"}, NEW s
      PROVE  Free(F(pc, s))
  BY <1>a, FrameFields DEF Free
<1>1. ASSUME NEW l \in Logics, LogicWake(l) \/ ReadyChanges(l) \/ TimeChanges(l) \/ StopMessage(l)
      PROVE  UNCHANGED stack \/ \E f : Begin(f) /\ Free(f)
  BY <1>1, <1>a DEF LogicWake, ReadyChanges, TimeChanges, StopMessage
<1>2. ASSUME NEW f \in Forms, OpenForm(f) \/ CloseForm(f) \/ ClickStart(f)
      PROVE  UNCHANGED stack \/ \E g : Begin(g) /\ Free(g)
  BY <1>2, <1>a DEF OpenForm, CloseForm, ClickStart
<1>3. ASSUME WakeWaitA
      PROVE  \E f : Begin(f) /\ Free(f)
  <2>1. PICK cnt \in Lengths : Begin([F("waitA", Mgr) EXCEPT !.i = cnt])
    BY <1>3 DEF WakeWaitA
  <2>2. cnt \in Nat
    BY ConfigAssumption DEF Lengths, Config
  <2>3. F("waitA", Mgr) \in Frame /\ F("waitA", Mgr).pc = "waitA"
    BY NewFrame, FrameFields DEF Places, Scripts
  <2>4. [F("waitA", Mgr) EXCEPT !.i = cnt].pc = "waitA"
    BY <2>2, <2>3, FrameFields
  <2> QED BY <2>1, <2>4 DEF Free
<1>4. ASSUME Encounter \/ \E f \in Forms : ClickStop(f)
      PROVE  \E f, g : stack' = <<f, g>> /\ f.pc \in {"accept", "buttonOff"} /\ Free(g)
  <2>1. /\ F("accept", Mgr).pc = "accept" /\ Free(F("StopGlobalTask", Mgr))
        /\ \A s : F("buttonOff", s).pc = "buttonOff" /\ Free(F("Stop", s))
    BY <1>a, FrameFields
  <2> QED BY <1>4, <2>1 DEF Encounter, ClickStop
<1>5. EncounterOver => \E f : Begin(f) /\ Free(f)
  BY <1>a DEF EncounterOver
<1>6. LifeChanges \/ ThrottleExpires \/ UNCHANGED vars => UNCHANGED stack
  BY DEF LifeChanges, ThrottleExpires, vars
<1>7. ~Burst
  BY DEF Burst, LogicStart, LogicBusy, LogicPass, LogicPause, LogicStop, PublishStop,
         PublishInterrupt, OnTaskInterrupt, Start, Stop, StopEach, UnsubscribeAll, StopAll,
         SubscribeAll, Pick, WaitForTask, AllDone, WaitForAny, StopGlobalTask,
         ContinueGlobalTask, Accept, ButtonOff, AtScript, At
<1> QED BY <1>1, <1>2, <1>3, <1>4, <1>5, <1>6, <1>7 DEF Next, Wake, User, Game

-----------------------------------------------------------------------------
(* Every step keeps the invariant. *)

AllInv ==
    TypeOK /\ NoDuplicates /\ FormListens /\ Shape /\ NotStopping /\ ListensOrRefreshes /\ StackInv

(* Of a free function nothing is expected. *)
LEMMA NothingExpected ==
    ASSUME NEW f, Free(f)
    PROVE  Expected(f)' /\ ~StopLoop(f)
BY DEF Free, Expected, StopLoop

(* Only Stop and the publication of it are called by the loops. *)
LEMMA NoLoopBelow ==
    ASSUME TypeOK, StackInv, stack # <<>>,
           Top.pc \notin {"Stop", "publishStop"} \/ Top.at = Mgr \/ ~Deaf(Top.at)
    PROVE  \A f \in Below : ~StopLoop(f)
<1> SUFFICES ASSUME NEW f \in Below, StopLoop(f) PROVE FALSE
  OBVIOUS
<1>1. StoppedBy(Top, f)
  BY DEF StackInv
<1>2. f.i \in DOMAIN todo /\ Top.at = todo[f.i] /\ Silent(f.i) /\ Top.pc \in {"Stop", "publishStop"}
  BY <1>1 DEF StoppedBy
<1>3. f.i \in 1..f.i /\ Top.at # Mgr
  BY <1>2, TodoTask, ScriptAssumption
<1> QED BY <1>2, <1>3 DEF Silent

(* The free steps. *)
LEMMA FreeStepOn ==
    ASSUME AllInv, FreeStep
    PROVE  StackInv'
<1>1. stack \in Seq(Frame) /\ stack # <<>> /\ StackInv /\ Shape
  BY DEF AllInv, TypeOK, FreeStep
<1>2. \A f \in Below : ~StopLoop(f)
  BY <1>1, NoLoopBelow DEF AllInv, FreeStep
<1>3. CASE Return
  BY <1>1, <1>2, <1>3, ReturnOn
<1>4. ASSUME NEW f, Goto(f), Free(f)
      PROVE  StackInv'
  BY <1>1, <1>2, <1>4, NothingExpected, GotoOn
<1>5. ASSUME NEW f, NEW g, Call(f, g), Free(f), Free(g)
      PROVE  StackInv'
  <2>1. Expected(g)' /\ ~StopLoop(f) /\ (f.pc = "publishStop" => f.at # Mgr)
    BY <1>5, NothingExpected DEF Free
  <2> QED BY <1>1, <1>2, <1>5, <2>1, CallOn
<1> QED BY <1>3, <1>4, <1>5 DEF FreeStep

(* The manager is started, or has nothing more to wait for. *)
LEMMA StartOn ==
    ASSUME AllInv, Start \/ AllDone \/ WaitForAny
    PROVE  StackInv'
<1>1. /\ stack \in Seq(Frame) /\ stack # <<>> /\ StackInv /\ Shape
      /\ Top.pc \notin {"Stop", "publishStop"}
  BY DEF AllInv, TypeOK, Start, AllDone, WaitForAny, AtScript, At
<1>2. \A f \in Below : ~StopLoop(f)
  BY <1>1, NoLoopBelow DEF AllInv
<1>3. \/ Return
      \/ \E pc \in {"unsubscribeAll", "Stop", "waitB"} : Goto(F(pc, Mgr))
  BY DEF Start, AllDone, WaitForAny
<1>4. CASE Return
  BY <1>1, <1>2, <1>4, ReturnOn
<1>5. ASSUME NEW pc \in {"unsubscribeAll", "Stop", "waitB"}, Goto(F(pc, Mgr))
      PROVE  StackInv'
  <2>1. PICK f : f = F(pc, Mgr)
    OBVIOUS
  <2>2. f.pc \in {"unsubscribeAll", "Stop", "waitB"} /\ f.i = 0
    BY <2>1, FrameFields
  <2>3. Expected(f)'
    BY <2>2 DEF Expected, Silent
  <2> QED BY <1>1, <1>2, <1>5, <2>1, <2>3, GotoOn
<1> QED BY <1>3, <1>4, <1>5

(* Stop of a logic: the flag is down afterwards, whether or not it was up. *)
LEMMA LogicStopOn ==
    ASSUME AllInv, NEW l \in Logics, LogicStop(l)
    PROVE  StackInv'
<1>1. /\ stack \in Seq(Frame) /\ stack # <<>> /\ Top.pc = "Stop" /\ Top.at = l /\ l # Mgr
      /\ running \in [Scripts -> BOOLEAN] /\ l \in Scripts /\ Mgr \in Scripts
      /\ TypeOK /\ StackInv /\ Shape
      /\ UNCHANGED <<cfg, subs>>
  BY ScriptAssumption DEF AllInv, TypeOK, LogicStop, AtScript, At, manager, Scripts
<1>2. /\ \/ UNCHANGED running /\ ~running[l] /\ Return
         \/ running' = [running EXCEPT ![l] = FALSE] /\ (Return \/ Goto(F("publishStop", l)))
  BY DEF LogicStop
<1>3. /\ ~running'[l] /\ running'[Mgr] = running[Mgr]
      /\ \A m \in Scripts : ~running[m] => ~running'[m]
  BY <1>1, <1>2
<1>4. ASSUME NEW f \in Below, StopLoop(f)
      PROVE  /\ f.i \in DOMAIN todo /\ l = todo[f.i] /\ Halted(f.i)' /\ Silent(f.i)'
             /\ f.pc = "stopAll" => Silent(Len(todo))'
             /\ f.pc = "stopEach" => ~running'[Mgr]
  <2>1. /\ f.i \in DOMAIN todo /\ l = todo[f.i] /\ Halted(f.i - 1) /\ Silent(f.i)
        /\ f.pc = "stopAll" => Silent(Len(todo))
        /\ f.pc = "stopEach" => ~running[Mgr]
    BY <1>1, <1>4 DEF StackInv, StoppedBy
  <2>2. f.i \in Nat /\ \A k \in 1..f.i : k \in 1..(f.i - 1) \/ k = f.i
    BY <1>1, <2>1, TodoTask
  <2>3. Halted(f.i)'
    <3>1. \A k \in DOMAIN todo : todo[k] \in Scripts
      BY <1>1, TodoTask DEF Scripts
    <3> QED BY <1>1, <1>3, <2>1, <2>2, <3>1 DEF Halted, todo
  <2>4. \A n : Silent(n) => Silent(n)'
    BY <1>1 DEF Silent, Deaf, Sub, todo
  <2> QED BY <1>1, <1>3, <2>1, <2>3, <2>4 DEF todo
<1>5. CASE Return
  <2>1. \A f \in Below : StopLoop(f) => Expected(f)'
    BY <1>4 DEF Expected, StopLoop
  <2> QED BY <1>1, <1>5, <2>1, ReturnOn
<1>6. CASE Goto(F("publishStop", l))
  <2>1. PICK f : f = F("publishStop", l)
    OBVIOUS
  <2>2. f.pc = "publishStop" /\ f.at = l
    BY <2>1, FrameFields
  <2>3. Expected(f)'
    BY <1>1, <2>2 DEF Expected
  <2>4. \A g \in Below : StopLoop(g) => StoppedBy(f, g)'
    <3> SUFFICES ASSUME NEW g \in Below, StopLoop(g) PROVE StoppedBy(f, g)'
      OBVIOUS
    <3>1. (g.i \in DOMAIN todo /\ f.at = todo[g.i])'
      BY <1>1, <1>4, <2>2 DEF todo
    <3> QED BY <1>4, <2>2, <3>1 DEF StoppedBy
  <2> QED BY <1>1, <1>6, <2>1, <2>3, <2>4, GotoOn
<1> QED BY <1>2, <1>5, <1>6

(* A publication: of a task that a loop stops it reaches no callback of    *)
(* the manager, and of the manager's own end none does.                    *)
LEMMA PublishStopOn ==
    ASSUME AllInv, NEW s \in Scripts, PublishStop(s)
    PROVE  StackInv'
<1>1. /\ stack \in Seq(Frame) /\ stack # <<>> /\ Top \in Frame /\ Top.pc = "publishStop" /\ Top.at = s
      /\ TypeOK /\ StackInv /\ Shape /\ subs \in Seq(Subscription)
      /\ UNCHANGED <<running, cfg, subs>>
  BY TopFrame DEF AllInv, TypeOK, PublishStop, AtScript, At, manager
<1>2. /\ \A n : (Silent(n) => Silent(n)') /\ (Halted(n) => Halted(n)')
      /\ todo' = todo /\ running' = running
  BY <1>1 DEF Silent, Halted, Deaf, Sub, todo
<1>3. \A f : Expected(f) => Expected(f)'
  BY <1>2 DEF Expected
<1>4. CASE Return
  <2>1. ASSUME NEW f \in Below, StopLoop(f)
        PROVE  Expected(f)'
    <3>1. StoppedBy(Top, f)
      BY <2>1, <1>1 DEF StackInv
    <3>2. Expected(f)
      BY <1>1, <2>1, <3>1 DEF StoppedBy, Expected, StopLoop
    <3> QED BY <1>3, <3>2
  <2> QED BY <1>1, <1>4, <2>1, ReturnOn
<1>5. ASSUME NEW k \in Nat, Goto([Top EXCEPT !.i = k])
      PROVE  StackInv'
  <2>1. PICK f : f = [Top EXCEPT !.i = k]
    OBVIOUS
  <2>2. f.pc = "publishStop" /\ f.at = s
    BY <1>1, <2>1, FrameFields
  <2>3. Expected(f)'
    <3>1. Expected(f)
      BY <1>1, <2>2 DEF StackInv, Expected
    <3> QED BY <1>3, <3>1
  <2>4. \A g \in Below : StopLoop(g) => StoppedBy(f, g)'
    <3> SUFFICES ASSUME NEW g \in Below, StopLoop(g) PROVE StoppedBy(f, g)'
      OBVIOUS
    <3>1. StoppedBy(Top, g)
      BY <1>1 DEF StackInv
    <3> QED BY <1>1, <1>2, <2>2, <3>1 DEF StoppedBy
  <2> QED BY <1>1, <1>5, <2>1, <2>3, <2>4, GotoOn
<1>6. ASSUME NEW k \in MatchesAfter(subs, Top.i, s, "stop"), subs[k].sub = "manager",
             Call([Top EXCEPT !.i = k], F("unsubscribeAll", Mgr))
      PROVE  StackInv'
  <2>1. k \in DOMAIN subs /\ subs[k].src = s /\ subs[k].ev = "stop" /\ k \in Nat
    BY <1>1, LenProperties DEF MatchesAfter
  <2>2. subs[k] \in Subscription /\ IsSubscribing(subs, subs[k])
    BY <1>1, <2>1, ElementOfSeq, LenProperties DEF IsSubscribing, Contains
  <2>3. s # Mgr
    BY <1>6, <2>1, <2>2 DEF AllInv, FormListens
  <2>4. subs[k] = Sub(s, "stop")
    BY <1>6, <2>1, <2>2 DEF Subscription, Sub
  <2>5. ~Deaf(s)
    BY <2>2, <2>4 DEF Deaf
  <2>6. \A f \in Below : ~StopLoop(f)
    BY <1>1, <2>5, NoLoopBelow
  <2>7. PICK f, g : f = [Top EXCEPT !.i = k] /\ g = F("unsubscribeAll", Mgr)
    OBVIOUS
  <2>8. f.pc = "publishStop" /\ f.at = s /\ g.pc = "unsubscribeAll" /\ g.i = 0
    BY <1>1, <2>1, <2>7, FrameFields
  <2>9. Expected(g)' /\ ~StopLoop(f)
    BY <2>8 DEF Expected, Silent, StopLoop
  <2> QED BY <1>1, <1>6, <2>3, <2>6, <2>7, <2>8, <2>9, CallOn
<1>7. MatchesAfter(subs, Top.i, s, "stop") \subseteq Nat
  BY <1>1, MatchesAfterType
<1> QED BY <1>4, <1>5, <1>6, <1>7 DEF PublishStop, First

(* Stop of the manager. *)
LEMMA StopOn ==
    ASSUME AllInv, Stop
    PROVE  StackInv' /\ ~running'[Mgr] /\ \A f \in Below : ~StopLoop(f)
<1>1. /\ stack \in Seq(Frame) /\ stack # <<>> /\ Top.at = Mgr
      /\ StackInv /\ Goto(F("stopEach", Mgr))
      /\ TypeOK
  BY DEF AllInv, TypeOK, Stop, AtScript, At
<1>2. ~running'[Mgr]
  BY <1>1 DEF Stop, TypeOK, Scripts
<1>3. \A f \in Below : ~StopLoop(f)
  BY <1>1, NoLoopBelow
<1>4. PICK f : f = F("stopEach", Mgr)
  OBVIOUS
<1>5. f.pc = "stopEach" /\ f.i = 0
  BY <1>4, FrameFields
<1>6. Expected(f)'
  BY <1>2, <1>5 DEF Expected, Silent, Halted
<1> QED BY <1>1, <1>2, <1>3, <1>4, <1>6, GotoOn

(* Who is unsubscribed is not listened to, and nobody else comes in. *)
LEMMA TaskDeaf ==
    ASSUME TypeOK, NoDuplicates, NEW l \in Logics, subs' = WithoutTask(subs, l)
    PROVE  Deaf(l)' /\ \A m : Deaf(m) => Deaf(m)'
<1> DEFINE r == Unsubscribed(subs, Sub(l, "stop"))
<1>0. subs \in Seq(Subscription) /\ IsInjective(subs)
  BY DEF TypeOK, NoDuplicates
<1>1. Sub(l, "stop") \in Subscription /\ Sub(l, "interrupt") \in Subscription
  BY SubscriptionTypes
<1>2. r \in Seq(Subscription) /\ IsInjective(r) /\ ~IsSubscribing(r, Sub(l, "stop"))
  BY <1>0, <1>1, UnsubscribedProperties
<1>3. subs' = Unsubscribed(r, Sub(l, "interrupt"))
  BY DEF WithoutTask
<1> HIDE DEF r
<1>4. ~IsSubscribing(subs', Sub(l, "interrupt"))
  BY <1>1, <1>2, <1>3, UnsubscribedProperties
<1>5. ~IsSubscribing(subs', Sub(l, "stop"))
  BY <1>1, <1>2, <1>3, UnsubscribedHolds
<1>6. \A x : IsSubscribing(subs', x) => IsSubscribing(subs, x)
  BY <1>0, TaskListHolds
<1> QED BY <1>4, <1>5, <1>6 DEF Deaf, Sub

(* The task that a loop over the list comes to. *)
LEMMA NextTask ==
    ASSUME TypeOK, stack # <<>>
    PROVE  /\ Top \in Frame /\ Top.i \in Nat /\ Len(todo) \in Nat
           /\ ~LoopDone => /\ Top.i + 1 \in DOMAIN todo /\ LoopTask = todo[Top.i + 1]
                           /\ LoopTask \in Logics
           /\ Step(Top).pc = Top.pc /\ Step(Top).at = Top.at /\ Step(Top).i = Top.i + 1
<1>1. Top \in Frame /\ Top.i \in Nat
  BY TopFrame DEF TypeOK, Frame
<1>2. ~LoopDone => Top.i + 1 \in DOMAIN todo
  BY <1>1, TodoTask DEF LoopDone
<1> QED BY <1>1, <1>2, TodoTask, LoopTaskIsLogic, FrameFields DEF LoopTask

(* A loop that is over has done with all of the list, and one pass more    *)
(* does with one task more.                                                *)
LEMMA LoopRange ==
    ASSUME NEW i \in Nat, NEW n \in Nat
    PROVE  /\ i >= n => 1..n \subseteq 1..i
           /\ \A k \in 1..(i + 1) : k \in 1..i \/ k = i + 1
OBVIOUS

(* One pass of the loop of Stop. *)
LEMMA StopEachOn ==
    ASSUME AllInv, StopEach
    PROVE  StackInv'
<1>1. /\ stack \in Seq(Frame) /\ stack # <<>> /\ Top.pc = "stopEach"
      /\ TypeOK /\ NoDuplicates /\ StackInv /\ UNCHANGED <<running, cfg>>
  BY DEF AllInv, TypeOK, StopEach, At, manager
<1>2. \A f \in Below : ~StopLoop(f)
  BY <1>1, NoLoopBelow
<1>3. ~running[Mgr] /\ Silent(Top.i) /\ Halted(Top.i)
  BY <1>1 DEF StackInv, Expected
<1>4. CASE LoopDone
  <2>1. Goto(F("publishStop", Mgr)) /\ UNCHANGED subs
    BY <1>4 DEF StopEach
  <2>2. PICK f : f = F("publishStop", Mgr)
    OBVIOUS
  <2>3. Silent(Len(todo)) /\ Halted(Len(todo))
    BY <1>1, <1>3, <1>4, NextTask, LoopRange DEF Silent, Halted, LoopDone
  <2>4. Silent(Len(todo))' /\ Halted(Len(todo))'
    BY <1>1, <2>1, <2>3 DEF Silent, Halted, Deaf, Sub, todo
  <2>5. Expected(f)'
    BY <1>1, <1>3, <2>2, <2>4, FrameFields DEF Expected
  <2> QED BY <1>1, <1>2, <2>1, <2>2, <2>5, GotoOn
<1>5. CASE ~LoopDone
  <2>1. subs' = WithoutTask(subs, LoopTask) /\ Call(Step(Top), F("Stop", LoopTask))
    BY <1>5 DEF StopEach
  <2>2. PICK f, g : f = Step(Top) /\ g = F("Stop", LoopTask)
    OBVIOUS
  <2>3. PICK l \in Logics, i \in Nat : l = LoopTask /\ i = Top.i /\ i + 1 \in DOMAIN todo
                                       /\ l = todo[i + 1]
    BY <1>1, <1>5, NextTask
  <2>4. f.pc = "stopEach" /\ f.i = i + 1 /\ g.pc = "Stop" /\ g.at = l
    BY <1>1, <2>2, <2>3, NextTask, FrameFields
  <2>5. Deaf(l)' /\ \A m : Deaf(m) => Deaf(m)'
    BY <1>1, <2>1, <2>3, TaskDeaf
  <2>6. Silent(i + 1)'
    BY <1>1, <1>3, <2>3, <2>5, LoopRange DEF Silent, todo
  <2>7. Halted(i)'
    BY <1>1, <1>3, <2>3 DEF Halted, todo
  <2>8. StoppedBy(g, f)'
    <3>1. f.i - 1 = i
      BY <2>4
    <3>2. (f.i \in DOMAIN todo /\ g.at = todo[f.i])'
      BY <1>1, <2>3, <2>4 DEF todo
    <3> QED BY <1>1, <1>3, <2>4, <2>6, <2>7, <3>1, <3>2 DEF StoppedBy
  <2>9. Expected(g)'
    BY <2>4 DEF Expected
  <2> QED BY <1>1, <1>2, <2>1, <2>2, <2>4, <2>8, <2>9, CallOn
<1> QED BY <1>4, <1>5

(* One pass of the first loop of stopAllTaskSilently. *)
LEMMA UnsubscribeAllOn ==
    ASSUME AllInv, UnsubscribeAll
    PROVE  StackInv'
<1>1. /\ stack \in Seq(Frame) /\ stack # <<>> /\ Top.pc = "unsubscribeAll"
      /\ TypeOK /\ NoDuplicates /\ StackInv /\ UNCHANGED <<running, cfg>>
  BY DEF AllInv, TypeOK, UnsubscribeAll, At, manager
<1>2. \A f \in Below : ~StopLoop(f)
  BY <1>1, NoLoopBelow
<1>3. Silent(Top.i)
  BY <1>1 DEF StackInv, Expected
<1>4. CASE LoopDone
  <2>1. Goto(F("stopAll", Mgr)) /\ UNCHANGED subs
    BY <1>4 DEF UnsubscribeAll
  <2>2. PICK f : f = F("stopAll", Mgr)
    OBVIOUS
  <2>3. Silent(Len(todo))
    BY <1>1, <1>3, <1>4, NextTask, LoopRange DEF Silent, LoopDone
  <2>4. Silent(Len(todo))' /\ Halted(0)'
    BY <1>1, <2>1, <2>3 DEF Silent, Halted, Deaf, Sub, todo
  <2>5. Expected(f)'
    BY <2>2, <2>4, FrameFields DEF Expected
  <2> QED BY <1>1, <1>2, <2>1, <2>2, <2>5, GotoOn
<1>5. CASE ~LoopDone
  <2>1. subs' = WithoutTask(subs, LoopTask) /\ Goto(Step(Top))
    BY <1>5 DEF UnsubscribeAll
  <2>2. PICK f : f = Step(Top)
    OBVIOUS
  <2>3. PICK l \in Logics, i \in Nat : l = LoopTask /\ i = Top.i /\ i + 1 \in DOMAIN todo
                                       /\ l = todo[i + 1]
    BY <1>1, <1>5, NextTask
  <2>4. f.pc = "unsubscribeAll" /\ f.i = i + 1
    BY <1>1, <2>2, <2>3, NextTask
  <2>5. Deaf(l)' /\ \A m : Deaf(m) => Deaf(m)'
    BY <1>1, <2>1, <2>3, TaskDeaf
  <2>6. Silent(i + 1)'
    BY <1>1, <1>3, <2>3, <2>5, LoopRange DEF Silent, todo
  <2>7. Expected(f)'
    BY <2>4, <2>6 DEF Expected
  <2> QED BY <1>1, <1>2, <2>1, <2>2, <2>7, GotoOn
<1> QED BY <1>4, <1>5

(* One pass of the second, which stops the tasks that run. *)
LEMMA StopAllOn ==
    ASSUME AllInv, StopAll
    PROVE  StackInv'
<1>1. /\ stack \in Seq(Frame) /\ stack # <<>> /\ Top.pc = "stopAll"
      /\ TypeOK /\ StackInv /\ UNCHANGED <<running, cfg, subs>>
  BY DEF AllInv, TypeOK, StopAll, At, manager
<1>2. \A f \in Below : ~StopLoop(f)
  BY <1>1, NoLoopBelow
<1>3. Silent(Len(todo)) /\ Halted(Top.i)
  BY <1>1 DEF StackInv, Expected
<1>4. \A n : (Silent(n) => Silent(n)') /\ (Halted(n) => Halted(n)')
  BY <1>1 DEF Silent, Halted, Deaf, Sub, todo
<1>0. todo' = todo
  BY <1>1 DEF todo
<1>5. CASE LoopDone
  <2>1. Goto(F("subscribeAll", Mgr))
    BY <1>5 DEF StopAll
  <2>2. PICK f : f = F("subscribeAll", Mgr)
    OBVIOUS
  <2>3. Halted(Len(todo))
    BY <1>1, <1>3, <1>5, NextTask, LoopRange DEF Halted, LoopDone
  <2>4. Halted(Len(todo))'
    BY <1>0, <1>4, <2>3
  <2>5. Expected(f)'
    BY <2>2, <2>4, FrameFields DEF Expected
  <2> QED BY <1>1, <1>2, <2>1, <2>2, <2>5, GotoOn
<1>6. CASE ~LoopDone
  <2>1. PICK f, g : f = Step(Top) /\ g = F("Stop", LoopTask)
    OBVIOUS
  <2>2. PICK l \in Logics, i \in Nat : l = LoopTask /\ i = Top.i /\ i + 1 \in DOMAIN todo
                                       /\ l = todo[i + 1]
    BY <1>1, <1>6, NextTask
  <2>3. f.pc = "stopAll" /\ f.i = i + 1 /\ g.pc = "Stop" /\ g.at = l
    BY <1>1, <2>1, <2>2, NextTask, FrameFields
  <2>4. Silent(Len(todo))'
    BY <1>0, <1>3, <1>4
  <2>5. CASE running[l]
    <3>1. Call(f, g)
      BY <1>6, <2>1, <2>2, <2>5 DEF StopAll
    <3>2. Halted(i)'
      BY <1>3, <1>4, <2>2
    <3>3. Silent(i + 1)
      <4>1. i + 1 <= Len(todo)
        BY <1>1, <2>2, TodoTask
      <4>2. 1..(i + 1) \subseteq 1..Len(todo)
        BY <1>1, <4>1, TodoTask
      <4> QED BY <1>3, <4>2 DEF Silent
    <3>4. StoppedBy(g, f)'
      <4>1. f.i - 1 = i
        BY <2>3
      <4>2. (f.i \in DOMAIN todo /\ g.at = todo[f.i])'
        BY <1>1, <2>2, <2>3 DEF todo
      <4> QED BY <1>4, <2>3, <2>4, <3>2, <3>3, <4>1, <4>2 DEF StoppedBy
    <3>5. Expected(g)'
      BY <2>3 DEF Expected
    <3> QED BY <1>1, <1>2, <2>3, <3>1, <3>4, <3>5, CallOn
  <2>6. CASE ~running[l]
    <3>1. Goto(f)
      BY <1>6, <2>1, <2>2, <2>6 DEF StopAll
    <3>2. Halted(i + 1)
      BY <1>3, <2>2, <2>6, LoopRange DEF Halted
    <3>3. Expected(f)'
      BY <1>4, <2>3, <2>4, <3>2 DEF Expected
    <3> QED BY <1>1, <1>2, <3>1, <3>3, GotoOn
  <2> QED BY <2>5, <2>6
<1> QED BY <1>5, <1>6

(* One pass of the third, which subscribes. *)
LEMMA SubscribeAllOn ==
    ASSUME AllInv, SubscribeAll
    PROVE  StackInv'
<1>1. /\ stack \in Seq(Frame) /\ stack # <<>> /\ Top.pc = "subscribeAll"
      /\ TypeOK /\ StackInv /\ UNCHANGED <<running, cfg>>
  BY DEF AllInv, TypeOK, SubscribeAll, At, manager
<1>2. \A f \in Below : ~StopLoop(f)
  BY <1>1, NoLoopBelow
<1>3. Halted(Len(todo))'
  <2>1. Halted(Len(todo))
    BY <1>1 DEF StackInv, Expected
  <2> QED BY <1>1, <2>1 DEF Halted, todo
<1>4. \/ Goto(F("pick", Mgr)) \/ Goto(Step(Top))
  BY DEF SubscribeAll
<1>5. ASSUME NEW f, Goto(f), f = F("pick", Mgr) \/ f = Step(Top)
      PROVE  StackInv'
  <2>1. f.pc \in {"pick", "subscribeAll"}
    BY <1>1, <1>5, NextTask, FrameFields
  <2>2. Expected(f)'
    BY <1>3, <2>1 DEF Expected
  <2> QED BY <1>1, <1>2, <1>5, <2>2, GotoOn
<1> QED BY <1>4, <1>5

(* Every step keeps the invariant of the stack, ... *)
LEMMA StackStep == AllInv /\ [Next]_vars => StackInv'
<1> SUFFICES ASSUME AllInv, [Next]_vars PROVE StackInv'
  OBVIOUS
<1>0. TypeOK
  BY DEF AllInv
<1>1. CASE stack = <<>>
  <2>1. CASE UNCHANGED stack
    BY <1>1, <2>1 DEF StackInv, Below, Deeper
  <2>2. ASSUME NEW f, Begin(f), Free(f)
        PROVE  StackInv'
    BY <2>2, NothingExpected, BeginOn
  <2>3. ASSUME NEW f, NEW g, stack' = <<f, g>>, f.pc \in {"accept", "buttonOff"}, Free(g)
        PROVE  StackInv'
    BY <2>3, NothingExpected, BeginTwoOn
  <2>4. CASE WakeWaitB
    <3>1. PICK f : f = F("waitB", Mgr)
      OBVIOUS
    <3>2. Expected(f)'
      BY <3>1, FrameFields DEF Expected
    <3> QED BY <2>4, <3>1, <3>2, BeginOn DEF WakeWaitB
  <2> QED BY <1>0, <1>1, <2>1, <2>2, <2>3, <2>4, BetweenSteps
<1>2. CASE stack # <<>>
  <2>1. CASE UNCHANGED vars
    <3>1. UNCHANGED <<running, cfg, subs, stack>>
      BY <2>1 DEF vars, manager
    <3>2. \A n : (Silent(n) => Silent(n)') /\ (Halted(n) => Halted(n)')
      BY <3>1 DEF Silent, Halted, Deaf, Sub, todo
    <3>3. todo' = todo /\ Below' = Below /\ Deeper' = Deeper /\ Top' = Top
      BY <3>1 DEF todo, Below, Deeper, Top
    <3>4. Expected(Top)'
      BY <1>2, <3>1, <3>2, <3>3 DEF AllInv, StackInv, Expected
    <3>5. ASSUME NEW f \in Below, StopLoop(f)
          PROVE  StoppedBy(Top, f)'
      <4>1. StoppedBy(Top, f)
        BY <3>5 DEF AllInv, StackInv
      <4> QED BY <3>1, <3>2, <3>3, <4>1 DEF StoppedBy
    <3> QED BY <3>3, <3>4, <3>5 DEF AllInv, StackInv, StopLoop
  <2> QED
    BY <1>0, <1>2, <2>1, BurstSteps, FreeStepOn, StartOn, LogicStopOn, PublishStopOn, StopOn,
       StopEachOn, UnsubscribeAllOn, StopAllOn, SubscribeAllOn
<1> QED BY <1>1, <1>2

(* ... and all that is known. *)
LEMMA AllAlways == Spec => []AllInv
<1>1. Init => AllInv
  <2> SUFFICES ASSUME Init PROVE AllInv
    OBVIOUS
  <2>1. /\ subs = <<>> /\ stack = <<>> /\ ~btn[Mgr] /\ ~running[Mgr]
    BY DEF Init, Forms, Scripts
  <2>2. \A e : ~IsSubscribing(subs, e)
    BY <2>1 DEF IsSubscribing, Contains
  <2>3. Below = {} /\ Called = {} /\ Deeper = {}
    BY <2>1 DEF Below, Called, Deeper
  <2>4. NoDuplicates
    BY <2>1 DEF NoDuplicates, IsInjective
  <2> QED BY <2>1, <2>2, <2>3, <2>4, TypeInit
          DEF AllInv, FormListens, Shape, NotStopping, ListensOrRefreshes, At, StackInv
<1>2. AllInv /\ [Next]_vars => AllInv'
  BY TypeStep, NoDuplicatesStep, FormListensStep, ShapeStep, NotStoppingStep, ListensStep,
     StackStep DEF AllInv
<1> QED BY <1>1, <1>2, PTL DEF Spec

(* When the manager tells its form that it stopped, all that Stop is there *)
(* for is done at once, whatever the tasks published meanwhile: the        *)
(* manager is off, no task of its list runs, and it listens to none.       *)
THEOREM StopIsComplete == Spec => []StopLeavesNothing
<1>1. AllInv => StopLeavesNothing
  <2> SUFFICES ASSUME AllInv, AtScript("publishStop", Mgr), NEW k \in DOMAIN todo
               PROVE  /\ ~running[Mgr] /\ ~running[todo[k]]
                      /\ \A ev \in {"stop", "interrupt"} : ~IsSubscribing(subs, Sub(todo[k], ev))
    BY DEF StopLeavesNothing, AllInv, StackInv, Expected, AtScript, At
  <2>1. ~running[Mgr] /\ Silent(Len(todo)) /\ Halted(Len(todo))
    BY DEF AllInv, StackInv, Expected, AtScript, At
  <2>2. k \in 1..Len(todo)
    BY TodoTask DEF AllInv
  <2> QED BY <2>1, <2>2 DEF Silent, Halted, Deaf
<1> QED BY <1>1, AllAlways, PTL

(* checkNextTask comes to choose a task only when none of the list runs -  *)
(* not even one that its own form or the manager's earlier choice started  *)
(* - and when the manager will hear of each of them.                       *)
THEOREM ChoiceIsAlone == Spec => []ChoosesAlone
<1>1. AllInv => ChoosesAlone
  <2> SUFFICES ASSUME AllInv, At("pick"), NEW k \in DOMAIN todo
               PROVE  /\ ~running[todo[k]]
                      /\ \A ev \in {"stop", "interrupt"} : IsSubscribing(subs, Sub(todo[k], ev))
    BY DEF ChoosesAlone
  <2>1. Halted(Len(todo)) /\ \A l \in Listed : Listening(l)
    BY DEF AllInv, StackInv, Expected, At, ListensOrRefreshes
  <2>2. k \in 1..Len(todo)
    BY TodoTask DEF AllInv
  <2> QED BY <2>1, <2>2 DEF Halted, Listed, Listening
<1> QED BY <1>1, AllAlways, PTL

-----------------------------------------------------------------------------
(* Whom the manager listens to, when no list goes on when all is done.     *)

(* A loop of Stop that will yet unsubscribe the task. *)
WillUnsubscribe(f, l) == f.pc = "stopEach" /\ \E k \in DOMAIN todo : k > f.i /\ todo[k] = l

ListensToListed ==
    \A l \in Logics : ~Deaf(l) =>
        l \in Listed /\ (running[Mgr] \/ \E f \in Frames : WillUnsubscribe(f, l))

OnlyWhileOn ==
    /\ cfg.stopOnDone /\ waitB = 0
    /\ \A f \in Frames :
          f.pc # "waitB" /\ (Refreshes(f) \/ f.pc = "pick" => running[Mgr])
    /\ ListensToListed

OffInv == EndsWhenDone => OnlyWhileOn

(* Only the loop that subscribes makes the manager listen to a task. *)
LEMMA OnlySubscribeAll ==
    ASSUME TypeOK, NoDuplicates, [Next]_vars, NEW l \in Logics, Deaf(l), ~Deaf(l)'
    PROVE  SubscribeAll /\ ~LoopDone /\ l = LoopTask
<1>0. subs \in Seq(Subscription) /\ Mgr \in Scripts
  BY DEF TypeOK, Scripts
<1>1. ~UNCHANGED subs
  BY DEF Deaf, Sub
<1>2. ASSUME NEW f \in Forms, OpenForm(f) \/ CloseForm(f) \/ ClickStart(f)
      PROVE  FALSE
  <2>1. FormSub(f) \in Subscription
    BY SubscriptionTypes
  <2>2. subs' \in {subs, Subscribed(subs, FormSub(f)), Unsubscribed(subs, FormSub(f))}
    BY <1>2 DEF OpenForm, CloseForm, ClickStart
  <2>3. \A ev : Sub(l, ev) # FormSub(f)
    BY SubscriptionFields
  <2>4. \A ev : IsSubscribing(subs', Sub(l, ev)) => IsSubscribing(subs, Sub(l, ev))
    BY <1>0, <2>1, <2>2, <2>3, SubscribedHolds, UnsubscribedHolds
  <2> QED BY <2>4 DEF Deaf, Sub
<1>3. CASE StopEach \/ UnsubscribeAll
  <2>1. ~LoopDone /\ subs' = WithoutTask(subs, LoopTask) /\ stack # <<>>
    BY <1>1, <1>3 DEF StopEach, UnsubscribeAll, At
  <2>2. LoopTask \in Logics
    BY <2>1, NextTask
  <2> QED BY <2>1, <2>2, TaskDeaf
<1>4. CASE SubscribeAll
  <2>1. ~LoopDone /\ subs' = WithTask(subs, LoopTask) /\ stack # <<>>
    BY <1>1, <1>4 DEF SubscribeAll, At
  <2>2. LoopTask \in Logics
    BY <2>1, NextTask
  <2>3. PICK ev \in {"stop", "interrupt"} : IsSubscribing(subs', Sub(l, ev))
    BY DEF Deaf, Sub
  <2>4. ~IsSubscribing(subs, Sub(l, ev))
    BY <2>3 DEF Deaf
  <2>5. PICK m \in Logics : m = LoopTask
    BY <2>2
  <2>6. Sub(l, ev) \in {Sub(m, "stop"), Sub(m, "interrupt")}
    BY <1>0, <2>1, <2>3, <2>4, <2>5, TaskListHolds
  <2>7. l = m
    BY <2>6, SubscriptionFields
  <2> QED BY <1>4, <2>1, <2>5, <2>7
<1>5. ASSUME NEW x \in Logics,
             \/ LogicStart(x) \/ LogicBusy(x) \/ LogicPass(x) \/ LogicPause(x) \/ LogicStop(x)
             \/ LogicWake(x) \/ PublishInterrupt(x) \/ OnTaskInterrupt(x)
             \/ ReadyChanges(x) \/ TimeChanges(x) \/ StopMessage(x)
      PROVE  UNCHANGED subs
  BY <1>5 DEF LogicStart, LogicBusy, LogicPass, LogicPause, LogicStop, LogicWake,
              PublishInterrupt, OnTaskInterrupt, ReadyChanges, TimeChanges, StopMessage
<1>6. ASSUME \/ \E s \in Scripts : PublishStop(s)
             \/ \E f \in Forms : ClickStop(f)
             \/ Start \/ Stop \/ StopAll \/ Pick \/ WaitForTask \/ AllDone \/ WaitForAny
             \/ WakeWaitA \/ WakeWaitB
      PROVE  UNCHANGED subs
  BY <1>6 DEF PublishStop, ClickStop, Start, Stop, StopAll, Pick, WaitForTask, AllDone,
              WaitForAny, WakeWaitA, WakeWaitB
<1>7. ASSUME \/ StopGlobalTask \/ ContinueGlobalTask \/ Accept \/ Encounter
             \/ EncounterOver \/ ButtonOff \/ LifeChanges \/ ThrottleExpires \/ UNCHANGED vars
      PROVE  UNCHANGED subs
  BY <1>7 DEF StopGlobalTask, ContinueGlobalTask, Accept, Encounter, EncounterOver,
              ButtonOff, LifeChanges, ThrottleExpires, vars
<1> QED
  BY <1>1, <1>2, <1>3, <1>4, <1>5, <1>6, <1>7 DEF Next, Burst, Wake, User, Game

(* The frame of the loop of Stop is gone only when the loop is over. *)
LEMMA StopLoopKept ==
    ASSUME TypeOK, [Next]_vars, ~StopEach, NEW f \in Frames, f.pc = "stopEach"
    PROVE  f \in Frames'
<1>0. stack \in Seq(Frame) /\ stack # <<>>
  BY NoFrames DEF TypeOK
<1>1. Frames = Below \cup {Top}
  BY <1>0, SomeFrames
<1>2. CASE f \in Below
  <2>1. StackMoves \/ UNCHANGED stack
    BY <1>0, EveryStepMoves
  <2>2. UNCHANGED stack => Frames' = Frames
    BY DEF Frames
  <2> QED BY <1>0, <1>2, <2>1, <2>2, MovesKeepBelow
<1>3. CASE f = Top
  <2>1. \A l \in Logics : ~LogicStart(l) /\ ~LogicBusy(l) /\ ~LogicPass(l) /\ ~LogicPause(l)
                          /\ ~LogicStop(l) /\ ~PublishInterrupt(l) /\ ~OnTaskInterrupt(l)
    BY <1>3 DEF LogicStart, LogicBusy, LogicPass, LogicPause, LogicStop,
                PublishInterrupt, OnTaskInterrupt, AtScript, At
  <2>2. /\ \A s \in Scripts : ~PublishStop(s)
        /\ ~Start /\ ~Stop /\ ~UnsubscribeAll /\ ~StopAll /\ ~SubscribeAll /\ ~Pick /\ ~WaitForTask
        /\ ~AllDone /\ ~WaitForAny /\ ~StopGlobalTask /\ ~ContinueGlobalTask /\ ~Accept /\ ~ButtonOff
    BY <1>3 DEF PublishStop, Start, Stop, UnsubscribeAll, StopAll, SubscribeAll, Pick, WaitForTask,
                AllDone, WaitForAny, StopGlobalTask, ContinueGlobalTask, Accept, ButtonOff,
                AtScript, At
  <2>3. ~Burst
    BY <2>1, <2>2 DEF Burst
  <2>4. /\ \A l \in Logics : ~LogicWake(l) /\ ~ReadyChanges(l) /\ ~TimeChanges(l) /\ ~StopMessage(l)
        /\ \A g \in Forms : ~OpenForm(g) /\ ~CloseForm(g) /\ ~ClickStart(g) /\ ~ClickStop(g)
        /\ ~WakeWaitA /\ ~WakeWaitB /\ ~Encounter /\ ~EncounterOver /\ ~LifeChanges
        /\ ~ThrottleExpires
    BY <1>0 DEF LogicWake, ReadyChanges, TimeChanges, StopMessage, OpenForm, CloseForm,
                ClickStart, ClickStop, WakeWaitA, WakeWaitB, Encounter, EncounterOver,
                LifeChanges, ThrottleExpires, Between
  <2>5. UNCHANGED stack
    BY <2>3, <2>4 DEF Next, Wake, User, Game, vars
  <2> QED BY <2>5 DEF Frames
<1> QED BY <1>1, <1>2, <1>3

(* Start, when the manager is off, finds it listening to nobody. *)
LEMMA OffStart ==
    ASSUME AllInv, EndsWhenDone, OnlyWhileOn, Start
    PROVE  OnlyWhileOn'
<1>1. /\ stack \in Seq(Frame) /\ stack # <<>> /\ Top.pc = "Start" /\ TypeOK /\ Shape
      /\ running \in [Scripts -> BOOLEAN] /\ Mgr \in Scripts
      /\ UNCHANGED <<subs, waitB>>
  BY DEF AllInv, TypeOK, Start, AtScript, At, Scripts, asleep
<1>2. Below = {} /\ Frames = {Top}
  BY <1>1, StartAlone, SomeFrames
<1>3. \A l : Deaf(l)' <=> Deaf(l)
  BY <1>1 DEF Deaf, Sub
<1>4. CASE running[Mgr]
  <2>1. Return /\ UNCHANGED <<running, cfg>>
    BY <1>4 DEF Start
  <2>2. Frames' = {}
    BY <1>1, <1>2, <2>1, ReturnFrames
  <2>3. ListensToListed'
    BY <1>3, <1>4, <2>1 DEF OnlyWhileOn, ListensToListed, Listed, todo
  <2> QED BY <1>1, <2>1, <2>2, <2>3 DEF OnlyWhileOn
<1>5. CASE ~running[Mgr]
  <2>1. \A l \in Logics : Deaf(l)
    BY <1>1, <1>2, <1>5 DEF OnlyWhileOn, ListensToListed, WillUnsubscribe
  <2>2. ListensToListed'
    BY <1>3, <2>1 DEF ListensToListed
  <2>3. cfg' \in Configs /\ cfg'.stopOnDone
    BY <1>5 DEF Start, EndsWhenDone
  <2>4. \/ Goto(F("unsubscribeAll", Mgr)) /\ running'[Mgr]
        \/ Goto(F("Stop", Mgr)) /\ UNCHANGED running
    BY <1>1, <1>5 DEF Start
  <2>5. CASE Goto(F("unsubscribeAll", Mgr)) /\ running'[Mgr]
    <3>1. Frames' = {F("unsubscribeAll", Mgr)}
      BY <1>1, <1>2, <2>5, GotoFrames
    <3> QED BY <1>1, <2>2, <2>3, <2>5, <3>1, FrameFields DEF OnlyWhileOn
  <2>6. CASE Goto(F("Stop", Mgr)) /\ UNCHANGED running
    <3>1. Frames' = {F("Stop", Mgr)}
      BY <1>1, <1>2, <2>6, GotoFrames
    <3> QED BY <1>1, <2>2, <2>3, <3>1, FrameFields DEF OnlyWhileOn, Refreshes
  <2> QED BY <2>4, <2>5, <2>6
<1> QED BY <1>4, <1>5

(* Only Stop lowers the flag of the manager. *)
LEMMA OnlyStop ==
    ASSUME TypeOK, [Next]_vars, ~Stop, running[Mgr]
    PROVE  running'[Mgr]
<1>0. running \in [Scripts -> BOOLEAN] /\ Mgr \in Scripts /\ Mgr \notin Logics
  BY ScriptAssumption DEF TypeOK, Scripts
<1>1. ASSUME NEW l \in Logics, LogicStart(l) \/ LogicStop(l)
      PROVE  running'[Mgr]
  <2>1. running' = running \/ \E b \in BOOLEAN : running' = [running EXCEPT ![l] = b]
    BY <1>1 DEF LogicStart, LogicStop
  <2> QED BY <1>0, <2>1
<1>2. Start => running' = running
  BY DEF Start
<1>3. ASSUME NEW l \in Logics,
             \/ LogicBusy(l) \/ LogicPass(l) \/ LogicPause(l)
             \/ LogicWake(l) \/ PublishInterrupt(l) \/ OnTaskInterrupt(l)
             \/ ReadyChanges(l) \/ TimeChanges(l) \/ StopMessage(l)
      PROVE  running' = running
  BY <1>3 DEF LogicBusy, LogicPass, LogicPause, LogicWake,
              PublishInterrupt, OnTaskInterrupt, ReadyChanges, TimeChanges, StopMessage
<1>4. ASSUME \/ \E s \in Scripts : PublishStop(s)
             \/ \E f \in Forms : OpenForm(f) \/ CloseForm(f) \/ ClickStart(f) \/ ClickStop(f)
             \/ StopEach \/ UnsubscribeAll \/ StopAll \/ SubscribeAll
             \/ Pick \/ WaitForTask \/ AllDone \/ WaitForAny \/ WakeWaitA \/ WakeWaitB
      PROVE  running' = running
  BY <1>4 DEF PublishStop, OpenForm, CloseForm, ClickStart, ClickStop, StopEach,
              UnsubscribeAll, StopAll, SubscribeAll, Pick, WaitForTask, AllDone,
              WaitForAny, WakeWaitA, WakeWaitB
<1>5. ASSUME \/ StopGlobalTask \/ ContinueGlobalTask \/ Accept \/ Encounter \/ ButtonOff
             \/ EncounterOver \/ LifeChanges \/ ThrottleExpires \/ UNCHANGED vars
      PROVE  running' = running
  BY <1>5 DEF StopGlobalTask, ContinueGlobalTask, Accept, Encounter, EncounterOver,
              ButtonOff, LifeChanges, ThrottleExpires, vars
<1> QED
  BY <1>1, <1>2, <1>3, <1>4, <1>5 DEF Next, Burst, Wake, User, Game

(* The publication of a task that calls the manager finds it on. *)
LEMMA CalledWhenOn ==
    ASSUME AllInv, OnlyWhileOn, NEW s \in Scripts, AtScript("publishStop", s),
           NEW k \in MatchesAfter(subs, Top.i, s, "stop"), subs[k].sub = "manager"
    PROVE  running[Mgr]
<1>1. /\ stack \in Seq(Frame) /\ stack # <<>> /\ Top.pc = "publishStop" /\ Top.at = s
      /\ TypeOK /\ StackInv /\ subs \in Seq(Subscription)
  BY DEF AllInv, TypeOK, AtScript, At
<1>2. k \in DOMAIN subs /\ subs[k].src = s /\ subs[k].ev = "stop"
  BY DEF MatchesAfter
<1>3. subs[k] \in Subscription /\ IsSubscribing(subs, subs[k])
  BY <1>1, <1>2, ElementOfSeq, LenProperties DEF IsSubscribing, Contains
<1>4. s \in Logics
  BY <1>2, <1>3 DEF AllInv, FormListens, Scripts
<1>5. subs[k] = Sub(s, "stop")
  BY <1>2, <1>3 DEF Subscription, Sub
<1>6. ~Deaf(s)
  BY <1>3, <1>5 DEF Deaf
<1>7. ASSUME NEW f \in Frames, WillUnsubscribe(f, s)
      PROVE  FALSE
  <2>1. StopLoop(f) /\ f \in Below
    BY <1>1, <1>7, SomeFrames DEF WillUnsubscribe, StopLoop
  <2> QED BY <1>1, <1>6, <2>1, NoLoopBelow
<1> QED BY <1>4, <1>6, <1>7 DEF OnlyWhileOn, ListensToListed

(* The loops of checkNextTask run only when the manager is on: a           *)
(* publication that calls it found it subscribed, and nobody wakes up in   *)
(* `while not anyTaskAvailable()'.                                         *)
LEMMA OffFrames ==
    ASSUME AllInv, EndsWhenDone, OnlyWhileOn, [Next]_vars, ~Start
    PROVE  \A f \in Frames' : f.pc # "waitB" /\ (Refreshes(f) \/ f.pc = "pick" => running'[Mgr])
<1> DEFINE Good(f) == f.pc # "waitB" /\ (Refreshes(f) \/ f.pc = "pick" => running'[Mgr])
<1> SUFFICES \A f \in Frames' : Good(f)
  OBVIOUS
<1>0. stack \in Seq(Frame) /\ TypeOK /\ StackInv /\ Shape
  BY DEF AllInv, TypeOK
<1>a. ASSUME NEW f, Free(f) \/ f.pc \in {"stopEach", "publishStop", "Stop", "accept", "buttonOff"}
      PROVE  Good(f)
  BY <1>a DEF Free, Refreshes
<1>b. ASSUME stack # <<>>, NEW f \in Below
      PROVE  Good(f)
  <2>1. f.pc # "waitB" /\ (Refreshes(f) \/ f.pc = "pick" => running[Mgr])
    BY <1>0, <1>b, SomeFrames DEF OnlyWhileOn
  <2>2. CASE Stop
    <3>1. ~StopLoop(f) /\ f.pc \in CallingPlaces
      BY <1>0, <2>2, StopOn DEF Shape
    <3> QED BY <3>1 DEF StopLoop, CallingPlaces, Refreshes
  <2>3. CASE ~Stop
    BY <1>0, <2>1, <2>3, OnlyStop
  <2> QED BY <2>2, <2>3
<1> HIDE DEF Good
<1>1. ASSUME stack # <<>>, NEW f, Goto(f), Good(f)
      PROVE  \A g \in Frames' : Good(g)
  BY <1>0, <1>1, <1>b, GotoFrames
<1>2. ASSUME stack # <<>>, NEW f, NEW g, Call(f, g), Good(f), Good(g)
      PROVE  \A h \in Frames' : Good(h)
  BY <1>0, <1>2, <1>b, CallFrames
<1>3. ASSUME stack # <<>>, Return
      PROVE  \A g \in Frames' : Good(g)
  BY <1>0, <1>3, <1>b, ReturnFrames
<1>4. ASSUME stack # <<>>, Top.pc \in {"unsubscribeAll", "stopAll", "subscribeAll"}
      PROVE  \A f : f.pc # "waitB" => Good(f)
  <2>1. running[Mgr]
    BY <1>0, <1>4, SomeFrames DEF OnlyWhileOn, Refreshes
  <2>2. running'[Mgr]
    BY <1>0, <1>4, <2>1, OnlyStop DEF Stop, AtScript, At
  <2> QED BY <2>2 DEF Good
<1>5. CASE stack = <<>>
  <2>1. CASE UNCHANGED stack
    BY <1>5, <2>1 DEF Frames
  <2>2. ASSUME NEW f, Begin(f), Free(f)
        PROVE  \A g \in Frames' : Good(g)
    BY <1>a, <2>2, BeginFrames
  <2>3. ASSUME NEW f, NEW g, stack' = <<f, g>>, f.pc \in {"accept", "buttonOff"}, Free(g)
        PROVE  \A h \in Frames' : Good(h)
    BY <1>a, <2>3, BeginTwoFrames
  <2>4. ~WakeWaitB
    BY DEF WakeWaitB, OnlyWhileOn
  <2> QED BY <1>0, <1>5, <2>1, <2>2, <2>3, <2>4, BetweenSteps DEF Good
<1>6. CASE stack # <<>>
  <2>1. CASE FreeStep
    <3>1. \A f : Free(f) => Good(f)
      BY <1>a
    <3> QED BY <1>1, <1>2, <1>3, <1>6, <2>1, <3>1 DEF FreeStep
  <2>2. CASE UNCHANGED vars
    <3>1. Frames' = Frames /\ running' = running
      BY <2>2 DEF vars, Frames
    <3> QED BY <3>1 DEF OnlyWhileOn, Good
  <2>3. CASE AllDone
    <3>1. Goto(F("Stop", Mgr))
      BY <2>3 DEF AllDone, OnlyWhileOn
    <3>2. Good(F("Stop", Mgr))
      BY <1>a, FrameFields
    <3> QED BY <1>1, <1>6, <3>1, <3>2
  <2>4. ~WaitForAny
    BY <1>0, <1>6, SomeFrames DEF WaitForAny, At, OnlyWhileOn
  <2>5. ASSUME NEW l \in Logics, LogicStop(l)
        PROVE  \A f \in Frames' : Good(f)
    <3>1. Return \/ Goto(F("publishStop", l))
      BY <2>5 DEF LogicStop
    <3>2. Good(F("publishStop", l))
      BY <1>a, FrameFields
    <3> QED BY <1>1, <1>3, <1>6, <3>1, <3>2
  <2>6. ASSUME NEW s \in Scripts, PublishStop(s)
        PROVE  \A f \in Frames' : Good(f)
    <3>1. Top \in Frame /\ Top.pc = "publishStop" /\ AtScript("publishStop", s)
      BY <1>0, <1>6, <2>6, TopFrame DEF PublishStop, AtScript, At
    <3>2. MatchesAfter(subs, Top.i, s, "stop") \subseteq Nat
      BY <1>0, MatchesAfterType DEF TypeOK
    <3>3. ASSUME NEW k \in MatchesAfter(subs, Top.i, s, "stop")
          PROVE  Good([Top EXCEPT !.i = k])
      <4>1. [Top EXCEPT !.i = k].pc = "publishStop"
        BY <3>1, <3>2, FrameFields
      <4> QED BY <1>a, <4>1
    <3>4. ASSUME NEW k \in MatchesAfter(subs, Top.i, s, "stop"), subs[k].sub = "manager"
          PROVE  Good(F("unsubscribeAll", Mgr))
      <4>1. running[Mgr]
        BY <3>1, <3>4, CalledWhenOn
      <4>2. running'[Mgr]
        BY <2>6, <4>1 DEF PublishStop
      <4> QED BY <4>2, FrameFields DEF Good
    <3> QED BY <1>1, <1>2, <1>3, <1>6, <2>6, <3>3, <3>4 DEF PublishStop, First
  <2>7. CASE Stop
    <3>1. Goto(F("stopEach", Mgr))
      BY <2>7 DEF Stop
    <3>2. Good(F("stopEach", Mgr))
      BY <1>a, FrameFields
    <3> QED BY <1>1, <1>6, <3>1, <3>2
  <2>8. CASE StopEach
    <3>1. Goto(F("publishStop", Mgr)) \/ Call(Step(Top), F("Stop", LoopTask))
      BY <2>8 DEF StopEach
    <3>2. Step(Top).pc = "stopEach"
      BY <1>0, <1>6, <2>8, NextTask DEF StopEach, At
    <3>3. Good(F("publishStop", Mgr)) /\ Good(Step(Top)) /\ Good(F("Stop", LoopTask))
      BY <1>a, <3>2, FrameFields
    <3> QED BY <1>1, <1>2, <1>6, <3>1, <3>3
  <2>9. CASE UnsubscribeAll \/ StopAll \/ SubscribeAll
    <3>1. /\ Top.pc \in {"unsubscribeAll", "stopAll", "subscribeAll"} /\ Step(Top).pc = Top.pc
          /\ \/ Goto(Step(Top)) \/ Call(Step(Top), F("Stop", LoopTask))
             \/ \E pc \in {"stopAll", "subscribeAll", "pick"} : Goto(F(pc, Mgr))
      BY <1>0, <1>6, <2>9, NextTask DEF UnsubscribeAll, StopAll, SubscribeAll, At
    <3>2. /\ Good(Step(Top)) /\ Good(F("Stop", LoopTask))
          /\ \A pc \in {"stopAll", "subscribeAll", "pick"} : Good(F(pc, Mgr))
      BY <1>4, <1>6, <3>1, FrameFields
    <3> QED BY <1>1, <1>2, <1>6, <3>1, <3>2
  <2> QED
    BY <1>0, <1>6, <2>1, <2>2, <2>3, <2>4, <2>5, <2>6, <2>7, <2>8, <2>9, BurstSteps DEF Good
<1> QED BY <1>5, <1>6 DEF Good

(* Who is listened to is in the list, and when Stop has begun it comes to  *)
(* each of them.                                                           *)
LEMMA OffListens ==
    ASSUME AllInv, EndsWhenDone, OnlyWhileOn, [Next]_vars, ~Start
    PROVE  ListensToListed'
<1> SUFFICES ASSUME NEW l \in Logics, ~Deaf(l)'
             PROVE  (l \in Listed /\ (running[Mgr] \/ \E f \in Frames : WillUnsubscribe(f, l)))'
  BY DEF ListensToListed
<1>0. stack \in Seq(Frame) /\ TypeOK /\ NoDuplicates /\ StackInv
  BY DEF AllInv, TypeOK
<1>1. UNCHANGED cfg
  BY <1>0, OnlyStart
<1>2. Listed' = Listed /\ \A f : WillUnsubscribe(f, l)' <=> WillUnsubscribe(f, l)
  BY <1>1 DEF Listed, WillUnsubscribe, todo
<1>3. CASE Deaf(l)
  <2>1. SubscribeAll /\ ~LoopDone /\ l = LoopTask
    BY <1>0, <1>3, OnlySubscribeAll
  <2>2. stack # <<>> /\ Refreshes(Top) /\ running' = running
    BY <2>1 DEF SubscribeAll, At, Refreshes
  <2>3. l \in Listed
    BY <1>0, <2>1, <2>2, NextTask DEF Listed
  <2>4. running[Mgr]
    BY <1>0, <2>2, SomeFrames DEF OnlyWhileOn
  <2> QED BY <1>2, <2>2, <2>3, <2>4
<1>4. CASE ~Deaf(l)
  <2>1. l \in Listed /\ (running[Mgr] \/ \E f \in Frames : WillUnsubscribe(f, l))
    BY <1>4 DEF OnlyWhileOn, ListensToListed
  <2>2. CASE Stop
    <3>1. F("stopEach", Mgr) \in Frames'
      BY <1>0, <2>2, GotoFrames DEF Stop, AtScript, At
    <3>2. PICK k \in DOMAIN todo : todo[k] = l
      BY <2>1 DEF Listed
    <3>3. k > 0
      BY <1>0, <3>2, TodoTask
    <3>4. WillUnsubscribe(F("stopEach", Mgr), l)
      BY <3>2, <3>3, FrameFields DEF WillUnsubscribe
    <3>5. PICK f : f = F("stopEach", Mgr)
      OBVIOUS
    <3> QED BY <1>2, <2>1, <3>1, <3>4, <3>5
  <2>3. CASE running[Mgr] /\ ~Stop
    BY <1>0, <1>2, <2>1, <2>3, OnlyStop
  <2>4. ASSUME NEW f \in Frames, WillUnsubscribe(f, l)
        PROVE  \E g \in Frames' : WillUnsubscribe(g, l)
    <3>1. CASE ~StopEach
      BY <1>0, <2>4, <3>1, StopLoopKept DEF WillUnsubscribe
    <3>2. CASE StopEach
      <4>1. stack # <<>> /\ Top.pc = "stopEach"
        BY <3>2 DEF StopEach, At
      <4>2. f = Top
        <5>1. \A g \in Below : ~StopLoop(g)
          BY <1>0, <4>1, NoLoopBelow
        <5> QED BY <1>0, <2>4, <4>1, <5>1, SomeFrames DEF WillUnsubscribe, StopLoop
      <4>3. PICK k \in DOMAIN todo : k > Top.i /\ todo[k] = l
        BY <2>4, <4>2 DEF WillUnsubscribe
      <4>4. k \in Nat /\ k <= Len(todo) /\ Top.i \in Nat /\ Len(todo) \in Nat
        BY <1>0, <4>1, <4>3, TodoTask, NextTask
      <4>5. ~LoopDone
        BY <4>3, <4>4 DEF LoopDone
      <4>6. subs' = WithoutTask(subs, LoopTask) /\ Call(Step(Top), F("Stop", LoopTask))
        BY <3>2, <4>5 DEF StopEach
      <4>7. PICK m \in Logics : m = LoopTask /\ m = todo[Top.i + 1]
        BY <1>0, <4>1, <4>5, NextTask
      <4>8. Deaf(m)'
        BY <1>0, <4>6, <4>7, TaskDeaf
      <4>9. k # Top.i + 1
        BY <4>3, <4>7, <4>8
      <4>10. k > Top.i + 1
        BY <4>3, <4>4, <4>9
      <4>11. WillUnsubscribe(Step(Top), l)
        BY <1>0, <4>1, <4>3, <4>10, NextTask DEF WillUnsubscribe
      <4>12. Step(Top) \in Frames'
        BY <1>0, <4>1, <4>6, CallFrames
      <4> QED BY <4>11, <4>12
    <3> QED BY <3>1, <3>2
  <2> QED BY <1>2, <2>1, <2>2, <2>3, <2>4
<1> QED BY <1>3, <1>4

(* Every step keeps it. *)
LEMMA OffStep == AllInv /\ OffInv /\ [Next]_vars => OffInv'
<1> SUFFICES ASSUME AllInv, OnlyWhileOn, EndsWhenDone, [Next]_vars PROVE OnlyWhileOn'
  BY DEF OffInv, EndsWhenDone
<1>0. TypeOK
  BY DEF AllInv
<1>1. CASE Start
  BY <1>1, OffStart
<1>2. CASE ~Start
  <2>1. UNCHANGED cfg
    BY <1>0, <1>2, OnlyStart
  <2>2. UNCHANGED waitB
    <3>1. ~WaitForAny /\ ~WakeWaitB
      <4>1. stack \in Seq(Frame)
        BY <1>0 DEF TypeOK
      <4> QED BY <4>1, SomeFrames DEF WaitForAny, WakeWaitB, At, OnlyWhileOn
    <3>2. ASSUME NEW l \in Logics,
                 \/ LogicStart(l) \/ LogicBusy(l) \/ LogicPass(l) \/ LogicPause(l) \/ LogicStop(l)
                 \/ LogicWake(l) \/ PublishInterrupt(l) \/ OnTaskInterrupt(l)
                 \/ ReadyChanges(l) \/ TimeChanges(l) \/ StopMessage(l)
          PROVE  UNCHANGED waitB
      BY <3>2 DEF LogicStart, LogicBusy, LogicPass, LogicPause, LogicStop, LogicWake, Pause, asleep,
                  PublishInterrupt, OnTaskInterrupt, ReadyChanges, TimeChanges, StopMessage
    <3>3. ASSUME \/ \E s \in Scripts : PublishStop(s)
                 \/ \E f \in Forms : OpenForm(f) \/ CloseForm(f) \/ ClickStart(f) \/ ClickStop(f)
                 \/ Stop \/ StopEach \/ UnsubscribeAll \/ StopAll \/ SubscribeAll
                 \/ Pick \/ WaitForTask \/ AllDone \/ WakeWaitA
          PROVE  UNCHANGED waitB
      BY <3>3 DEF PublishStop, OpenForm, CloseForm, ClickStart, ClickStop, Stop, StopEach, asleep,
                  UnsubscribeAll, StopAll, SubscribeAll, Pick, WaitForTask, AllDone, WakeWaitA
    <3>4. ASSUME \/ StopGlobalTask \/ ContinueGlobalTask \/ Accept \/ Encounter \/ ButtonOff
                 \/ EncounterOver \/ LifeChanges \/ ThrottleExpires \/ UNCHANGED vars
          PROVE  UNCHANGED waitB
      BY <3>4 DEF StopGlobalTask, ContinueGlobalTask, Accept, Encounter, EncounterOver, asleep,
                  ButtonOff, LifeChanges, ThrottleExpires, vars
    <3> QED BY <1>2, <3>1, <3>2, <3>3, <3>4 DEF Next, Burst, Wake, User, Game
  <2>3. \A f \in Frames' : f.pc # "waitB" /\ (Refreshes(f) \/ f.pc = "pick" => running'[Mgr])
    BY <1>2, OffFrames
  <2>4. ListensToListed'
    BY <1>2, OffListens
  <2> QED BY <2>1, <2>2, <2>3, <2>4 DEF OnlyWhileOn, Refreshes
<1> QED BY <1>1, <1>2

(* Between bursts the manager listens to every task of its list while it   *)
(* runs, and - unless a list of the user's goes on when all is done - to   *)
(* none while it does not: whoever starts a task then, its end does not    *)
(* bring the assistant back.                                               *)
THEOREM ListensExactlyWhileRunning == Spec => []ListensWhileRunning
<1>1. Init => OffInv
  <2> SUFFICES ASSUME Init PROVE OnlyWhileOn
    BY DEF OffInv
  <2>1. subs = <<>> /\ stack = <<>> /\ waitB = 0 /\ cfg.stopOnDone
    BY DEF Init
  <2>2. \A l : Deaf(l)
    BY <2>1 DEF Deaf, IsSubscribing, Contains
  <2> QED BY <2>1, <2>2, NoFrames DEF OnlyWhileOn, ListensToListed
<1>2. AllInv /\ OffInv => ListensWhileRunning
  <2> SUFFICES ASSUME AllInv, OffInv, stack = <<>>, NEW k \in DOMAIN todo,
                      NEW ev \in {"stop", "interrupt"}
               PROVE  IF running[Mgr] THEN IsSubscribing(subs, Sub(todo[k], ev))
                      ELSE EndsWhenDone => ~IsSubscribing(subs, Sub(todo[k], ev))
    BY DEF ListensWhileRunning, Between
  <2>1. Frames = {}
    BY NoFrames
  <2>2. todo[k] \in Logics /\ todo[k] \in Listed
    BY TodoTask DEF AllInv, Listed
  <2>3. running[Mgr] => Listening(todo[k])
    BY <2>1, <2>2 DEF AllInv, ListensOrRefreshes
  <2>4. EndsWhenDone /\ ~running[Mgr] => Deaf(todo[k])
    BY <2>1, <2>2 DEF OffInv, OnlyWhileOn, ListensToListed
  <2> QED BY <2>3, <2>4 DEF Listening, Deaf
<1> QED BY <1>1, <1>2, AllAlways, OffStep, PTL DEF Spec
=============================================================================
