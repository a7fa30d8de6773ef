------------------------- MODULE TaskManager_proofs -------------------------
(***************************************************************************)
(* Invariants of TaskManager for every set of logics, every configuration  *)
(* and every behaviour of the user, the game and the encounters.           *)
(***************************************************************************)
EXTENDS TaskManager, SubscriberList_proofs

-----------------------------------------------------------------------------
(* Steps of the stack, and the frames of the loops in it. *)

LoopPlaces == {"loop", "pause"}
LoopFrame(l) == \E k \in DOMAIN stack : stack[k].at = l /\ stack[k].pc \in LoopPlaces

(* The innermost function of a burst is a frame. *)
LEMMA TopFrame ==
    ASSUME stack \in Seq(Frame), stack # <<>>
    PROVE  Top \in Frame /\ Len(stack) \in DOMAIN stack
<1>1. Len(stack) \in Nat \ {0} /\ DOMAIN stack = 1..Len(stack)
  BY EmptySeq, LenProperties
<1> QED BY <1>1, ElementOfSeq DEF Top

(* The frame of a call is a frame, wherever its loop begins. *)
LEMMA NewFrame ==
    ASSUME NEW pc \in Places, NEW s \in Scripts
    PROVE  /\ F(pc, s) \in Frame
           /\ \A n \in Nat : [F(pc, s) EXCEPT !.i = n] \in Frame
BY DEF F, Frame

(* Advancing the index of a frame leaves a frame. *)
LEMMA IndexedFrame ==
    ASSUME NEW f \in Frame, NEW n \in Nat
    PROVE  [f EXCEPT !.i = n] \in Frame /\ Step(f) \in Frame
BY DEF Frame, Step

(* A burst begins with one frame. *)
LEMMA BeginStep ==
    ASSUME NEW f \in Frame, Begin(f)
    PROVE  /\ stack' \in Seq(Frame)
           /\ f.pc \in LoopPlaces => LoopFrame(f.at)'
BY DEF Begin, LoopFrame

(* A function goes on as another frame in its place. *)
LEMMA GotoStep ==
    ASSUME stack \in Seq(Frame), stack # <<>>, NEW f \in Frame, Goto(f)
    PROVE  /\ stack' \in Seq(Frame)
           /\ f.pc \in LoopPlaces => LoopFrame(f.at)'
<1>1. /\ stack' \in Seq(Frame) /\ Len(stack') = Len(stack)
      /\ Len(stack) \in Nat \ {0} /\ stack'[Len(stack)] = f
      /\ \A k \in 1..(Len(stack) - 1) : stack'[k] = stack[k]
  BY ReplaceTop DEF Goto
<1>2. DOMAIN stack = 1..Len(stack) /\ DOMAIN stack' = 1..Len(stack)
  BY <1>1, LenProperties
<1> QED BY <1>1, <1>2 DEF LoopFrame

(* A function calls another. *)
LEMMA CallStep ==
    ASSUME stack \in Seq(Frame), stack # <<>>, NEW f \in Frame, NEW g \in Frame, Call(f, g)
    PROVE  /\ stack' \in Seq(Frame)
           /\ f.pc \in LoopPlaces => LoopFrame(f.at)'
<1>1. /\ stack' \in Seq(Frame) /\ Len(stack') = Len(stack) + 1
      /\ Len(stack) \in Nat \ {0} /\ stack'[Len(stack)] = f
      /\ \A k \in 1..(Len(stack) - 1) : stack'[k] = stack[k]
  BY PushOnTop DEF Call
<1>2. DOMAIN stack = 1..Len(stack) /\ DOMAIN stack' = 1..(Len(stack) + 1)
  BY <1>1, LenProperties
<1> QED BY <1>1, <1>2 DEF LoopFrame

(* A function returns. *)
LEMMA ReturnStep ==
    ASSUME stack \in Seq(Frame), stack # <<>>, Return
    PROVE  stack' \in Seq(Frame)
BY PopTop DEF Return

-----------------------------------------------------------------------------
(* Type correctness. *)

(* The list of tasks holds logic scripts. *)
LEMMA TodoTask ==
    ASSUME TypeOK
    PROVE  /\ DOMAIN todo = 1..Len(todo) /\ Len(todo) \in Nat
           /\ \A k \in DOMAIN todo : todo[k] \in Logics
BY ElementOfSeq, LenProperties DEF TypeOK, Config, todo

(* What a loop over the list looks at is a logic script. *)
LEMMA LoopTaskIsLogic ==
    ASSUME TypeOK, stack # <<>>, ~LoopDone
    PROVE  LoopTask \in Logics
<1>1. Top.i \in Nat
  BY TopFrame DEF TypeOK, Frame
<1> QED BY <1>1, TodoTask DEF LoopDone, LoopTask

(* The subscriptions of the manager and of the forms. *)
LEMMA SubscriptionTypes ==
    /\ \A l \in Logics : Sub(l, "stop") \in Subscription /\ Sub(l, "interrupt") \in Subscription
    /\ \A f \in Forms : FormSub(f) \in Subscription
BY ScriptAssumption DEF Sub, FormSub, Subscription, Subscriber, Scripts, Forms

(* The type of a list survives Subscribed and Unsubscribed even without    *)
(* the freedom from duplicates.                                            *)
LEMMA ListTypes ==
    ASSUME NEW S, NEW s \in Seq(S), NEW e \in S
    PROVE  Subscribed(s, e) \in Seq(S) /\ Unsubscribed(s, e) \in Seq(S)
<1>1. Subscribed(s, e) \in Seq(S)
  BY DEF Subscribed
<1>2. CASE IsSubscribing(s, e)
  <2>1. \E k \in DOMAIN s : s[k] = e
    BY <1>2, LenProperties DEF IsSubscribing, Contains
  <2>2. PositionOf(s, e) \in 1..Len(s)
    BY <2>1, LenProperties DEF PositionOf
  <2> QED BY <1>1, <1>2, <2>2, RemoveAtProperties DEF Unsubscribed
<1> QED BY <1>1, <1>2 DEF Unsubscribed

(* Both subscriptions of a task at once. *)
LEMMA TaskListTypes ==
    ASSUME NEW s \in Seq(Subscription), NEW l \in Logics
    PROVE  WithTask(s, l) \in Seq(Subscription) /\ WithoutTask(s, l) \in Seq(Subscription)
BY SubscriptionTypes, ListTypes DEF WithTask, WithoutTask

(* The places a publication looks at are indices. *)
LEMMA MatchesAfterType ==
    ASSUME subs \in Seq(Subscription), NEW i, NEW src, NEW ev
    PROVE  MatchesAfter(subs, i, src, ev) \subseteq Nat
BY LenProperties DEF MatchesAfter

(* The types hold when the scripts are loaded. *)
LEMMA TypeInit == Init => TypeOK
<1> SUFFICES ASSUME Init PROVE TypeOK
  OBVIOUS
<1>1. cfg \in Config
  BY DEF Init, Config, IsInjective
<1>2. ready \in [Logics -> {"run", "wait", "done"}]
  BY DEF Init
<1>3. /\ loops \in [Logics -> Nat]
      /\ waitA \in [Lengths -> Nat] /\ waitB \in Nat /\ encounters \in Nat
  BY DEF Init
<1>4. /\ running \in [Scripts -> BOOLEAN]
      /\ open \in [Forms -> BOOLEAN] /\ btn \in [Forms -> BOOLEAN]
      /\ inTime \in [Logics -> BOOLEAN]
  BY BoundAssumption DEF Init
<1>5. /\ throttled \in BOOLEAN /\ suspended \in Scripts \cup {None} /\ dead \in BOOLEAN
      /\ subs \in Seq(Subscription) /\ stack \in Seq(Frame)
  <2>1. throttled = FALSE /\ dead = FALSE
    BY DEF Init
  <2>2. suspended = None
    BY DEF Init
  <2>3. subs = <<>> /\ stack = <<>>
    BY DEF Init
  <2>4. <<>> \in Seq(Subscription) /\ <<>> \in Seq(Frame)
    OBVIOUS
  <2>5. throttled \in BOOLEAN /\ dead \in BOOLEAN
    BY <2>1
  <2> QED BY <2>2, <2>3, <2>4, <2>5
<1> QED BY <1>1, <1>2, <1>3, <1>4, <1>5 DEF TypeOK

(* Every step keeps the types: one step of the proof per action. *)
LEMMA TypeStep == TypeOK /\ [Next]_vars => TypeOK'
<1> SUFFICES ASSUME TypeOK, [Next]_vars PROVE TypeOK'
  OBVIOUS
<1> Mgr \in Scripts /\ Logics \subseteq Scripts /\ Mgr \notin Logics /\ Forms \subseteq Scripts
  BY ScriptAssumption DEF Scripts, Forms
<1>1. ASSUME NEW l \in Logics, LogicStart(l)
      PROVE  TypeOK'
  <2>1. F("Stop", l) \in Frame /\ F("loop", l) \in Frame
    BY NewFrame DEF Places
  <2>2. stack' \in Seq(Frame)
    BY <1>1, <2>1, GotoStep, ReturnStep DEF LogicStart, AtScript, At, TypeOK
  <2>3. running' \in [Scripts -> BOOLEAN]
    BY <1>1 DEF LogicStart, TypeOK
  <2> QED BY <1>1, <2>2, <2>3 DEF LogicStart, TypeOK, manager, asleep, ui, game
<1>2. ASSUME NEW l \in Logics, LogicBusy(l)
      PROVE  TypeOK'
  <2>1. stack' \in Seq(Frame) /\ loops' \in [Logics -> Nat]
    BY <1>2, ReturnStep DEF LogicBusy, Pause, AtScript, At, TypeOK
  <2> QED BY <1>2, <2>1 DEF LogicBusy, Pause, TypeOK, manager, asleep, ui, game
<1>3. ASSUME NEW l \in Logics, LogicPass(l)
      PROVE  TypeOK'
  <2>1. F("Stop", l) \in Frame /\ F("pause", l) \in Frame /\ F("publishInterrupt", l) \in Frame
       /\ F("StopGlobalTask", Mgr) \in Frame
    BY NewFrame DEF Places
  <2>2. stack' \in Seq(Frame)
    BY <1>3, <2>1, CallStep DEF LogicPass, AtScript, At, TypeOK
  <2> QED BY <1>3, <2>2 DEF LogicPass, TypeOK, manager, asleep, ui, game
<1>4. ASSUME NEW l \in Logics, LogicPause(l)
      PROVE  TypeOK'
  <2>1. stack' \in Seq(Frame) /\ loops' \in [Logics -> Nat]
    BY <1>4, ReturnStep DEF LogicPause, Pause, AtScript, At, TypeOK
  <2> QED BY <1>4, <2>1 DEF LogicPause, Pause, TypeOK, manager, asleep, ui, game
<1>5. ASSUME NEW l \in Logics, LogicWake(l)
      PROVE  TypeOK'
  <2>1. F("loop", l) \in Frame
    BY NewFrame DEF Places
  <2>2. stack' \in Seq(Frame) /\ loops' \in [Logics -> Nat]
    BY <1>5, <2>1, BeginStep DEF LogicWake, TypeOK
  <2> QED BY <1>5, <2>2 DEF LogicWake, TypeOK, manager, asleep, ui, game
<1>6. ASSUME NEW l \in Logics, LogicStop(l)
      PROVE  TypeOK'
  <2>1. F("publishStop", l) \in Frame
    BY NewFrame DEF Places
  <2>2. stack' \in Seq(Frame)
    BY <1>6, <2>1, GotoStep, ReturnStep DEF LogicStop, AtScript, At, TypeOK
  <2>3. running' \in [Scripts -> BOOLEAN]
    BY <1>6 DEF LogicStop, TypeOK
  <2> QED BY <1>6, <2>2, <2>3 DEF LogicStop, TypeOK, manager, asleep, ui, game
<1>7. ASSUME NEW s \in Scripts, PublishStop(s)
      PROVE  TypeOK'
  <2>1. F("unsubscribeAll", Mgr) \in Frame
    BY NewFrame DEF Places
  <2>2. \A k \in MatchesAfter(subs, Top.i, s, "stop") : [Top EXCEPT !.i = k] \in Frame
    <3>1. Top \in Frame
      BY <1>7, TopFrame DEF PublishStop, AtScript, At, TypeOK
    <3> QED BY <3>1, MatchesAfterType, IndexedFrame DEF TypeOK
  <2>3. stack' \in Seq(Frame)
    BY <1>7, <2>1, <2>2, GotoStep, CallStep, ReturnStep
       DEF PublishStop, First, AtScript, At, TypeOK
  <2>4. btn' \in [Forms -> BOOLEAN]
    BY <1>7 DEF PublishStop, TypeOK
  <2> QED BY <1>7, <2>3, <2>4 DEF PublishStop, TypeOK, manager, asleep, ui, game
<1>8. ASSUME NEW l \in Logics, PublishInterrupt(l)
      PROVE  TypeOK'
  <2>1. F("onTaskInterrupt", l) \in Frame
    BY NewFrame DEF Places
  <2>2. \A k \in MatchesAfter(subs, Top.i, l, "interrupt") : [Top EXCEPT !.i = k] \in Frame
    <3>1. Top \in Frame
      BY <1>8, TopFrame DEF PublishInterrupt, AtScript, At, TypeOK
    <3> QED BY <3>1, MatchesAfterType, IndexedFrame DEF TypeOK
  <2>3. stack' \in Seq(Frame)
    BY <1>8, <2>1, <2>2, CallStep, ReturnStep
       DEF PublishInterrupt, First, AtScript, At, TypeOK
  <2> QED BY <1>8, <2>3 DEF PublishInterrupt, TypeOK, manager, asleep, ui, game
<1>9. ASSUME NEW l \in Logics, OnTaskInterrupt(l)
      PROVE  TypeOK'
  <2>1. F("Stop", l) \in Frame
    BY NewFrame DEF Places
  <2>2. stack' \in Seq(Frame)
    BY <1>9, <2>1, GotoStep, ReturnStep DEF OnTaskInterrupt, AtScript, At, TypeOK
  <2>3. throttled' \in BOOLEAN
    BY <1>9 DEF OnTaskInterrupt, TypeOK
  <2> QED BY <1>9, <2>2, <2>3 DEF OnTaskInterrupt, TypeOK, asleep, ui, game
<1>10. ASSUME Start
       PROVE  TypeOK'
  <2>1. F("unsubscribeAll", Mgr) \in Frame /\ F("Stop", Mgr) \in Frame
    BY NewFrame DEF Places
  <2>2. stack' \in Seq(Frame)
    BY <1>10, <2>1, GotoStep, ReturnStep DEF Start, AtScript, At, TypeOK
  <2>3. running' \in [Scripts -> BOOLEAN]
    BY <1>10 DEF Start, TypeOK
  <2>4. cfg' \in Config
    BY <1>10, ConfigAssumption DEF Start, TypeOK
  <2> QED BY <1>10, <2>2, <2>3, <2>4 DEF Start, TypeOK, asleep, ui, game
<1>11. ASSUME Stop
       PROVE  TypeOK'
  <2>1. F("stopEach", Mgr) \in Frame
    BY NewFrame DEF Places
  <2>2. stack' \in Seq(Frame)
    BY <1>11, <2>1, GotoStep DEF Stop, AtScript, At, TypeOK
  <2>3. running' \in [Scripts -> BOOLEAN]
    BY <1>11 DEF Stop, TypeOK
  <2> QED BY <1>11, <2>2, <2>3 DEF Stop, TypeOK, manager, asleep, ui, game
<1>12. ASSUME StopEach
       PROVE  TypeOK'
  <2>1. F("publishStop", Mgr) \in Frame
    BY NewFrame DEF Places
  <2>2. /\ stack # <<>> /\ Step(Top) \in Frame
    BY <1>12, TopFrame, IndexedFrame DEF StopEach, At, TypeOK
  <2>3. ~LoopDone => LoopTask \in Logics /\ F("Stop", LoopTask) \in Frame
    BY <2>2, LoopTaskIsLogic, NewFrame DEF Places
  <2>4. stack' \in Seq(Frame)
    BY <1>12, <2>1, <2>2, <2>3, GotoStep, CallStep DEF StopEach, TypeOK
  <2>5. subs' \in Seq(Subscription)
    BY <1>12, <2>3, TaskListTypes DEF StopEach, TypeOK
  <2> QED BY <1>12, <2>4, <2>5 DEF StopEach, TypeOK, manager, asleep, ui, game
<1>13. ASSUME UnsubscribeAll
       PROVE  TypeOK'
  <2>1. F("stopAll", Mgr) \in Frame
    BY NewFrame DEF Places
  <2>2. /\ stack # <<>> /\ Step(Top) \in Frame
    BY <1>13, TopFrame, IndexedFrame DEF UnsubscribeAll, At, TypeOK
  <2>3. ~LoopDone => LoopTask \in Logics
    BY <2>2, LoopTaskIsLogic
  <2>4. stack' \in Seq(Frame)
    BY <1>13, <2>1, <2>2, GotoStep DEF UnsubscribeAll, TypeOK
  <2>5. subs' \in Seq(Subscription)
    BY <1>13, <2>3, TaskListTypes DEF UnsubscribeAll, TypeOK
  <2> QED BY <1>13, <2>4, <2>5 DEF UnsubscribeAll, TypeOK, manager, asleep, ui, game
<1>14. ASSUME StopAll
       PROVE  TypeOK'
  <2>1. F("subscribeAll", Mgr) \in Frame
    BY NewFrame DEF Places
  <2>2. /\ stack # <<>> /\ Step(Top) \in Frame
    BY <1>14, TopFrame, IndexedFrame DEF StopAll, At, TypeOK
  <2>3. ~LoopDone => F("Stop", LoopTask) \in Frame
    BY <2>2, LoopTaskIsLogic, NewFrame DEF Places
  <2>4. stack' \in Seq(Frame)
    BY <1>14, <2>1, <2>2, <2>3, GotoStep, CallStep DEF StopAll, TypeOK
  <2> QED BY <1>14, <2>4 DEF StopAll, TypeOK, manager, asleep, ui, game
<1>15. ASSUME SubscribeAll
       PROVE  TypeOK'
  <2>1. F("pick", Mgr) \in Frame
    BY NewFrame DEF Places
  <2>2. /\ stack # <<>> /\ Step(Top) \in Frame
    BY <1>15, TopFrame, IndexedFrame DEF SubscribeAll, At, TypeOK
  <2>3. ~LoopDone => LoopTask \in Logics
    BY <2>2, LoopTaskIsLogic
  <2>4. stack' \in Seq(Frame)
    BY <1>15, <2>1, <2>2, GotoStep DEF SubscribeAll, TypeOK
  <2>5. subs' \in Seq(Subscription)
    BY <1>15, <2>3, TaskListTypes DEF SubscribeAll, TypeOK
  <2> QED BY <1>15, <2>4, <2>5 DEF SubscribeAll, TypeOK, manager, asleep, ui, game
<1>16. ASSUME Pick
       PROVE  TypeOK'
  <2>1. \A k \in Runnable : F("Start", todo[k]) \in Frame
    BY TodoTask, NewFrame DEF Runnable, Places
  <2>2. CanRunNoiTu => F("Start", NoiTu) \in Frame
    BY TodoTask, NewFrame DEF CanRunNoiTu, Places
  <2>3. [F("waitA", Mgr) EXCEPT !.i = Len(todo)] \in Frame
    BY TodoTask, NewFrame DEF Places
  <2>4. stack' \in Seq(Frame)
    BY <1>16, <2>1, <2>2, <2>3, GotoStep DEF Pick, First, At, TypeOK
  <2> QED BY <1>16, <2>4 DEF Pick, TypeOK, manager, asleep, ui, game
<1>17. ASSUME WaitForTask
       PROVE  TypeOK'
  <2>1. \A k \in Runnable : F("Start", todo[k]) \in Frame
    BY TodoTask, NewFrame DEF Runnable, Places
  <2>2. F("allDone", Mgr) \in Frame
    BY NewFrame DEF Places
  <2>3. stack' \in Seq(Frame)
    BY <1>17, <2>1, <2>2, GotoStep, ReturnStep DEF WaitForTask, First, At, TypeOK
  <2>4. waitA' \in [Lengths -> Nat]
    BY <1>17 DEF WaitForTask, TypeOK
  <2> QED BY <1>17, <2>3, <2>4 DEF WaitForTask, TypeOK, manager, asleep, ui, game
<1>18. ASSUME AllDone
       PROVE  TypeOK'
  <2>1. F("Stop", Mgr) \in Frame /\ F("waitB", Mgr) \in Frame
    BY NewFrame DEF Places
  <2>2. stack' \in Seq(Frame)
    BY <1>18, <2>1, GotoStep DEF AllDone, At, TypeOK
  <2> QED BY <1>18, <2>2 DEF AllDone, TypeOK, manager, asleep, ui, game
<1>19. ASSUME WaitForAny
       PROVE  TypeOK'
  <2>1. F("unsubscribeAll", Mgr) \in Frame
    BY NewFrame DEF Places
  <2>2. stack' \in Seq(Frame)
    BY <1>19, <2>1, GotoStep, ReturnStep DEF WaitForAny, At, TypeOK
  <2>3. waitB' \in Nat
    BY <1>19 DEF WaitForAny, TypeOK
  <2> QED BY <1>19, <2>2, <2>3 DEF WaitForAny, TypeOK, manager, asleep, ui, game
<1>20. ASSUME WakeWaitA
       PROVE  TypeOK'
  <2>1. PICK cnt \in Lengths : /\ waitA[cnt] > 0
                               /\ waitA' = [waitA EXCEPT ![cnt] = @ - 1]
                               /\ Begin([F("waitA", Mgr) EXCEPT !.i = cnt])
    BY <1>20 DEF WakeWaitA
  <2>2. cnt \in Nat
    BY ConfigAssumption DEF Lengths, Config
  <2>3. stack' \in Seq(Frame)
    BY <2>1, <2>2, NewFrame, BeginStep DEF Places
  <2>4. waitA' \in [Lengths -> Nat]
    BY <2>1 DEF TypeOK
  <2> QED BY <1>20, <2>3, <2>4 DEF WakeWaitA, TypeOK, manager, ui, game
<1>21. ASSUME WakeWaitB
       PROVE  TypeOK'
  <2>1. stack' \in Seq(Frame)
    BY <1>21, NewFrame, BeginStep DEF WakeWaitB, Places
  <2>2. waitB' \in Nat
    BY <1>21 DEF WakeWaitB, TypeOK
  <2> QED BY <1>21, <2>1, <2>2 DEF WakeWaitB, TypeOK, manager, ui, game
<1>22. ASSUME StopGlobalTask
       PROVE  TypeOK'
  <2>1. \A s \in Scripts : F("Stop", s) \in Frame
    BY NewFrame DEF Places
  <2>2. stack' \in Seq(Frame) /\ suspended' \in Scripts \cup {None}
    BY <1>22, <2>1, GotoStep, ReturnStep DEF StopGlobalTask, At, TypeOK
  <2> QED BY <1>22, <2>2 DEF StopGlobalTask, TypeOK, asleep, ui, game
<1>23. ASSUME ContinueGlobalTask
       PROVE  TypeOK'
  <2>1. suspended # None => F("Start", suspended) \in Frame
    BY NewFrame DEF Places, TypeOK
  <2>2. stack' \in Seq(Frame)
    BY <1>23, <2>1, GotoStep, ReturnStep DEF ContinueGlobalTask, At, TypeOK
  <2> QED BY <1>23, <2>2 DEF ContinueGlobalTask, TypeOK, manager, asleep, ui, game
<1>24. ASSUME Accept
       PROVE  TypeOK'
  <2>1. F("ContinueGlobalTask", Mgr) \in Frame
    BY NewFrame DEF Places
  <2>2. stack' \in Seq(Frame) /\ encounters' \in Nat
    BY <1>24, <2>1, GotoStep, ReturnStep DEF Accept, At, TypeOK
  <2> QED BY <1>24, <2>2 DEF Accept, TypeOK, manager, ui, game
<1>25. ASSUME Encounter
       PROVE  TypeOK'
  <2>1. F("accept", Mgr) \in Frame /\ F("StopGlobalTask", Mgr) \in Frame
    BY NewFrame DEF Places
  <2>2. stack' \in Seq(Frame)
    BY <1>25, <2>1 DEF Encounter
  <2> QED BY <1>25, <2>2 DEF Encounter, TypeOK, manager, asleep, ui, game
<1>26. ASSUME EncounterOver
       PROVE  TypeOK'
  <2>1. stack' \in Seq(Frame)
    BY <1>26, NewFrame, BeginStep DEF EncounterOver, Places
  <2>2. encounters' \in Nat
    BY <1>26 DEF EncounterOver, TypeOK
  <2> QED BY <1>26, <2>1, <2>2 DEF EncounterOver, TypeOK, manager, ui, game
<1>27. ASSUME NEW f \in Forms, OpenForm(f)
       PROVE  TypeOK'
  <2>1. subs' \in Seq(Subscription)
    BY <1>27, SubscriptionTypes, ListTypes DEF OpenForm, TypeOK
  <2>2. open' \in [Forms -> BOOLEAN] /\ btn' \in [Forms -> BOOLEAN]
    BY <1>27 DEF OpenForm, TypeOK
  <2> QED BY <1>27, <2>1, <2>2 DEF OpenForm, TypeOK, manager, asleep, game
<1>28. ASSUME NEW f \in Forms, CloseForm(f)
       PROVE  TypeOK'
  <2>1. subs' \in Seq(Subscription)
    BY <1>28, SubscriptionTypes, ListTypes DEF CloseForm, TypeOK
  <2>2. open' \in [Forms -> BOOLEAN] /\ btn' \in [Forms -> BOOLEAN]
    BY <1>28 DEF CloseForm, TypeOK
  <2> QED BY <1>28, <2>1, <2>2 DEF CloseForm, TypeOK, manager, asleep, game
<1>29. ASSUME NEW f \in Forms, ClickStart(f)
       PROVE  TypeOK'
  <2>1. subs' \in Seq(Subscription)
    BY <1>29, SubscriptionTypes, ListTypes DEF ClickStart, TypeOK
  <2>2. btn' \in [Forms -> BOOLEAN]
    BY <1>29 DEF ClickStart, TypeOK
  <2>3. stack' \in Seq(Frame)
    BY <1>29, NewFrame, BeginStep DEF ClickStart, Places
  <2> QED BY <1>29, <2>1, <2>2, <2>3 DEF ClickStart, TypeOK, manager, asleep, game
<1>30. ASSUME NEW f \in Forms, ClickStop(f)
       PROVE  TypeOK'
  <2>1. F("buttonOff", f) \in Frame /\ F("Stop", f) \in Frame
    BY NewFrame DEF Places
  <2>2. stack' \in Seq(Frame)
    BY <1>30, <2>1 DEF ClickStop
  <2> QED BY <1>30, <2>2 DEF ClickStop, TypeOK, manager, asleep, ui, game
<1>31. ASSUME ButtonOff
       PROVE  TypeOK'
  <2>1. stack' \in Seq(Frame) /\ btn' \in [Forms -> BOOLEAN]
    BY <1>31, ReturnStep DEF ButtonOff, At, TypeOK
  <2> QED BY <1>31, <2>1 DEF ButtonOff, TypeOK, manager, asleep, game
<1>32. ASSUME NEW l \in Logics, ReadyChanges(l)
       PROVE  TypeOK'
  <2>1. ready' \in [Logics -> {"run", "wait", "done"}]
    BY <1>32 DEF ReadyChanges, Conditions, TypeOK
  <2> QED BY <1>32, <2>1 DEF ReadyChanges, TypeOK, manager, asleep, ui
<1>33. ASSUME NEW l \in Logics, TimeChanges(l)
       PROVE  TypeOK'
  <2>1. inTime' \in [Logics -> BOOLEAN]
    BY <1>33 DEF TimeChanges, TypeOK
  <2> QED BY <1>33, <2>1 DEF TimeChanges, TypeOK, manager, asleep, ui
<1>34. ASSUME LifeChanges
       PROVE  TypeOK'
  BY <1>34 DEF LifeChanges, TypeOK, manager, asleep, ui
<1>35. ASSUME ThrottleExpires
       PROVE  TypeOK'
  BY <1>35 DEF ThrottleExpires, TypeOK, asleep, ui, game
<1>36. ASSUME NEW l \in Logics, StopMessage(l)
       PROVE  TypeOK'
  <2>1. stack' \in Seq(Frame)
    BY <1>36, NewFrame, BeginStep DEF StopMessage, Places
  <2>2. ready' \in [Logics -> {"run", "wait", "done"}]
    BY <1>36 DEF StopMessage, TypeOK
  <2> QED BY <1>36, <2>1, <2>2 DEF StopMessage, TypeOK, manager, asleep, ui
<1>37. ASSUME UNCHANGED vars
       PROVE  TypeOK'
  BY <1>37 DEF vars, manager, asleep, ui, game, TypeOK
<1> QED
  BY <1>1, <1>2, <1>3, <1>4, <1>5, <1>6, <1>7, <1>8, <1>9, <1>10, <1>11, <1>12, <1>13,
     <1>14, <1>15, <1>16, <1>17, <1>18, <1>19, <1>20, <1>21, <1>22, <1>23, <1>24, <1>25,
     <1>26, <1>27, <1>28, <1>29, <1>30, <1>31, <1>32, <1>33, <1>34, <1>35, <1>36, <1>37
  DEF Next, Burst, Wake, User, Game

(* Every variable keeps its type, whatever the logics do and however deep  *)
(* the callbacks nest.                                                     *)
THEOREM TypeCorrect == Spec => []TypeOK
BY TypeInit, TypeStep, PTL DEF Spec

-----------------------------------------------------------------------------
(* No subscription is held twice: every change of the list is a Subscribed *)
(* or an Unsubscribed, and these keep a list free of duplicates.           *)

(* Both subscriptions of a task at once keep the list free of duplicates. *)
LEMMA TaskListInjective ==
    ASSUME NEW s \in Seq(Subscription), NEW l \in Logics, IsInjective(s)
    PROVE  IsInjective(WithTask(s, l)) /\ IsInjective(WithoutTask(s, l))
<1>1. Sub(l, "stop") \in Subscription /\ Sub(l, "interrupt") \in Subscription
  BY SubscriptionTypes
<1>2. /\ Subscribed(s, Sub(l, "stop")) \in Seq(Subscription)
      /\ IsInjective(Subscribed(s, Sub(l, "stop")))
  BY <1>1, SubscribedProperties
<1>3. /\ Unsubscribed(s, Sub(l, "stop")) \in Seq(Subscription)
      /\ IsInjective(Unsubscribed(s, Sub(l, "stop")))
  BY <1>1, UnsubscribedProperties
<1>4. IsInjective(WithTask(s, l))
  BY <1>1, <1>2, SubscribedProperties DEF WithTask
<1>5. IsInjective(WithoutTask(s, l))
  BY <1>1, <1>3, UnsubscribedProperties DEF WithoutTask
<1> QED BY <1>4, <1>5

(* Every step keeps the list free of duplicates. *)
LEMMA NoDuplicatesStep == TypeOK /\ NoDuplicates /\ [Next]_vars => NoDuplicates'
<1> SUFFICES ASSUME TypeOK, NoDuplicates, [Next]_vars PROVE NoDuplicates'
  OBVIOUS
<1>0. subs \in Seq(Subscription) /\ IsInjective(subs)
  BY DEF TypeOK, NoDuplicates
<1>1. CASE StopEach
  <2>1. ~LoopDone => LoopTask \in Logics
    BY <1>1, LoopTaskIsLogic DEF StopEach, At
  <2> QED BY <1>0, <1>1, <2>1, TaskListInjective DEF StopEach, NoDuplicates
<1>2. CASE UnsubscribeAll
  <2>1. ~LoopDone => LoopTask \in Logics
    BY <1>2, LoopTaskIsLogic DEF UnsubscribeAll, At
  <2> QED BY <1>0, <1>2, <2>1, TaskListInjective DEF UnsubscribeAll, NoDuplicates
<1>3. CASE SubscribeAll
  <2>1. ~LoopDone => LoopTask \in Logics
    BY <1>3, LoopTaskIsLogic DEF SubscribeAll, At
  <2> QED BY <1>0, <1>3, <2>1, TaskListInjective DEF SubscribeAll, NoDuplicates
<1>4. ASSUME NEW f \in Forms, OpenForm(f)
      PROVE  NoDuplicates'
  BY <1>0, <1>4, SubscriptionTypes, SubscribedProperties DEF OpenForm, NoDuplicates
<1>5. ASSUME NEW f \in Forms, CloseForm(f)
      PROVE  NoDuplicates'
  BY <1>0, <1>5, SubscriptionTypes, UnsubscribedProperties DEF CloseForm, NoDuplicates
<1>6. ASSUME NEW f \in Forms, ClickStart(f)
      PROVE  NoDuplicates'
  BY <1>0, <1>6, SubscriptionTypes, SubscribedProperties DEF ClickStart, NoDuplicates
<1>7. CASE UNCHANGED subs
  BY <1>7 DEF NoDuplicates
<1>8. ASSUME NEW l \in Logics,
             \/ LogicStart(l) \/ LogicBusy(l) \/ LogicPass(l) \/ LogicPause(l) \/ LogicStop(l)
             \/ LogicWake(l) \/ PublishInterrupt(l) \/ OnTaskInterrupt(l)
             \/ ReadyChanges(l) \/ TimeChanges(l) \/ StopMessage(l)
      PROVE  UNCHANGED subs
  BY <1>8 DEF LogicStart, LogicBusy, LogicPass, LogicPause, LogicStop, LogicWake,
              PublishInterrupt, OnTaskInterrupt, ReadyChanges, TimeChanges, StopMessage
<1>9. ASSUME \/ \E s \in Scripts : PublishStop(s)
             \/ \E f \in Forms : ClickStop(f)
             \/ Start \/ Stop \/ StopAll \/ Pick \/ WaitForTask \/ AllDone \/ WaitForAny
             \/ WakeWaitA \/ WakeWaitB
      PROVE  UNCHANGED subs
  BY <1>9 DEF PublishStop, ClickStop, Start, Stop, StopAll, Pick, WaitForTask, AllDone,
              WaitForAny, WakeWaitA, WakeWaitB
<1>10. ASSUME \/ StopGlobalTask \/ ContinueGlobalTask \/ Accept \/ Encounter
              \/ EncounterOver \/ ButtonOff \/ LifeChanges \/ ThrottleExpires \/ UNCHANGED vars
       PROVE  UNCHANGED subs
  BY <1>10 DEF StopGlobalTask, ContinueGlobalTask, Accept, Encounter, EncounterOver,
               ButtonOff, LifeChanges, ThrottleExpires, vars
<1> QED
  BY <1>1, <1>2, <1>3, <1>4, <1>5, <1>6, <1>7, <1>8, <1>9, <1>10
  DEF Next, Burst, Wake, User, Game

(* However forms are opened and closed and tasks started, stopped and      *)
(* preempted inside one another's callbacks, no script is subscribed twice *)
(* to the same event: no callback runs twice for one publication.          *)
THEOREM NeverSubscribedTwice == Spec => []NoDuplicates
<1>1. Init => NoDuplicates
  BY DEF Init, NoDuplicates, IsInjective
<1> QED BY <1>1, TypeInit, TypeStep, NoDuplicatesStep, PTL DEF Spec

-----------------------------------------------------------------------------
(* A logic that runs has its loop. *)

(* The steps of the stack, whatever the frames. *)
StackMoves == (\E f : Goto(f)) \/ (\E f, g : Call(f, g)) \/ Return

(* No step of the stack loses the frame of a loop but the one on top. *)
LEMMA MovesKeepLoops ==
    ASSUME stack \in Seq(Frame), stack # <<>>, StackMoves, NEW l, LoopFrame(l),
           Top.pc \in LoopPlaces => Top.at # l
    PROVE  LoopFrame(l)'
<1>1. PICK k \in DOMAIN stack : stack[k].at = l /\ stack[k].pc \in LoopPlaces
  BY DEF LoopFrame
<1>2. Len(stack) \in Nat \ {0} /\ DOMAIN stack = 1..Len(stack)
  BY EmptySeq, LenProperties
<1>3. k \in 1..(Len(stack) - 1)
  BY <1>1, <1>2 DEF Top
<1>4. CASE \E f : Goto(f)
  <2>1. PICK f : Goto(f)
    BY <1>4
  <2>2. stack \in Seq(Frame \cup {f})
    BY SeqDef
  <2>3. /\ stack' \in Seq(Frame \cup {f}) /\ Len(stack') = Len(stack)
        /\ stack'[k] = stack[k]
    BY <1>3, <2>1, <2>2, ReplaceTop DEF Goto
  <2>4. k \in DOMAIN stack'
    BY <1>2, <1>3, <2>3, LenProperties
  <2> QED BY <1>1, <2>3, <2>4 DEF LoopFrame
<1>5. CASE \E f, g : Call(f, g)
  <2>1. PICK f, g : Call(f, g)
    BY <1>5
  <2>2. stack \in Seq(Frame \cup {f, g})
    BY SeqDef
  <2>3. /\ stack' \in Seq(Frame \cup {f, g}) /\ Len(stack') = Len(stack) + 1
        /\ stack'[k] = stack[k]
    BY <1>3, <2>1, <2>2, PushOnTop DEF Call
  <2>4. k \in DOMAIN stack'
    BY <1>2, <1>3, <2>3, LenProperties
  <2> QED BY <1>1, <2>3, <2>4 DEF LoopFrame
<1>6. CASE Return
  <2>1. /\ stack' \in Seq(Frame) /\ Len(stack') = Len(stack) - 1
        /\ stack'[k] = stack[k]
    BY <1>3, <1>6, PopTop DEF Return
  <2>2. k \in DOMAIN stack'
    BY <1>2, <1>3, <2>1, LenProperties
  <2> QED BY <1>1, <2>1, <2>2 DEF LoopFrame
<1> QED BY <1>4, <1>5, <1>6 DEF StackMoves

(* The steps that set no flag of a logic and do not end a pass of a loop. *)
LEMMA LoopKept ==
    ASSUME TypeOK, RunningHasLoop, stack # <<>>, Top.pc \notin LoopPlaces, StackMoves,
           UNCHANGED loops, \A l \in Logics : running[l]' => running[l]
    PROVE  RunningHasLoop'
<1> SUFFICES ASSUME NEW l \in Logics, running[l]'
             PROVE  loops[l]' > 0 \/ LoopFrame(l)'
  BY DEF RunningHasLoop, LoopFrame, LoopPlaces
<1>1. loops[l] > 0 \/ LoopFrame(l)
  BY DEF RunningHasLoop, LoopFrame, LoopPlaces
<1> QED BY <1>1, MovesKeepLoops DEF TypeOK

(* The steps that begin a burst, or happen between bursts. *)
LEMMA LoopAsleep ==
    ASSUME RunningHasLoop, stack = <<>>, UNCHANGED <<running, loops>>
    PROVE  RunningHasLoop'
BY DEF RunningHasLoop

(* A pass ends: the coroutine of l falls asleep. *)
LEMMA PassEnds ==
    ASSUME TypeOK, RunningHasLoop, NEW l \in Logics, stack # <<>>, Top.at = l,
           Pause(l), UNCHANGED running
    PROVE  RunningHasLoop'
<1> SUFFICES ASSUME NEW m \in Logics, running[m]
             PROVE  loops[m]' > 0 \/ LoopFrame(m)'
  BY DEF RunningHasLoop, LoopFrame, LoopPlaces
<1>1. loops[m] > 0 \/ LoopFrame(m)
  BY DEF RunningHasLoop, LoopFrame, LoopPlaces
<1>2. CASE m = l
  BY <1>2 DEF Pause, TypeOK
<1>3. CASE m # l
  <2>1. LoopFrame(m) => LoopFrame(m)'
    BY <1>3, MovesKeepLoops DEF Pause, StackMoves, TypeOK
  <2> QED BY <1>1, <1>3, <2>1 DEF Pause, TypeOK
<1> QED BY <1>2, <1>3

(* Every step keeps a loop for each logic that runs. *)
LEMMA RunningHasLoopStep == TypeOK /\ RunningHasLoop /\ [Next]_vars => RunningHasLoop'
<1> SUFFICES ASSUME TypeOK, RunningHasLoop, [Next]_vars PROVE RunningHasLoop'
  OBVIOUS
<1> Mgr \notin Logics
  BY ScriptAssumption
<1>1. ASSUME NEW l \in Logics, LogicStart(l)
      PROVE  RunningHasLoop'
  <2>0. /\ stack # <<>> /\ Top.pc \notin LoopPlaces /\ StackMoves /\ UNCHANGED loops
    BY <1>1 DEF LogicStart, AtScript, At, StackMoves, LoopPlaces, asleep
  <2>1. CASE UNCHANGED running
    BY <2>0, <2>1, LoopKept
  <2>2. CASE Goto(F("loop", l)) /\ running' = [running EXCEPT ![l] = TRUE]
    <3>1. F("loop", l) \in Frame /\ F("loop", l).pc \in LoopPlaces /\ F("loop", l).at = l
      BY NewFrame DEF Places, Scripts, F, LoopPlaces
    <3>2. LoopFrame(l)'
      BY <2>0, <2>2, <3>1, GotoStep DEF TypeOK
    <3>3. ASSUME NEW m \in Logics, m # l, running[m]'
          PROVE  loops[m]' > 0 \/ LoopFrame(m)'
      <4>1. running[m]
        BY <2>2, <3>3 DEF TypeOK
      <4>2. loops[m] > 0 \/ LoopFrame(m)
        BY <4>1 DEF RunningHasLoop, LoopFrame, LoopPlaces
      <4> QED BY <2>0, <4>2, MovesKeepLoops DEF TypeOK
    <3> QED BY <3>2, <3>3 DEF RunningHasLoop, LoopFrame, LoopPlaces
  <2> QED BY <1>1, <2>1, <2>2 DEF LogicStart
<1>2. ASSUME NEW l \in Logics, LogicBusy(l)
      PROVE  RunningHasLoop'
  BY <1>2, PassEnds DEF LogicBusy, AtScript, At
<1>3. ASSUME NEW l \in Logics, LogicPause(l)
      PROVE  RunningHasLoop'
  BY <1>3, PassEnds DEF LogicPause, AtScript, At
<1>4. ASSUME NEW l \in Logics, LogicPass(l)
      PROVE  RunningHasLoop'
  <2>1. /\ stack # <<>> /\ Top.at = l /\ StackMoves /\ UNCHANGED <<running, loops>>
        /\ \E g : Call(F("pause", l), g) /\ g \in Frame
    BY <1>4, NewFrame DEF LogicPass, AtScript, At, StackMoves, asleep, Places, Scripts
  <2>2. F("pause", l) \in Frame /\ F("pause", l).pc \in LoopPlaces /\ F("pause", l).at = l
    BY NewFrame DEF Places, Scripts, F, LoopPlaces
  <2>3. LoopFrame(l)'
    BY <2>1, <2>2, CallStep DEF TypeOK
  <2>4. ASSUME NEW m \in Logics, m # l, running[m]
        PROVE  loops[m]' > 0 \/ LoopFrame(m)'
    <3>1. loops[m] > 0 \/ LoopFrame(m)
      BY <2>4 DEF RunningHasLoop, LoopFrame, LoopPlaces
    <3> QED BY <2>1, <2>4, <3>1, MovesKeepLoops DEF TypeOK
  <2> QED BY <2>1, <2>3, <2>4 DEF RunningHasLoop, LoopFrame, LoopPlaces
<1>5. ASSUME NEW l \in Logics, LogicWake(l)
      PROVE  RunningHasLoop'
  <2>1. stack = <<>> /\ UNCHANGED running /\ loops' = [loops EXCEPT ![l] = @ - 1]
    BY <1>5 DEF LogicWake, Between
  <2>2. ASSUME running[l]
        PROVE  LoopFrame(l)'
    <3>1. F("loop", l) \in Frame /\ F("loop", l).pc \in LoopPlaces /\ F("loop", l).at = l
      BY NewFrame DEF Places, Scripts, F, LoopPlaces
    <3> QED BY <1>5, <2>2, <3>1, BeginStep DEF LogicWake
  <2>3. ASSUME NEW m \in Logics, m # l, running[m]
        PROVE  loops[m]' > 0
    BY <2>1, <2>3 DEF RunningHasLoop, TypeOK
  <2> QED BY <2>1, <2>2, <2>3 DEF RunningHasLoop, LoopFrame, LoopPlaces
<1>6. ASSUME NEW l \in Logics, LogicStop(l)
      PROVE  RunningHasLoop'
  <2>1. /\ stack # <<>> /\ Top.pc \notin LoopPlaces /\ StackMoves /\ UNCHANGED loops
    BY <1>6 DEF LogicStop, AtScript, At, StackMoves, LoopPlaces, asleep
  <2>2. \A m \in Logics : running[m]' => running[m]
    <3>1. running' = running \/ running' = [running EXCEPT ![l] = FALSE]
      BY <1>6 DEF LogicStop
    <3>2. running \in [Scripts -> BOOLEAN] /\ Logics \subseteq Scripts
      BY DEF TypeOK, Scripts
    <3> QED BY <3>1, <3>2
  <2> QED BY <2>1, <2>2, LoopKept
<1>7. ASSUME Start \/ Stop
      PROVE  RunningHasLoop'
  <2>1. /\ stack # <<>> /\ Top.pc \notin LoopPlaces /\ StackMoves /\ UNCHANGED loops
    BY <1>7 DEF Start, Stop, AtScript, At, StackMoves, LoopPlaces, asleep
  <2>2. \A m \in Logics : running[m]' => running[m]
    <3>1. running' = running \/ \E b \in BOOLEAN : running' = [running EXCEPT ![Mgr] = b]
      BY <1>7 DEF Start, Stop
    <3>2. running \in [Scripts -> BOOLEAN] /\ Logics \subseteq Scripts
      BY DEF TypeOK, Scripts
    <3> QED BY <3>1, <3>2
  <2> QED BY <2>1, <2>2, LoopKept
<1>8. ASSUME \/ \E s \in Scripts : PublishStop(s)
             \/ \E l \in Logics : PublishInterrupt(l) \/ OnTaskInterrupt(l)
      PROVE  RunningHasLoop'
  <2>1. /\ stack # <<>> /\ Top.pc \notin LoopPlaces /\ StackMoves /\ UNCHANGED <<running, loops>>
    BY <1>8 DEF PublishStop, PublishInterrupt, OnTaskInterrupt, AtScript, At, StackMoves,
                LoopPlaces, asleep, First
  <2> QED BY <2>1, LoopKept
<1>9. ASSUME \/ StopEach \/ UnsubscribeAll \/ StopAll \/ SubscribeAll
             \/ Pick \/ WaitForTask \/ AllDone \/ WaitForAny
      PROVE  RunningHasLoop'
  <2>1. /\ stack # <<>> /\ Top.pc \notin LoopPlaces /\ StackMoves /\ UNCHANGED <<running, loops>>
    BY <1>9 DEF StopEach, UnsubscribeAll, StopAll, SubscribeAll, Pick, WaitForTask, AllDone,
                WaitForAny, At, StackMoves, LoopPlaces, asleep, First
  <2> QED BY <2>1, LoopKept
<1>10. ASSUME StopGlobalTask \/ ContinueGlobalTask \/ Accept \/ ButtonOff
       PROVE  RunningHasLoop'
  <2>1. /\ stack # <<>> /\ Top.pc \notin LoopPlaces /\ StackMoves /\ UNCHANGED <<running, loops>>
    BY <1>10 DEF StopGlobalTask, ContinueGlobalTask, Accept, ButtonOff, At, StackMoves,
                 LoopPlaces, asleep
  <2> QED BY <2>1, LoopKept
<1>11. ASSUME \/ WakeWaitA \/ WakeWaitB \/ Encounter \/ EncounterOver
              \/ \E f \in Forms : OpenForm(f) \/ CloseForm(f) \/ ClickStart(f) \/ ClickStop(f)
              \/ \E l \in Logics : ReadyChanges(l) \/ TimeChanges(l) \/ StopMessage(l)
              \/ LifeChanges \/ ThrottleExpires
       PROVE  RunningHasLoop'
  <2>1. stack = <<>> /\ UNCHANGED <<running, loops>>
    BY <1>11 DEF WakeWaitA, WakeWaitB, Encounter, EncounterOver, OpenForm, CloseForm,
                 ClickStart, ClickStop, ReadyChanges, TimeChanges, StopMessage,
                 LifeChanges, ThrottleExpires, Between, asleep
  <2> QED BY <2>1, LoopAsleep
<1>12. CASE UNCHANGED vars
  BY <1>12 DEF vars, asleep, RunningHasLoop
<1> QED
  BY <1>1, <1>2, <1>3, <1>4, <1>5, <1>6, <1>7, <1>8, <1>9, <1>10, <1>11, <1>12
  DEF Next, Burst, Wake, User, Game

(* A logic whose flag is set always has a coroutine to look at it, for any *)
(* number of tasks and any interleaving of stops and starts: Start, which  *)
(* refuses while the flag is set, can never find a task that is dead.      *)
THEOREM NeverRunsWithoutLoop == Spec => []RunningHasLoop
<1>1. Init => RunningHasLoop
  BY ScriptAssumption DEF Init, RunningHasLoop, Scripts
<1> QED BY <1>1, TypeInit, TypeStep, RunningHasLoopStep, PTL DEF Spec

-----------------------------------------------------------------------------
(* The frames of the burst as sets: all of them, those that wait for the   *)
(* one on top, and those that some other frame waits for.                  *)
Frames == {stack[k] : k \in DOMAIN stack}
Below == {stack[k] : k \in 1..(Len(stack) - 1)}
Called == {stack[k] : k \in 2..Len(stack)}

(* Between bursts there is no frame. *)
LEMMA NoFrames ==
    ASSUME stack = <<>>
    PROVE  Frames = {}
BY DEF Frames

(* The frames of a burst in progress. *)
LEMMA SomeFrames ==
    ASSUME stack \in Seq(Frame), stack # <<>>
    PROVE  /\ Frames = Below \cup {Top}
           /\ Top \notin Called => Called = {} /\ Below = {}
<1>1. Len(stack) \in Nat \ {0} /\ DOMAIN stack = 1..Len(stack)
  BY EmptySeq, LenProperties
<1>2. Frames = Below \cup {Top}
  BY <1>1 DEF Frames, Below, Top
<1>3. Top \notin Called => Called = {} /\ Below = {}
  <2> SUFFICES ASSUME Len(stack) # 1 PROVE Top \in Called
    BY <1>1 DEF Called, Below
  <2> QED BY <1>1 DEF Called, Top
<1> QED BY <1>2, <1>3

(* A burst begins: there is one frame. *)
LEMMA BeginFrames ==
    ASSUME NEW f, Begin(f)
    PROVE  stack' # <<>> /\ Top' = f /\ Frames' = {f} /\ Below' = {} /\ Called' = {}
BY DEF Begin, Top, Frames, Below, Called

(* A burst begins with one function called from another. *)
LEMMA BeginTwoFrames ==
    ASSUME NEW f, NEW g, stack' = <<f, g>>
    PROVE  stack' # <<>> /\ Top' = g /\ Frames' = {f, g} /\ Below' = {f} /\ Called' = {g}
<1>1. Len(stack') = 2 /\ DOMAIN stack' = {1, 2} /\ stack'[1] = f /\ stack'[2] = g
  OBVIOUS
<1>2. 1..(Len(stack') - 1) = {1} /\ 2..Len(stack') = {2}
  BY <1>1
<1> QED BY <1>1, <1>2 DEF Top, Frames, Below, Called

(* A goto changes the frame on top. *)
LEMMA GotoFrames ==
    ASSUME stack \in Seq(Frame), stack # <<>>, NEW f, Goto(f)
    PROVE  /\ stack' # <<>> /\ Top' = f /\ Frames' = Below \cup {f} /\ Below' = Below
           /\ Called' \subseteq Called \cup {f} /\ (Called = {} => Called' = {})
<1> DEFINE n == Len(stack)
<1>0. stack \in Seq(Frame \cup {f})
  BY SeqDef
<1>1. /\ stack' \in Seq(Frame \cup {f}) /\ Len(stack') = n /\ stack' # <<>>
      /\ n \in Nat \ {0} /\ stack'[n] = f
      /\ \A k \in 1..(n - 1) : stack'[k] = stack[k]
  BY <1>0, ReplaceTop DEF Goto
<1>2. DOMAIN stack = 1..n /\ DOMAIN stack' = 1..n
  BY <1>1, LenProperties
<1> HIDE DEF n
<1>3. Top' = f /\ Below' = Below /\ Frames' = Below \cup {f}
  BY <1>1, <1>2 DEF Top, Below, Frames, n
<1>4. ASSUME NEW k \in 2..n
      PROVE  stack'[k] \in Called \cup {f} /\ Called # {}
  <2>1. stack[k] \in Called
    BY <1>1 DEF Called, n
  <2>2. k = n \/ k \in 1..(n - 1)
    BY <1>1
  <2> QED BY <1>1, <2>1, <2>2
<1>5. Called' = {stack'[k] : k \in 2..n}
  BY <1>1 DEF Called
<1> QED BY <1>1, <1>3, <1>4, <1>5

(* A call changes the frame on top and puts another on it. *)
LEMMA CallFrames ==
    ASSUME stack \in Seq(Frame), stack # <<>>, NEW f, NEW g, Call(f, g)
    PROVE  /\ stack' # <<>> /\ Top' = g /\ Frames' = Below \cup {f, g} /\ Below' = Below \cup {f}
           /\ Called' \subseteq Called \cup {f, g}
<1> DEFINE n == Len(stack)
<1>0. stack \in Seq(Frame \cup {f, g})
  BY SeqDef
<1>1. /\ stack' \in Seq(Frame \cup {f, g}) /\ Len(stack') = n + 1
      /\ n \in Nat \ {0} /\ stack'[n + 1] = g /\ stack'[n] = f
      /\ \A k \in 1..(n - 1) : stack'[k] = stack[k]
  BY <1>0, PushOnTop DEF Call
<1>2. DOMAIN stack = 1..n /\ DOMAIN stack' = 1..(n + 1) /\ stack' # <<>>
  BY <1>1, LenProperties, EmptySeq
<1> HIDE DEF n
<1>3. Top' = g /\ Below' = Below \cup {f}
  BY <1>1, <1>2 DEF Top, Below, n
<1>4. Frames' = Below \cup {f, g}
  BY <1>1, <1>2 DEF Frames, Below, n
<1>5. Called' \subseteq Called \cup {f, g}
  BY <1>1, <1>2 DEF Called, n
<1> QED BY <1>2, <1>3, <1>4, <1>5

(* A return takes the frame on top away. *)
LEMMA ReturnFrames ==
    ASSUME stack \in Seq(Frame), stack # <<>>, Return
    PROVE  /\ stack' # <<>> => Top' \in Below
           /\ Frames' = Below /\ Below' \subseteq Below /\ Called' \subseteq Called
<1> DEFINE n == Len(stack)
<1>1. /\ stack' \in Seq(Frame) /\ Len(stack') = n - 1 /\ n \in Nat \ {0}
      /\ \A k \in 1..(n - 1) : stack'[k] = stack[k]
  BY PopTop DEF Return
<1>2. DOMAIN stack = 1..n /\ DOMAIN stack' = 1..(n - 1)
  BY <1>1, LenProperties
<1>3. stack' # <<>> => n - 1 \in 1..(n - 1)
  BY <1>1, EmptySeq
<1> HIDE DEF n
<1>4. stack' # <<>> => Top' \in Below
  BY <1>1, <1>3 DEF Top, Below, n
<1>5. Frames' = Below /\ Below' \subseteq Below /\ Called' \subseteq Called
  BY <1>1, <1>2 DEF Frames, Below, Called, n
<1> QED BY <1>4, <1>5

(* Whatever the function on top does, the functions below it stay. *)
LEMMA MovesKeepBelow ==
    ASSUME stack \in Seq(Frame), stack # <<>>, StackMoves
    PROVE  Below \subseteq Frames'
<1>1. CASE \E f : Goto(f)
  BY <1>1, GotoFrames
<1>2. CASE \E f, g : Call(f, g)
  BY <1>2, CallFrames
<1>3. CASE Return
  BY <1>3, ReturnFrames
<1> QED BY <1>1, <1>2, <1>3 DEF StackMoves

-----------------------------------------------------------------------------
(* The shape of the stack.  The functions that call are those of the       *)
(* publications, of the loops over the list and of the outermost           *)
(* coroutines; an encounter and a Start of the manager begin a burst, or   *)
(* take the place of what began it.                                        *)
CallingPlaces ==
    {"pause", "publishStop", "publishInterrupt", "stopEach", "stopAll", "accept", "buttonOff"}
Outermost(f) ==
    f.pc \in {"accept", "ContinueGlobalTask"} \/ (f.pc = "Start" /\ f.at = Mgr)

Shape ==
    /\ \A f \in Below : f.pc \in CallingPlaces
    /\ \A f \in Called : ~Outermost(f)

(* The fields of a new frame. *)
LEMMA FrameFields ==
    /\ \A pc, s : F(pc, s).pc = pc /\ F(pc, s).at = s /\ F(pc, s).i = 0
    /\ \A f \in Frame, n \in Nat :
          LET g == [f EXCEPT !.i = n] IN g.pc = f.pc /\ g.at = f.at /\ g.i = n
    /\ \A f \in Frame : Step(f).pc = f.pc /\ Step(f).at = f.at /\ Step(f).i = f.i + 1
BY DEF F, Frame, Step

(* What is not outermost by its place. *)
LEMMA CalledPlaces ==
    ASSUME NEW f, f.pc \notin {"accept", "ContinueGlobalTask", "Start"}
    PROVE  ~Outermost(f)
BY DEF Outermost

(* A goto keeps the shape unless it turns what was called into something   *)
(* that nothing calls.                                                     *)
LEMMA ShapeGoto ==
    ASSUME stack \in Seq(Frame), stack # <<>>, NEW f, Goto(f), Shape,
           Outermost(f) => Outermost(Top)
    PROVE  Shape'
<1>1. /\ Below' = Below /\ Called' \subseteq Called \cup {f} /\ (Called = {} => Called' = {})
  BY GotoFrames
<1>2. Outermost(f) => Called = {}
  BY SomeFrames DEF Shape
<1>3. \A g \in Called' : ~Outermost(g)
  BY <1>1, <1>2 DEF Shape
<1> QED BY <1>1, <1>3 DEF Shape, Outermost

(* A call keeps the shape. *)
LEMMA ShapeCall ==
    ASSUME stack \in Seq(Frame), stack # <<>>, NEW f, NEW g, Call(f, g), Shape,
           f.pc \in CallingPlaces, ~Outermost(f), ~Outermost(g)
    PROVE  Shape'
<1>1. Below' = Below \cup {f} /\ Called' \subseteq Called \cup {f, g}
  BY CallFrames
<1> QED BY <1>1 DEF Shape, Outermost

(* A return keeps the shape. *)
LEMMA ShapeReturn ==
    ASSUME stack \in Seq(Frame), stack # <<>>, Return, Shape
    PROVE  Shape'
<1>1. Below' \subseteq Below /\ Called' \subseteq Called
  BY ReturnFrames
<1> QED BY <1>1 DEF Shape, Outermost

(* A burst begins in shape. *)
LEMMA ShapeBegin ==
    ASSUME NEW f, Begin(f)
    PROVE  Shape'
BY BeginFrames DEF Shape

(* Every step keeps the shape. *)
LEMMA ShapeStep == TypeOK /\ Shape /\ [Next]_vars => Shape'
<1> SUFFICES ASSUME TypeOK, Shape, [Next]_vars PROVE Shape'
  OBVIOUS
<1> Mgr \in Scripts /\ Logics \subseteq Scripts /\ Mgr \notin Logics /\ Forms \subseteq Scripts
  BY ScriptAssumption DEF Scripts, Forms
<1> stack \in Seq(Frame)
  BY DEF TypeOK
<1>a. ASSUME NEW pc, NEW s, pc \notin {"accept", "ContinueGlobalTask"}, pc = "Start" => s # Mgr
      PROVE  ~Outermost(F(pc, s))
  BY <1>a, FrameFields DEF Outermost
<1>b. ASSUME stack # <<>>, NEW n \in Nat, Top.pc \notin {"accept", "ContinueGlobalTask", "Start"}
      PROVE  /\ [Top EXCEPT !.i = n].pc = Top.pc /\ ~Outermost([Top EXCEPT !.i = n])
             /\ Step(Top).pc = Top.pc /\ ~Outermost(Step(Top))
  <2>1. Top \in Frame
    BY <1>b, TopFrame
  <2>2. [Top EXCEPT !.i = n].pc = Top.pc /\ Step(Top).pc = Top.pc
    BY <2>1, FrameFields
  <2> QED BY <1>b, <2>2, CalledPlaces
<1>c. ASSUME NEW n \in Nat
      PROVE  ~Outermost([F("waitA", Mgr) EXCEPT !.i = n])
  <2>1. F("waitA", Mgr) \in Frame /\ F("waitA", Mgr).pc = "waitA"
    BY NewFrame, FrameFields DEF Places
  <2>2. [F("waitA", Mgr) EXCEPT !.i = n].pc = "waitA"
    BY <2>1, FrameFields
  <2> QED BY <2>2, CalledPlaces
<1>1. ASSUME NEW l \in Logics, LogicStart(l) \/ LogicStop(l) \/ OnTaskInterrupt(l)
      PROVE  Shape'
  <2>1. \A pc \in {"Stop", "loop", "publishStop"} : ~Outermost(F(pc, l))
    BY <1>a
  <2>2. stack # <<>> /\ (Return \/ \E pc \in {"Stop", "loop", "publishStop"} : Goto(F(pc, l)))
    BY <1>1 DEF LogicStart, LogicStop, OnTaskInterrupt, First, AtScript, At
  <2> QED BY <2>1, <2>2, ShapeGoto, ShapeReturn
<1>2. ASSUME NEW l \in Logics, LogicBusy(l) \/ LogicPause(l)
      PROVE  Shape'
  BY <1>2, ShapeReturn DEF LogicBusy, LogicPause, Pause, AtScript, At
<1>3. ASSUME NEW l \in Logics, LogicPass(l)
      PROVE  Shape'
  <2>1. /\ ~Outermost(F("Stop", l)) /\ ~Outermost(F("pause", l))
        /\ ~Outermost(F("publishInterrupt", l)) /\ ~Outermost(F("StopGlobalTask", Mgr))
    BY <1>a
  <2>2. F("pause", l).pc \in CallingPlaces
    BY FrameFields DEF CallingPlaces
  <2> QED BY <1>3, <2>1, <2>2, ShapeCall DEF LogicPass, AtScript, At
<1>4. ASSUME NEW s \in Scripts, PublishStop(s)
      PROVE  Shape'
  <2>1. stack # <<>> /\ Top.pc = "publishStop"
    BY <1>4 DEF PublishStop, AtScript, At
  <2>2. ~Outermost(F("unsubscribeAll", Mgr))
    BY <1>a
  <2>3. \/ Return
        \/ \E k \in Nat : \/ Goto([Top EXCEPT !.i = k])
                          \/ Call([Top EXCEPT !.i = k], F("unsubscribeAll", Mgr))
    BY <1>4, MatchesAfterType DEF PublishStop, First, TypeOK
  <2>4. CASE Return
    BY <2>1, <2>4, ShapeReturn
  <2>5. ASSUME NEW k \in Nat, \/ Goto([Top EXCEPT !.i = k])
                              \/ Call([Top EXCEPT !.i = k], F("unsubscribeAll", Mgr))
        PROVE  Shape'
    <3>1. ~Outermost([Top EXCEPT !.i = k]) /\ [Top EXCEPT !.i = k].pc \in CallingPlaces
      BY <1>b, <2>1 DEF CallingPlaces
    <3> QED BY <2>1, <2>2, <2>5, <3>1, ShapeGoto, ShapeCall
  <2> QED BY <2>3, <2>4, <2>5
<1>5. ASSUME NEW l \in Logics, PublishInterrupt(l)
      PROVE  Shape'
  <2>1. stack # <<>> /\ Top.pc = "publishInterrupt"
    BY <1>5 DEF PublishInterrupt, AtScript, At
  <2>2. ~Outermost(F("onTaskInterrupt", l))
    BY <1>a
  <2>3. \/ Return
        \/ \E k \in Nat : Call([Top EXCEPT !.i = k], F("onTaskInterrupt", l))
    BY <1>5, MatchesAfterType DEF PublishInterrupt, First, TypeOK
  <2>4. CASE Return
    BY <2>1, <2>4, ShapeReturn
  <2>5. ASSUME NEW k \in Nat, Call([Top EXCEPT !.i = k], F("onTaskInterrupt", l))
        PROVE  Shape'
    <3>1. ~Outermost([Top EXCEPT !.i = k]) /\ [Top EXCEPT !.i = k].pc \in CallingPlaces
      BY <1>b, <2>1 DEF CallingPlaces
    <3> QED BY <2>1, <2>2, <2>5, <3>1, ShapeCall
  <2> QED BY <2>3, <2>4, <2>5
<1>6. ASSUME Start \/ Stop \/ AllDone \/ WaitForAny
      PROVE  Shape'
  <2>1. \A pc \in {"unsubscribeAll", "Stop", "stopEach", "waitB"} : ~Outermost(F(pc, Mgr))
    BY <1>a
  <2>2. /\ stack # <<>>
        /\ Return \/ \E pc \in {"unsubscribeAll", "Stop", "stopEach", "waitB"} : Goto(F(pc, Mgr))
    BY <1>6 DEF Start, Stop, AllDone, WaitForAny, AtScript, At
  <2> QED BY <2>1, <2>2, ShapeGoto, ShapeReturn
<1>7. ASSUME StopEach \/ UnsubscribeAll \/ StopAll \/ SubscribeAll
      PROVE  Shape'
  <2>1. stack # <<>> /\ Top.pc \in {"stopEach", "unsubscribeAll", "stopAll", "subscribeAll"}
    BY <1>7 DEF StopEach, UnsubscribeAll, StopAll, SubscribeAll, At
  <2>2. /\ ~Outermost(Step(Top))
        /\ Top.pc \in {"stopEach", "stopAll"} => Step(Top).pc \in CallingPlaces
    BY <1>b, <2>1 DEF CallingPlaces
  <2>3. \A pc \in {"publishStop", "stopAll", "subscribeAll", "pick"} : ~Outermost(F(pc, Mgr))
    BY <1>a
  <2>4. ~LoopDone => ~Outermost(F("Stop", LoopTask))
    BY <1>a, <2>1, LoopTaskIsLogic
  <2>5. \/ \E pc \in {"publishStop", "stopAll", "subscribeAll", "pick"} : Goto(F(pc, Mgr))
        \/ Goto(Step(Top))
        \/ ~LoopDone /\ Top.pc \in {"stopEach", "stopAll"} /\ Call(Step(Top), F("Stop", LoopTask))
    BY <1>7 DEF StopEach, UnsubscribeAll, StopAll, SubscribeAll, At
  <2> QED BY <2>1, <2>2, <2>3, <2>4, <2>5, ShapeGoto, ShapeCall
<1>8. ASSUME Pick \/ WaitForTask
      PROVE  Shape'
  <2>1. \A k \in Runnable : ~Outermost(F("Start", todo[k]))
    BY <1>a, TodoTask DEF Runnable
  <2>2. CanRunNoiTu => ~Outermost(F("Start", NoiTu))
    BY <1>a, TodoTask DEF CanRunNoiTu
  <2>3. ~Outermost([F("waitA", Mgr) EXCEPT !.i = Len(todo)])
    BY <1>c, TodoTask
  <2>4. ~Outermost(F("allDone", Mgr))
    BY <1>a
  <2>5. /\ stack # <<>>
        /\ \/ Return \/ Goto(F("allDone", Mgr)) \/ Goto([F("waitA", Mgr) EXCEPT !.i = Len(todo)])
           \/ CanRunNoiTu /\ Goto(F("Start", NoiTu))
           \/ \E k \in Runnable : Goto(F("Start", todo[k]))
    BY <1>8 DEF Pick, WaitForTask, First, At
  <2> QED BY <2>1, <2>2, <2>3, <2>4, <2>5, ShapeGoto, ShapeReturn
<1>9. ASSUME StopGlobalTask
      PROVE  Shape'
  <2>1. \A s \in Scripts : ~Outermost(F("Stop", s))
    BY <1>a
  <2>2. stack # <<>> /\ (Return \/ \E s \in Scripts : Goto(F("Stop", s)))
    BY <1>9 DEF StopGlobalTask, At
  <2> QED BY <2>1, <2>2, ShapeGoto, ShapeReturn
<1>10. ASSUME ContinueGlobalTask \/ Accept \/ ButtonOff
       PROVE  Shape'
  <2>1. /\ stack # <<>>
        /\ \/ Return
           \/ Outermost(Top) /\ Goto(F("Start", suspended))
           \/ Outermost(Top) /\ Goto(F("ContinueGlobalTask", Mgr))
    BY <1>10 DEF ContinueGlobalTask, Accept, ButtonOff, At, Outermost
  <2> QED BY <2>1, ShapeGoto, ShapeReturn
<1>11. ASSUME Encounter
       PROVE  Shape'
  <2>1. stack' = <<F("accept", Mgr), F("StopGlobalTask", Mgr)>>
    BY <1>11 DEF Encounter
  <2>2. Below' = {F("accept", Mgr)} /\ Called' = {F("StopGlobalTask", Mgr)}
    BY <2>1, BeginTwoFrames
  <2>3. F("accept", Mgr).pc \in CallingPlaces /\ ~Outermost(F("StopGlobalTask", Mgr))'
    BY FrameFields DEF CallingPlaces, Outermost
  <2> QED BY <2>2, <2>3 DEF Shape
<1>12. ASSUME NEW f \in Forms, ClickStop(f)
       PROVE  Shape'
  <2>1. stack' = <<F("buttonOff", f), F("Stop", f)>>
    BY <1>12 DEF ClickStop
  <2>2. Below' = {F("buttonOff", f)} /\ Called' = {F("Stop", f)}
    BY <2>1, BeginTwoFrames
  <2>3. F("buttonOff", f).pc \in CallingPlaces /\ ~Outermost(F("Stop", f))'
    BY FrameFields DEF CallingPlaces, Outermost
  <2> QED BY <2>2, <2>3 DEF Shape
<1>13. CASE \E f : Begin(f)
  BY <1>13, ShapeBegin
<1>14. CASE UNCHANGED stack
  BY <1>14 DEF Shape, Outermost, Below, Called
<1>15. ASSUME NEW l \in Logics, LogicWake(l) \/ ReadyChanges(l) \/ TimeChanges(l) \/ StopMessage(l)
       PROVE  UNCHANGED stack \/ \E f : Begin(f)
  BY <1>15 DEF LogicWake, ReadyChanges, TimeChanges, StopMessage
<1>16. ASSUME NEW f \in Forms, OpenForm(f) \/ CloseForm(f) \/ ClickStart(f)
       PROVE  UNCHANGED stack \/ \E g : Begin(g)
  BY <1>16 DEF OpenForm, CloseForm, ClickStart
<1>17. ASSUME WakeWaitA \/ WakeWaitB \/ EncounterOver \/ LifeChanges \/ ThrottleExpires
       PROVE  UNCHANGED stack \/ \E f : Begin(f)
  BY <1>17 DEF WakeWaitA, WakeWaitB, EncounterOver, LifeChanges, ThrottleExpires
<1>18. CASE UNCHANGED vars
  BY <1>14, <1>18 DEF vars
<1> QED
  BY <1>1, <1>2, <1>3, <1>4, <1>5, <1>6, <1>7, <1>8, <1>9, <1>10, <1>11, <1>12, <1>13,
     <1>14, <1>15, <1>16, <1>17, <1>18
  DEF Next, Burst, Wake, User, Game

-----------------------------------------------------------------------------
(* What is in the list of subscriptions after a change. *)

(* Subscribe adds its entry and no other. *)
LEMMA SubscribedHolds ==
    ASSUME NEW S, NEW s \in Seq(S), NEW e \in S, NEW x
    PROVE  IsSubscribing(Subscribed(s, e), x) <=> x = e \/ IsSubscribing(s, x)
<1>1. CASE IsSubscribing(s, e)
  BY <1>1 DEF Subscribed
<1>2. CASE ~IsSubscribing(s, e)
  <2> DEFINE r == Append(s, e)
  <2>1. /\ Len(r) = Len(s) + 1 /\ Len(s) \in Nat
        /\ \A k \in 1..Len(s) : r[k] = s[k]
        /\ r[Len(s) + 1] = e
    OBVIOUS
  <2> HIDE DEF r
  <2>2. IsSubscribing(r, x) <=> x = e \/ IsSubscribing(s, x)
    BY <2>1 DEF IsSubscribing, Contains
  <2> QED BY <1>2, <2>2 DEF Subscribed, r
<1> QED BY <1>1, <1>2

(* Unsubscribe adds nothing and takes nothing but its entry. *)
LEMMA UnsubscribedHolds ==
    ASSUME NEW S, NEW s \in Seq(S), NEW e \in S, NEW x
    PROVE  /\ IsSubscribing(Unsubscribed(s, e), x) => IsSubscribing(s, x)
           /\ x # e /\ IsSubscribing(s, x) => IsSubscribing(Unsubscribed(s, e), x)
<1>1. CASE ~IsSubscribing(s, e)
  BY <1>1 DEF Unsubscribed
<1>2. CASE IsSubscribing(s, e)
  <2> DEFINE i == PositionOf(s, e)
             r == RemoveAt(s, i)
  <2>1. \E k \in DOMAIN s : s[k] = e
    BY <1>2, LenProperties DEF IsSubscribing, Contains
  <2>2. i \in 1..Len(s) /\ s[i] = e /\ Len(s) \in Nat
    BY <2>1, LenProperties DEF PositionOf
  <2> HIDE DEF i
  <2>3. /\ Len(r) = Len(s) - 1
        /\ \A k \in 1..(Len(s) - 1) : r[k] = IF k < i THEN s[k] ELSE s[k + 1]
    BY <2>2, RemoveAtProperties
  <2>4. Unsubscribed(s, e) = r
    BY <1>2 DEF Unsubscribed, i
  <2> HIDE DEF r
  <2>5. ASSUME NEW k \in 1..Len(r)
        PROVE  \E j \in 1..Len(s) : r[k] = s[j]
    <3>1. CASE k < i
      BY <2>2, <2>3, <3>1
    <3>2. CASE ~(k < i)
      <4>1. k + 1 \in 1..Len(s) /\ r[k] = s[k + 1]
        BY <2>2, <2>3, <3>2
      <4> QED BY <4>1
    <3> QED BY <3>1, <3>2
  <2>6. ASSUME NEW j \in 1..Len(s), s[j] # e
        PROVE  \E k \in 1..Len(r) : r[k] = s[j]
    <3>1. CASE j < i
      BY <2>2, <2>3, <3>1
    <3>2. CASE ~(j < i)
      <4>1. j - 1 \in 1..Len(r) /\ ~(j - 1 < i) /\ (j - 1) + 1 = j
        BY <2>2, <2>3, <2>6, <3>2
      <4>2. r[j - 1] = s[j]
        BY <2>3, <4>1
      <4> QED BY <4>1, <4>2
    <3> QED BY <3>1, <3>2
  <2> QED BY <2>4, <2>5, <2>6 DEF IsSubscribing, Contains
<1> QED BY <1>1, <1>2

(* The subscriptions of the manager to a task, at once. *)
LEMMA TaskListHolds ==
    ASSUME NEW s \in Seq(Subscription), NEW l \in Logics, NEW x
    PROVE  /\ IsSubscribing(WithTask(s, l), x) <=>
                 x \in {Sub(l, "stop"), Sub(l, "interrupt")} \/ IsSubscribing(s, x)
           /\ IsSubscribing(WithoutTask(s, l), x) => IsSubscribing(s, x)
           /\ x \notin {Sub(l, "stop"), Sub(l, "interrupt")} /\ IsSubscribing(s, x) =>
                 IsSubscribing(WithoutTask(s, l), x)
<1>1. Sub(l, "stop") \in Subscription /\ Sub(l, "interrupt") \in Subscription
  BY SubscriptionTypes
<1>2. /\ Subscribed(s, Sub(l, "stop")) \in Seq(Subscription)
      /\ Unsubscribed(s, Sub(l, "stop")) \in Seq(Subscription)
  BY <1>1, ListTypes
<1> QED BY <1>1, <1>2, SubscribedHolds, UnsubscribedHolds DEF WithTask, WithoutTask

(* A subscription of the manager is none of a form's, and each has the     *)
(* source it names.                                                        *)
LEMMA SubscriptionFields ==
    /\ \A l, ev : Sub(l, ev).src = l /\ Sub(l, ev).ev = ev /\ Sub(l, ev).sub = "manager"
    /\ \A f : FormSub(f).src = f /\ FormSub(f).ev = "stop" /\ FormSub(f).sub = "form"
BY DEF Sub, FormSub

-----------------------------------------------------------------------------
(* The button of the manager's form. *)

(* Only its form listens to the manager, and while its button says "Stop"  *)
(* the form does.                                                          *)
FormListens ==
    /\ \A e \in Subscription : IsSubscribing(subs, e) /\ e.src = Mgr => e.sub = "form"
    /\ btn[Mgr] => IsSubscribing(subs, FormSub(Mgr))

(* A function in progress that is to turn the button off. *)
WillTurnOff(f) ==
    /\ f.at = Mgr
    /\ f.pc \in {"Start", "Stop", "stopEach", "buttonOff"} \/ (f.pc = "publishStop" /\ f.i = 0)

ButtonGoesOff == btn[Mgr] /\ ~running[Mgr] => \E f \in Frames : WillTurnOff(f)

ButtonInv == FormListens /\ ButtonGoesOff

(* Every step keeps the form listening. *)
LEMMA FormListensStep == TypeOK /\ FormListens /\ [Next]_vars => FormListens'
<1> SUFFICES ASSUME TypeOK, FormListens, [Next]_vars PROVE FormListens'
  OBVIOUS
<1> Mgr \notin Logics /\ Mgr \in Forms
  BY ScriptAssumption DEF Forms
<1>0. subs \in Seq(Subscription) /\ btn \in [Forms -> BOOLEAN]
  BY DEF TypeOK
<1>a. \A f \in Forms : FormSub(f) \in Subscription
  BY SubscriptionTypes
<1>1. ASSUME StopEach \/ UnsubscribeAll
      PROVE  FormListens'
  <2>1. ~LoopDone => LoopTask \in Logics
    BY <1>1, LoopTaskIsLogic DEF StopEach, UnsubscribeAll, At
  <2>0. UNCHANGED btn
    BY <1>1 DEF StopEach, UnsubscribeAll, ui
  <2>2. UNCHANGED subs \/ (~LoopDone /\ subs' = WithoutTask(subs, LoopTask))
    BY <1>1 DEF StopEach, UnsubscribeAll
  <2>3. CASE UNCHANGED subs
    BY <2>0, <2>3 DEF FormListens, FormSub
  <2>4. CASE ~LoopDone /\ subs' = WithoutTask(subs, LoopTask)
    <3>1. \A x : /\ IsSubscribing(subs', x) => IsSubscribing(subs, x)
                 /\ x.src # LoopTask /\ IsSubscribing(subs, x) => IsSubscribing(subs', x)
      BY <1>0, <2>1, <2>4, TaskListHolds, SubscriptionFields
    <3>2. FormSub(Mgr).src = Mgr
      BY SubscriptionFields
    <3> QED BY <2>0, <2>1, <2>4, <3>1, <3>2 DEF FormListens, FormSub
  <2> QED BY <2>2, <2>3, <2>4
<1>2. ASSUME SubscribeAll
      PROVE  FormListens'
  <2>1. ~LoopDone => LoopTask \in Logics
    BY <1>2, LoopTaskIsLogic DEF SubscribeAll, At
  <2>0. UNCHANGED btn
    BY <1>2 DEF SubscribeAll, ui
  <2>2. UNCHANGED subs \/ (~LoopDone /\ subs' = WithTask(subs, LoopTask))
    BY <1>2 DEF SubscribeAll
  <2>3. CASE UNCHANGED subs
    BY <2>0, <2>3 DEF FormListens, FormSub
  <2>4. CASE ~LoopDone /\ subs' = WithTask(subs, LoopTask)
    <3>1. \A x : /\ IsSubscribing(subs, x) => IsSubscribing(subs', x)
                 /\ IsSubscribing(subs', x) /\ x.src # LoopTask => IsSubscribing(subs, x)
      BY <1>0, <2>1, <2>4, TaskListHolds, SubscriptionFields
    <3> QED BY <2>0, <2>1, <2>4, <3>1 DEF FormListens, FormSub
  <2> QED BY <2>2, <2>3, <2>4
<1>3. ASSUME NEW f \in Forms, OpenForm(f) \/ ClickStart(f)
      PROVE  FormListens'
  <2>1. \/ subs' = Subscribed(subs, FormSub(f)) /\ \E b \in BOOLEAN : btn' = [btn EXCEPT ![f] = b]
        \/ UNCHANGED subs /\ btn' = [btn EXCEPT ![f] = FALSE]
    BY <1>3, ScriptAssumption DEF OpenForm, ClickStart, TypeOK, Forms, Scripts
  <2>2. \A x : /\ IsSubscribing(subs, x) => IsSubscribing(subs', x)
               /\ IsSubscribing(subs', x) => x = FormSub(f) \/ IsSubscribing(subs, x)
    BY <1>0, <1>a, <2>1, SubscribedHolds
  <2>3. btn'[Mgr] => btn[Mgr] \/ (f = Mgr /\ subs' = Subscribed(subs, FormSub(Mgr)))
    BY <1>0, <2>1
  <2>4. subs' = Subscribed(subs, FormSub(f)) => IsSubscribing(subs', FormSub(f))
    BY <1>0, <1>a, SubscribedHolds
  <2> QED BY <2>2, <2>3, <2>4, SubscriptionFields DEF FormListens, FormSub
<1>4. ASSUME NEW f \in Forms, CloseForm(f)
      PROVE  FormListens'
  <2>1. subs' = Unsubscribed(subs, FormSub(f)) /\ btn' = [btn EXCEPT ![f] = FALSE]
    BY <1>4 DEF CloseForm
  <2>2. \A x : /\ IsSubscribing(subs', x) => IsSubscribing(subs, x)
               /\ x # FormSub(f) /\ IsSubscribing(subs, x) => IsSubscribing(subs', x)
    BY <1>0, <1>a, <2>1, UnsubscribedHolds
  <2>3. btn'[Mgr] => btn[Mgr] /\ f # Mgr
    BY <1>0, <2>1
  <2>4. f # Mgr => FormSub(f) # FormSub(Mgr)
    BY SubscriptionFields
  <2> QED BY <2>2, <2>3, <2>4 DEF FormListens, FormSub
<1>5. ASSUME NEW s \in Scripts, PublishStop(s)
      PROVE  FormListens'
  <2>1. UNCHANGED subs /\ (UNCHANGED btn \/ btn' = [btn EXCEPT ![s] = FALSE])
    BY <1>5 DEF PublishStop
  <2>2. btn'[Mgr] => btn[Mgr]
    BY <1>0, <2>1
  <2> QED BY <2>1, <2>2 DEF FormListens, FormSub
<1>6. ASSUME ButtonOff
      PROVE  FormListens'
  <2>1. UNCHANGED subs /\ btn' = [btn EXCEPT ![Top.at] = FALSE]
    BY <1>6 DEF ButtonOff
  <2>2. btn'[Mgr] => btn[Mgr]
    BY <1>0, <2>1
  <2> QED BY <2>1, <2>2 DEF FormListens, FormSub
<1>7. CASE UNCHANGED <<subs, btn>>
  BY <1>7 DEF FormListens, FormSub
<1>8. ASSUME NEW l \in Logics,
             \/ LogicStart(l) \/ LogicBusy(l) \/ LogicPass(l) \/ LogicPause(l) \/ LogicStop(l)
             \/ LogicWake(l) \/ PublishInterrupt(l) \/ OnTaskInterrupt(l)
             \/ ReadyChanges(l) \/ TimeChanges(l) \/ StopMessage(l)
      PROVE  UNCHANGED <<subs, btn>>
  BY <1>8 DEF LogicStart, LogicBusy, LogicPass, LogicPause, LogicStop, LogicWake, ui,
              PublishInterrupt, OnTaskInterrupt, ReadyChanges, TimeChanges, StopMessage
<1>9. ASSUME \/ \E f \in Forms : ClickStop(f)
             \/ Start \/ Stop \/ StopAll \/ Pick \/ WaitForTask \/ AllDone \/ WaitForAny
             \/ WakeWaitA \/ WakeWaitB
      PROVE  UNCHANGED <<subs, btn>>
  BY <1>9 DEF ClickStop, Start, Stop, StopAll, Pick, WaitForTask, AllDone,
              WaitForAny, WakeWaitA, WakeWaitB, ui
<1>10. ASSUME \/ StopGlobalTask \/ ContinueGlobalTask \/ Accept \/ Encounter
              \/ EncounterOver \/ LifeChanges \/ ThrottleExpires \/ UNCHANGED vars
       PROVE  UNCHANGED <<subs, btn>>
  BY <1>10 DEF StopGlobalTask, ContinueGlobalTask, Accept, Encounter, EncounterOver,
               LifeChanges, ThrottleExpires, vars, ui
<1> QED
  BY <1>1, <1>2, <1>3, <1>4, <1>5, <1>6, <1>7, <1>8, <1>9, <1>10
  DEF Next, Burst, Wake, User, Game

(* A step of the stack keeps the function that is to turn the button off,  *)
(* unless that is the one on top.                                          *)
LEMMA ButtonKept ==
    ASSUME TypeOK, ButtonGoesOff, stack # <<>>, StackMoves,
           btn[Mgr]' => btn[Mgr], running[Mgr] => running[Mgr]', ~WillTurnOff(Top)
    PROVE  ButtonGoesOff'
<1>1. stack \in Seq(Frame)
  BY DEF TypeOK
<1>2. Below \subseteq Frames' /\ Frames = Below \cup {Top}
  BY <1>1, MovesKeepBelow, SomeFrames
<1> QED BY <1>2 DEF ButtonGoesOff, WillTurnOff

(* The function that is to turn the button off calls, or goes on as, one   *)
(* that is.                                                                *)
LEMMA ButtonPassedOn ==
    ASSUME NEW f \in Frames', WillTurnOff(f)
    PROVE  ButtonGoesOff'
BY DEF ButtonGoesOff, WillTurnOff

(* Between bursts the button already tells the truth. *)
LEMMA ButtonBetween ==
    ASSUME ButtonGoesOff, stack = <<>>, btn[Mgr]' => btn[Mgr], running[Mgr] => running[Mgr]'
    PROVE  ButtonGoesOff'
BY NoFrames DEF ButtonGoesOff

(* Every step keeps ButtonGoesOff. *)
LEMMA ButtonStep == TypeOK /\ ButtonInv /\ [Next]_vars => ButtonGoesOff'
<1> SUFFICES ASSUME TypeOK, ButtonInv, [Next]_vars PROVE ButtonGoesOff'
  OBVIOUS
<1> Mgr \in Scripts /\ Logics \subseteq Scripts /\ Mgr \notin Logics /\ Mgr \in Forms
  BY ScriptAssumption DEF Scripts, Forms
<1>0. /\ stack \in Seq(Frame) /\ btn \in [Forms -> BOOLEAN] /\ running \in [Scripts -> BOOLEAN]
      /\ FormListens /\ ButtonGoesOff
  BY DEF TypeOK, ButtonInv
<1>1. ASSUME NEW l \in Logics, LogicStart(l) \/ LogicStop(l)
      PROVE  ButtonGoesOff'
  <2>1. stack # <<>> /\ Top.at = l /\ StackMoves /\ UNCHANGED btn
    BY <1>1 DEF LogicStart, LogicStop, AtScript, At, StackMoves, ui
  <2>2. running' = running \/ \E b \in BOOLEAN : running' = [running EXCEPT ![l] = b]
    BY <1>1 DEF LogicStart, LogicStop
  <2>3. running'[Mgr] = running[Mgr]
    BY <1>0, <2>2
  <2>4. ~WillTurnOff(Top)
    BY <2>1 DEF WillTurnOff
  <2> QED BY <1>0, <2>1, <2>3, <2>4, ButtonKept
<1>2. ASSUME NEW l \in Logics,
             \/ LogicBusy(l) \/ LogicPass(l) \/ LogicPause(l)
             \/ PublishInterrupt(l) \/ OnTaskInterrupt(l)
      PROVE  ButtonGoesOff'
  <2>1. stack # <<>> /\ Top.at = l /\ StackMoves /\ UNCHANGED <<btn, running>>
    BY <1>2 DEF LogicBusy, LogicPass, LogicPause, Pause, PublishInterrupt, OnTaskInterrupt,
                AtScript, At, StackMoves, First, ui
  <2> QED BY <1>0, <2>1, ButtonKept DEF WillTurnOff
<1>3. ASSUME NEW s \in Scripts, PublishStop(s)
      PROVE  ButtonGoesOff'
  <2>1. stack # <<>> /\ Top.at = s /\ Top.pc = "publishStop" /\ StackMoves /\ UNCHANGED <<subs, running>>
    BY <1>3 DEF PublishStop, AtScript, At, StackMoves, First
  <2>2. UNCHANGED btn \/ btn' = [btn EXCEPT ![s] = FALSE]
    BY <1>3 DEF PublishStop
  <2>3. CASE ~WillTurnOff(Top)
    BY <1>0, <2>1, <2>2, <2>3, ButtonKept
  <2>4. CASE WillTurnOff(Top) /\ btn[Mgr]
    <3>1. s = Mgr /\ Top.i = 0
      BY <2>1, <2>4 DEF WillTurnOff
    <3>2. FormSub(Mgr).src = Mgr /\ FormSub(Mgr).ev = "stop"
      BY SubscriptionFields
    <3>3. \E k \in 1..Len(subs) : subs[k] = FormSub(Mgr)
      BY <1>0, <2>4 DEF FormListens, IsSubscribing, Contains
    <3>4. MatchesAfter(subs, Top.i, s, "stop") # {}
      <4>1. PICK k \in 1..Len(subs) : subs[k] = FormSub(Mgr)
        BY <3>3
      <4>2. k \in DOMAIN subs /\ k > 0
        BY LenProperties DEF TypeOK
      <4> QED BY <3>1, <3>2, <4>1, <4>2 DEF MatchesAfter
    <3>5. \A k \in MatchesAfter(subs, Top.i, s, "stop") : subs[k].sub = "form"
      <4> SUFFICES ASSUME NEW k \in MatchesAfter(subs, Top.i, s, "stop")
                   PROVE  subs[k].sub = "form"
        OBVIOUS
      <4>1. subs \in Seq(Subscription) /\ DOMAIN subs = 1..Len(subs)
        BY LenProperties DEF TypeOK
      <4>2. k \in 1..Len(subs) /\ subs[k].src = Mgr
        BY <3>1, <4>1 DEF MatchesAfter
      <4>3. subs[k] \in Subscription /\ IsSubscribing(subs, subs[k])
        BY <4>1, <4>2, ElementOfSeq DEF IsSubscribing, Contains
      <4> QED BY <1>0, <4>2, <4>3 DEF FormListens
    <3>6. btn' = [btn EXCEPT ![s] = FALSE]
      BY <1>3, <3>4, <3>5 DEF PublishStop, First
    <3>7. ~btn'[Mgr]
      BY <1>0, <3>1, <3>6
    <3> QED BY <3>7 DEF ButtonGoesOff
  <2>5. CASE ~btn[Mgr]
    <3>1. ~btn'[Mgr]
      BY <1>0, <2>2, <2>5
    <3> QED BY <3>1 DEF ButtonGoesOff
  <2> QED BY <2>3, <2>4, <2>5
<1>4. ASSUME Start
      PROVE  ButtonGoesOff'
  <2>1. CASE running'[Mgr]
    BY <2>1 DEF ButtonGoesOff
  <2>2. CASE ~running'[Mgr]
    <3>1. stack # <<>> /\ Goto(F("Stop", Mgr))
      BY <1>0, <1>4, <2>2 DEF Start, AtScript, At
    <3>2. F("Stop", Mgr) \in Frames'
      BY <1>0, <3>1, GotoFrames
    <3> QED BY <3>2, ButtonPassedOn, FrameFields DEF WillTurnOff
  <2> QED BY <2>1, <2>2
<1>5. ASSUME Stop
      PROVE  ButtonGoesOff'
  <2>1. F("stopEach", Mgr) \in Frames'
    BY <1>0, <1>5, GotoFrames DEF Stop, AtScript, At
  <2> QED BY <2>1, ButtonPassedOn, FrameFields DEF WillTurnOff
<1>6. ASSUME StopEach
      PROVE  ButtonGoesOff'
  <2>1. stack # <<>> /\ Top.pc = "stopEach" /\ StackMoves /\ UNCHANGED <<btn, running>>
    BY <1>6 DEF StopEach, At, StackMoves, ui
  <2>2. CASE ~WillTurnOff(Top)
    BY <1>0, <2>1, <2>2, ButtonKept
  <2>3. CASE WillTurnOff(Top)
    <3>1. Goto(F("publishStop", Mgr)) \/ Call(Step(Top), F("Stop", LoopTask))
      BY <1>6 DEF StopEach
    <3>2. F("publishStop", Mgr) \in Frames' \/ Step(Top) \in Frames'
      BY <1>0, <2>1, <3>1, GotoFrames, CallFrames
    <3>3. WillTurnOff(F("publishStop", Mgr))
      BY FrameFields DEF WillTurnOff
    <3>4. WillTurnOff(Step(Top))
      <4>1. Top \in Frame
        BY <1>0, <2>1, TopFrame
      <4> QED BY <2>1, <2>3, <4>1, FrameFields DEF WillTurnOff
    <3> QED BY <3>2, <3>3, <3>4, ButtonPassedOn
  <2> QED BY <2>2, <2>3
<1>7. ASSUME \/ UnsubscribeAll \/ StopAll \/ SubscribeAll
             \/ Pick \/ WaitForTask \/ AllDone \/ WaitForAny
             \/ StopGlobalTask \/ ContinueGlobalTask \/ Accept
      PROVE  ButtonGoesOff'
  <2>1. /\ stack # <<>> /\ StackMoves /\ UNCHANGED <<btn, running>>
        /\ Top.pc \notin {"Start", "Stop", "stopEach", "buttonOff", "publishStop"}
    BY <1>7 DEF UnsubscribeAll, StopAll, SubscribeAll, Pick, WaitForTask, AllDone, WaitForAny,
                StopGlobalTask, ContinueGlobalTask, Accept, At, StackMoves, First, ui
  <2> QED BY <1>0, <2>1, ButtonKept DEF WillTurnOff
<1>8. ASSUME ButtonOff
      PROVE  ButtonGoesOff'
  <2>1. /\ stack # <<>> /\ StackMoves /\ UNCHANGED running /\ Top.pc = "buttonOff"
        /\ btn' = [btn EXCEPT ![Top.at] = FALSE]
    BY <1>8 DEF ButtonOff, At, StackMoves
  <2>2. CASE Top.at = Mgr
    <3>1. ~btn'[Mgr]
      BY <1>0, <2>1, <2>2
    <3> QED BY <3>1 DEF ButtonGoesOff
  <2>3. CASE Top.at # Mgr
    BY <1>0, <2>1, <2>3, ButtonKept DEF WillTurnOff
  <2> QED BY <2>2, <2>3
<1>9. ASSUME NEW f \in Forms, OpenForm(f) \/ CloseForm(f)
      PROVE  ButtonGoesOff'
  <2>1. btn'[Mgr] => btn[Mgr] \/ running[Mgr]
    BY <1>0, <1>9 DEF OpenForm, CloseForm, Between
  <2>2. stack = <<>> /\ UNCHANGED running
    BY <1>9 DEF OpenForm, CloseForm, Between
  <2> QED BY <1>0, <2>1, <2>2, NoFrames DEF ButtonGoesOff
<1>10. ASSUME NEW f \in Forms, ClickStart(f)
       PROVE  ButtonGoesOff'
  <2>1. /\ stack = <<>> /\ UNCHANGED running /\ btn' = [btn EXCEPT ![f] = TRUE]
        /\ Begin(F("Start", f))
    BY <1>10 DEF ClickStart, Between
  <2>2. CASE f = Mgr
    <3>1. F("Start", Mgr) \in Frames'
      BY <2>1, <2>2, BeginFrames
    <3> QED BY <3>1, ButtonPassedOn, FrameFields DEF WillTurnOff
  <2>3. CASE f # Mgr
    BY <1>0, <2>1, <2>3, ButtonBetween
  <2> QED BY <2>2, <2>3
<1>11. ASSUME \/ WakeWaitA \/ WakeWaitB \/ Encounter \/ EncounterOver
              \/ \E f \in Forms : ClickStop(f)
              \/ \E l \in Logics : LogicWake(l) \/ ReadyChanges(l) \/ TimeChanges(l) \/ StopMessage(l)
              \/ LifeChanges \/ ThrottleExpires
       PROVE  ButtonGoesOff'
  <2>1. stack = <<>> /\ UNCHANGED <<running, btn>>
    BY <1>11 DEF WakeWaitA, WakeWaitB, Encounter, EncounterOver, ClickStop, LogicWake,
                 ReadyChanges, TimeChanges, StopMessage, LifeChanges, ThrottleExpires,
                 Between, ui
  <2> QED BY <1>0, <2>1, ButtonBetween
<1>12. CASE UNCHANGED vars
  BY <1>0, <1>12 DEF vars, ui, ButtonGoesOff, Frames
<1> QED
  BY <1>1, <1>2, <1>3, <1>4, <1>5, <1>6, <1>7, <1>8, <1>9, <1>10, <1>11, <1>12
  DEF Next, Burst, Wake, User, Game

(* Whatever forms are opened and closed, and however the manager was       *)
(* stopped - by its form, by the character's death, by an encounter or     *)
(* because all is done -, once control is back at the engine the button of *)
(* its form says "Stop" only if it runs.                                   *)
THEOREM ButtonTellsTruth == Spec => []ButtonHonest
<1>1. Init => ButtonInv
  <2> SUFFICES ASSUME Init PROVE ButtonInv
    OBVIOUS
  <2>1. subs = <<>> /\ ~btn[Mgr]
    BY DEF Init, Forms
  <2>2. \A e : ~IsSubscribing(subs, e)
    BY <2>1 DEF IsSubscribing, Contains
  <2> QED BY <2>1, <2>2 DEF ButtonInv, FormListens, ButtonGoesOff
<1>2. TypeOK /\ ButtonInv /\ [Next]_vars => ButtonInv'
  BY FormListensStep, ButtonStep DEF ButtonInv
<1>3. ButtonInv => ButtonHonest
  BY NoFrames DEF ButtonInv, ButtonGoesOff, ButtonHonest, Between
<1> QED BY <1>1, <1>2, <1>3, TypeInit, TypeStep, PTL DEF Spec

-----------------------------------------------------------------------------
(* A manager that runs goes on. *)

(* The three places that what follows must tell from the others: the loop  *)
(* of Stop, the loop that subscribes, and the choice of a task.            *)
Marked == {"stopEach", "subscribeAll", "pick"}

(* A step that comes to none of the three. *)
PlainStep ==
    /\ \A f \in Frames' : f \in Below \/ f.pc \notin Marked
    /\ stack' # <<>> => Top' \in Below \/ Top'.pc \notin Marked

(* The moves of the stack that are plain steps. *)
LEMMA PlainMove ==
    ASSUME stack \in Seq(Frame), stack # <<>>,
           \/ Return
           \/ \E f : Goto(f) /\ f.pc \notin Marked
           \/ \E f, g : Call(f, g) /\ f.pc \notin Marked /\ g.pc \notin Marked
    PROVE  PlainStep
<1>1. CASE Return
  BY <1>1, ReturnFrames DEF PlainStep
<1>2. ASSUME NEW f, Goto(f), f.pc \notin Marked
      PROVE  PlainStep
  BY <1>2, GotoFrames DEF PlainStep
<1>3. ASSUME NEW f, NEW g, Call(f, g), f.pc \notin Marked, g.pc \notin Marked
      PROVE  PlainStep
  BY <1>3, CallFrames DEF PlainStep
<1> QED BY <1>1, <1>2, <1>3

(* Only Stop, the loops and the choice come to the three places. *)
LEMMA PlainSteps ==
    ASSUME TypeOK, [Next]_vars
    PROVE  PlainStep \/ Stop \/ StopEach \/ StopAll \/ SubscribeAll \/ UNCHANGED stack
<1> Mgr \in Scripts /\ Logics \subseteq Scripts
  BY ScriptAssumption DEF Scripts
<1>0. stack \in Seq(Frame)
  BY DEF TypeOK
<1>a. ASSUME NEW pc, NEW s, pc \notin Marked
      PROVE  F(pc, s).pc \notin Marked
  BY <1>a, FrameFields
<1>b. ASSUME stack # <<>>, NEW n \in Nat
      PROVE  [Top EXCEPT !.i = n].pc = Top.pc /\ Step(Top).pc = Top.pc
  <2>1. Top \in Frame
    BY <1>b, <1>0, TopFrame
  <2> QED BY <2>1, FrameFields
<1>1. ASSUME NEW l \in Logics, LogicStart(l) \/ LogicStop(l) \/ OnTaskInterrupt(l)
      PROVE  PlainStep
  <2>1. \A pc \in {"Stop", "loop", "publishStop"} : F(pc, l).pc \notin Marked
    BY <1>a DEF Marked
  <2>2. stack # <<>> /\ (Return \/ \E pc \in {"Stop", "loop", "publishStop"} : Goto(F(pc, l)))
    BY <1>1 DEF LogicStart, LogicStop, OnTaskInterrupt, First, AtScript, At
  <2> QED BY <1>0, <2>1, <2>2, PlainMove
<1>2. ASSUME NEW l \in Logics, LogicBusy(l) \/ LogicPause(l)
      PROVE  PlainStep
  BY <1>0, <1>2, PlainMove DEF LogicBusy, LogicPause, Pause, AtScript, At
<1>3. ASSUME NEW l \in Logics, LogicPass(l)
      PROVE  PlainStep
  <2>1. /\ F("Stop", l).pc \notin Marked /\ F("pause", l).pc \notin Marked
        /\ F("publishInterrupt", l).pc \notin Marked /\ F("StopGlobalTask", Mgr).pc \notin Marked
    BY <1>a DEF Marked
  <2> QED BY <1>0, <1>3, <2>1, PlainMove DEF LogicPass, AtScript, At
<1>4. ASSUME NEW s \in Scripts, PublishStop(s)
      PROVE  PlainStep
  <2>1. stack # <<>> /\ Top.pc = "publishStop"
    BY <1>4 DEF PublishStop, AtScript, At
  <2>2. F("unsubscribeAll", Mgr).pc \notin Marked
    BY <1>a DEF Marked
  <2>3. \/ Return
        \/ \E k \in Nat : \/ Goto([Top EXCEPT !.i = k])
                          \/ Call([Top EXCEPT !.i = k], F("unsubscribeAll", Mgr))
    BY <1>4, MatchesAfterType DEF PublishStop, First, TypeOK
  <2>4. \A k \in Nat : [Top EXCEPT !.i = k].pc \notin Marked
    BY <1>b, <2>1 DEF Marked
  <2> QED BY <1>0, <2>1, <2>2, <2>3, <2>4, PlainMove
<1>5. ASSUME NEW l \in Logics, PublishInterrupt(l)
      PROVE  PlainStep
  <2>1. stack # <<>> /\ Top.pc = "publishInterrupt"
    BY <1>5 DEF PublishInterrupt, AtScript, At
  <2>2. F("onTaskInterrupt", l).pc \notin Marked
    BY <1>a DEF Marked
  <2>3. Return \/ \E k \in Nat : Call([Top EXCEPT !.i = k], F("onTaskInterrupt", l))
    BY <1>5, MatchesAfterType DEF PublishInterrupt, First, TypeOK
  <2>4. \A k \in Nat : [Top EXCEPT !.i = k].pc \notin Marked
    BY <1>b, <2>1 DEF Marked
  <2> QED BY <1>0, <2>1, <2>2, <2>3, <2>4, PlainMove
<1>6. ASSUME Start \/ AllDone \/ WaitForAny
      PROVE  PlainStep
  <2>1. \A pc \in {"unsubscribeAll", "Stop", "waitB"} : F(pc, Mgr).pc \notin Marked
    BY <1>a DEF Marked
  <2>2. stack # <<>> /\ (Return \/ \E pc \in {"unsubscribeAll", "Stop", "waitB"} : Goto(F(pc, Mgr)))
    BY <1>6 DEF Start, AllDone, WaitForAny, AtScript, At
  <2> QED BY <1>0, <2>1, <2>2, PlainMove
<1>7. ASSUME UnsubscribeAll
      PROVE  PlainStep
  <2>1. stack # <<>> /\ Top.pc = "unsubscribeAll"
    BY <1>7 DEF UnsubscribeAll, At
  <2>2. F("stopAll", Mgr).pc \notin Marked /\ Step(Top).pc \notin Marked
    BY <1>a, <1>b, <2>1 DEF Marked
  <2>3. Goto(F("stopAll", Mgr)) \/ Goto(Step(Top))
    BY <1>7 DEF UnsubscribeAll
  <2> QED BY <1>0, <2>1, <2>2, <2>3, PlainMove
<1>8. ASSUME Pick \/ WaitForTask
      PROVE  PlainStep
  <2>1. /\ \A s : F("Start", s).pc \notin Marked
        /\ F("allDone", Mgr).pc \notin Marked
    BY <1>a DEF Marked
  <2>2. [F("waitA", Mgr) EXCEPT !.i = Len(todo)].pc \notin Marked
    <3>1. F("waitA", Mgr) \in Frame /\ F("waitA", Mgr).pc = "waitA"
      BY NewFrame, FrameFields DEF Places
    <3>2. [F("waitA", Mgr) EXCEPT !.i = Len(todo)].pc = "waitA"
      BY <3>1, TodoTask, FrameFields
    <3> QED BY <3>2 DEF Marked
  <2>3. /\ stack # <<>>
        /\ \/ Return \/ Goto(F("allDone", Mgr)) \/ Goto([F("waitA", Mgr) EXCEPT !.i = Len(todo)])
           \/ \E s : Goto(F("Start", s))
    BY <1>8 DEF Pick, WaitForTask, First, At
  <2> QED BY <1>0, <2>1, <2>2, <2>3, PlainMove
<1>9. ASSUME StopGlobalTask \/ ContinueGlobalTask \/ Accept \/ ButtonOff
      PROVE  PlainStep
  <2>1. /\ \A s : F("Stop", s).pc \notin Marked /\ F("Start", s).pc \notin Marked
        /\ F("ContinueGlobalTask", Mgr).pc \notin Marked
    BY <1>a DEF Marked
  <2>2. /\ stack # <<>>
        /\ \/ Return \/ Goto(F("ContinueGlobalTask", Mgr))
           \/ \E s : Goto(F("Stop", s)) \/ Goto(F("Start", s))
    BY <1>9 DEF StopGlobalTask, ContinueGlobalTask, Accept, ButtonOff, At
  <2> QED BY <1>0, <2>1, <2>2, PlainMove
<1>10. ASSUME Encounter \/ \E f \in Forms : ClickStop(f)
       PROVE  PlainStep
  <2>1. \E f, g : stack' = <<f, g>> /\ f.pc \notin Marked /\ g.pc \notin Marked
    <3>1. /\ \A s : F("Stop", s).pc \notin Marked /\ F("buttonOff", s).pc \notin Marked
          /\ F("accept", Mgr).pc \notin Marked /\ F("StopGlobalTask", Mgr).pc \notin Marked
      BY <1>a DEF Marked
    <3> QED BY <1>10, <3>1 DEF Encounter, ClickStop
  <2> QED BY <2>1, BeginTwoFrames DEF PlainStep
<1>11. ASSUME NEW f, Begin(f), f.pc \notin Marked
       PROVE  PlainStep
  BY <1>11, BeginFrames DEF PlainStep
<1>12. ASSUME NEW l \in Logics, LogicWake(l) \/ ReadyChanges(l) \/ TimeChanges(l) \/ StopMessage(l)
       PROVE  PlainStep \/ UNCHANGED stack
  <2>1. F("loop", l).pc \notin Marked /\ F("Stop", l).pc \notin Marked
    BY <1>a DEF Marked
  <2> QED BY <1>11, <1>12, <2>1 DEF LogicWake, ReadyChanges, TimeChanges, StopMessage
<1>13. ASSUME NEW f \in Forms, OpenForm(f) \/ CloseForm(f) \/ ClickStart(f)
       PROVE  PlainStep \/ UNCHANGED stack
  <2>1. F("Start", f).pc \notin Marked
    BY <1>a DEF Marked
  <2> QED BY <1>11, <1>13, <2>1 DEF OpenForm, CloseForm, ClickStart
<1>14. ASSUME WakeWaitA
       PROVE  PlainStep
  <2>1. PICK cnt \in Lengths : Begin([F("waitA", Mgr) EXCEPT !.i = cnt])
    BY <1>14 DEF WakeWaitA
  <2>2. cnt \in Nat
    BY ConfigAssumption DEF Lengths, Config
  <2>3. F("waitA", Mgr) \in Frame /\ F("waitA", Mgr).pc = "waitA"
    BY NewFrame, FrameFields DEF Places
  <2>4. [F("waitA", Mgr) EXCEPT !.i = cnt].pc = "waitA"
    BY <2>2, <2>3, FrameFields
  <2> QED BY <1>11, <2>1, <2>4 DEF Marked
<1>15. ASSUME WakeWaitB \/ EncounterOver
       PROVE  PlainStep
  <2>1. F("waitB", Mgr).pc \notin Marked /\ F("ContinueGlobalTask", Mgr).pc \notin Marked
    BY <1>a DEF Marked
  <2> QED BY <1>11, <1>15, <2>1 DEF WakeWaitB, EncounterOver
<1>16. ASSUME LifeChanges \/ ThrottleExpires \/ UNCHANGED vars
       PROVE  UNCHANGED stack
  BY <1>16 DEF LifeChanges, ThrottleExpires, vars
<1> QED
  BY <1>1, <1>2, <1>3, <1>4, <1>5, <1>6, <1>7, <1>8, <1>9, <1>10, <1>12, <1>13, <1>14,
     <1>15, <1>16
  DEF Next, Burst, Wake, User, Game

(* Only Start changes the list of tasks, and only Start sets the flag of   *)
(* the manager.                                                            *)
LEMMA OnlyStart ==
    ASSUME TypeOK, [Next]_vars
    PROVE  Start \/ (UNCHANGED cfg /\ (running'[Mgr] => running[Mgr]))
<1> Mgr \in Scripts /\ Logics \subseteq Scripts /\ Mgr \notin Logics
  BY ScriptAssumption DEF Scripts
<1>0. running \in [Scripts -> BOOLEAN]
  BY DEF TypeOK
<1>1. ASSUME NEW l \in Logics, LogicStart(l) \/ LogicStop(l)
      PROVE  UNCHANGED cfg /\ running'[Mgr] = running[Mgr]
  <2>1. running' = running \/ \E b \in BOOLEAN : running' = [running EXCEPT ![l] = b]
    BY <1>1 DEF LogicStart, LogicStop
  <2>2. UNCHANGED cfg
    BY <1>1 DEF LogicStart, LogicStop, manager
  <2> QED BY <1>0, <2>1, <2>2
<1>2. ASSUME Stop
      PROVE  UNCHANGED cfg /\ ~running'[Mgr]
  BY <1>0, <1>2 DEF Stop, manager
<1>3. ASSUME NEW l \in Logics,
             \/ LogicBusy(l) \/ LogicPass(l) \/ LogicPause(l)
             \/ LogicWake(l) \/ PublishInterrupt(l) \/ OnTaskInterrupt(l)
             \/ ReadyChanges(l) \/ TimeChanges(l) \/ StopMessage(l)
      PROVE  UNCHANGED <<cfg, running>>
  BY <1>3 DEF LogicBusy, LogicPass, LogicPause, LogicWake, manager,
              PublishInterrupt, OnTaskInterrupt, ReadyChanges, TimeChanges, StopMessage
<1>4. ASSUME \/ \E s \in Scripts : PublishStop(s)
             \/ \E f \in Forms : OpenForm(f) \/ CloseForm(f) \/ ClickStart(f) \/ ClickStop(f)
             \/ StopEach \/ UnsubscribeAll \/ StopAll \/ SubscribeAll
             \/ Pick \/ WaitForTask \/ AllDone \/ WaitForAny \/ WakeWaitA \/ WakeWaitB
      PROVE  UNCHANGED <<cfg, running>>
  BY <1>4 DEF PublishStop, OpenForm, CloseForm, ClickStart, ClickStop, StopEach,
              UnsubscribeAll, StopAll, SubscribeAll, Pick, WaitForTask, AllDone,
              WaitForAny, WakeWaitA, WakeWaitB, manager
<1>5. ASSUME \/ StopGlobalTask \/ ContinueGlobalTask \/ Accept \/ Encounter \/ ButtonOff
             \/ EncounterOver \/ LifeChanges \/ ThrottleExpires \/ UNCHANGED vars
      PROVE  UNCHANGED <<cfg, running>>
  BY <1>5 DEF StopGlobalTask, ContinueGlobalTask, Accept, Encounter, EncounterOver,
              ButtonOff, LifeChanges, ThrottleExpires, vars, manager
<1> QED
  BY <1>1, <1>2, <1>3, <1>4, <1>5 DEF Next, Burst, Wake, User, Game

(* Start begins the burst, and when it sets the flag it refreshes. *)
LEMMA StartAlone ==
    ASSUME TypeOK, Shape, Start
    PROVE  /\ Below = {} /\ Frames' \subseteq {F("unsubscribeAll", Mgr), F("Stop", Mgr)}
           /\ \/ UNCHANGED <<running, cfg>> /\ running[Mgr]
              \/ cfg' \in Configs /\ ~running'[Mgr]
              \/ cfg' \in Configs /\ F("unsubscribeAll", Mgr) \in Frames'
<1>1. stack \in Seq(Frame) /\ stack # <<>> /\ Top.pc = "Start" /\ Top.at = Mgr
  BY DEF TypeOK, Start, AtScript, At
<1>2. Below = {}
  BY <1>1, SomeFrames DEF Shape, Outermost
<1>3. CASE running[Mgr]
  <2>1. Return /\ UNCHANGED <<running, cfg>>
    BY <1>3 DEF Start
  <2>2. Frames' = {}
    BY <1>1, <1>2, <2>1, ReturnFrames
  <2> QED BY <1>2, <1>3, <2>1, <2>2
<1>4. CASE ~running[Mgr]
  <2>1. /\ cfg' \in Configs
        /\ \/ Goto(F("unsubscribeAll", Mgr))
           \/ Goto(F("Stop", Mgr)) /\ UNCHANGED running
    BY <1>4 DEF Start
  <2>2. CASE Goto(F("unsubscribeAll", Mgr))
    BY <1>1, <1>2, <2>1, <2>2, GotoFrames
  <2>3. CASE Goto(F("Stop", Mgr)) /\ UNCHANGED running
    <3>1. Frames' = {F("Stop", Mgr)}
      BY <1>1, <1>2, <2>3, GotoFrames
    <3> QED BY <1>2, <1>4, <2>1, <2>3, <3>1
  <2> QED BY <2>1, <2>2, <2>3
<1> QED BY <1>3, <1>4

(* While the manager runs it is not in the loop of its Stop. *)
NotStopping == running[Mgr] => \A f \in Frames : f.pc # "stopEach"

(* Every step keeps NotStopping. *)
LEMMA NotStoppingStep == TypeOK /\ Shape /\ NotStopping /\ [Next]_vars => NotStopping'
<1> SUFFICES ASSUME TypeOK, Shape, NotStopping, [Next]_vars, running'[Mgr]
             PROVE  \A f \in Frames' : f.pc # "stopEach"
  BY DEF NotStopping
<1>0. stack \in Seq(Frame) /\ Mgr \in Scripts /\ running \in [Scripts -> BOOLEAN]
  BY DEF TypeOK, Scripts
<1>1. CASE Start
  BY <1>1, StartAlone, FrameFields
<1>2. CASE ~Start
  <2>1. running[Mgr]
    BY <1>2, OnlyStart
  <2>2. \A f \in Frames : f.pc # "stopEach"
    BY <2>1 DEF NotStopping
  <2>3. CASE PlainStep
    <3>1. Below \subseteq Frames
      BY <1>0 DEF Below, Frames
    <3> QED BY <2>2, <2>3, <3>1 DEF PlainStep, Marked
  <2>4. CASE UNCHANGED stack
    BY <2>2, <2>4 DEF Frames
  <2>5. CASE Stop
    BY <1>0, <2>5 DEF Stop
  <2>6. CASE StopEach
    <3>1. Top \in Frames
      BY <1>0, <2>6, SomeFrames DEF StopEach, At
    <3> QED BY <2>2, <2>6, <3>1 DEF StopEach, At
  <2>7. CASE StopAll \/ SubscribeAll
    <3>1. /\ stack # <<>> /\ Top.pc # "stopEach" /\ Top \in Frame
      BY <1>0, <2>7, TopFrame DEF StopAll, SubscribeAll, At
    <3>2. \/ \E pc \in {"subscribeAll", "pick"} : Goto(F(pc, Mgr))
          \/ Goto(Step(Top)) \/ Call(Step(Top), F("Stop", LoopTask))
      BY <2>7 DEF StopAll, SubscribeAll
    <3>3. /\ Step(Top).pc # "stopEach" /\ F("Stop", LoopTask).pc # "stopEach"
          /\ \A pc \in {"subscribeAll", "pick"} : F(pc, Mgr).pc # "stopEach"
      BY <3>1, FrameFields
    <3>4. \A f \in Below : f.pc # "stopEach"
      BY <1>0, <2>2, <3>1, SomeFrames
    <3> QED BY <1>0, <3>1, <3>2, <3>3, <3>4, GotoFrames, CallFrames
  <2> QED BY <2>3, <2>4, <2>5, <2>6, <2>7, PlainSteps
<1> QED BY <1>1, <1>2

(* The manager's subscriptions to a task; the tasks of the list; the three *)
(* loops of checkNextTask, at whose end it has all those subscriptions.    *)
Listening(l) == \A ev \in {"stop", "interrupt"} : IsSubscribing(subs, Sub(l, ev))
Listed == {todo[k] : k \in DOMAIN todo}
Refreshes(f) == f.pc \in {"unsubscribeAll", "stopAll", "subscribeAll"}

(* While it runs the manager listens to every task of its list, or is      *)
(* about to.                                                               *)
ListensOrRefreshes ==
    /\ running[Mgr] => (\A l \in Listed : Listening(l)) \/ \E f \in Frames : Refreshes(f)
    /\ At("subscribeAll") => \A k \in DOMAIN todo : k <= Top.i => Listening(todo[k])
    /\ At("pick") => \A l \in Listed : Listening(l)

(* Only the loops that unsubscribe end what the manager listens to. *)
LEMMA ListeningKept ==
    ASSUME TypeOK, [Next]_vars, ~StopEach, ~UnsubscribeAll, NEW l, Listening(l)
    PROVE  Listening(l)'
<1> Mgr \in Scripts /\ Logics \subseteq Scripts
  BY ScriptAssumption DEF Scripts
<1>0. subs \in Seq(Subscription)
  BY DEF TypeOK
<1>a. \A f \in Forms : FormSub(f) \in Subscription
  BY SubscriptionTypes
<1>b. ASSUME \A ev : IsSubscribing(subs, Sub(l, ev)) => IsSubscribing(subs', Sub(l, ev))
      PROVE  Listening(l)'
  BY <1>b DEF Listening, Sub
<1>1. CASE SubscribeAll
  <2>1. ~LoopDone => LoopTask \in Logics
    BY <1>1, LoopTaskIsLogic DEF SubscribeAll, At
  <2>2. UNCHANGED subs \/ (~LoopDone /\ subs' = WithTask(subs, LoopTask))
    BY <1>1 DEF SubscribeAll
  <2> QED BY <1>0, <1>b, <2>1, <2>2, TaskListHolds
<1>2. ASSUME NEW f \in Forms, OpenForm(f) \/ ClickStart(f)
      PROVE  Listening(l)'
  <2>1. UNCHANGED subs \/ subs' = Subscribed(subs, FormSub(f))
    BY <1>2 DEF OpenForm, ClickStart
  <2> QED BY <1>0, <1>a, <1>b, <2>1, SubscribedHolds
<1>3. ASSUME NEW f \in Forms, CloseForm(f)
      PROVE  Listening(l)'
  <2>1. subs' = Unsubscribed(subs, FormSub(f))
    BY <1>3 DEF CloseForm
  <2>2. \A ev : Sub(l, ev) # FormSub(f)
    BY SubscriptionFields
  <2> QED BY <1>0, <1>a, <1>b, <2>1, <2>2, UnsubscribedHolds
<1>4. CASE UNCHANGED subs
  BY <1>4 DEF Listening, Sub
<1>5. ASSUME NEW m \in Logics,
             \/ LogicStart(m) \/ LogicBusy(m) \/ LogicPass(m) \/ LogicPause(m) \/ LogicStop(m)
             \/ LogicWake(m) \/ PublishInterrupt(m) \/ OnTaskInterrupt(m)
             \/ ReadyChanges(m) \/ TimeChanges(m) \/ StopMessage(m)
      PROVE  UNCHANGED subs
  BY <1>5 DEF LogicStart, LogicBusy, LogicPass, LogicPause, LogicStop, LogicWake,
              PublishInterrupt, OnTaskInterrupt, ReadyChanges, TimeChanges, StopMessage
<1>6. ASSUME \/ \E s \in Scripts : PublishStop(s)
             \/ \E f \in Forms : ClickStop(f)
             \/ Start \/ Stop \/ StopAll \/ Pick \/ WaitForTask \/ AllDone \/ WaitForAny
             \/ WakeWaitA \/ WakeWaitB
      PROVE  UNCHANGED subs
  BY <1>6 DEF PublishStop, ClickStop, Start, Stop, StopAll, Pick, WaitForTask, AllDone,
              WaitForAny, WakeWaitA, WakeWaitB
<1>7. ASSUME \/ StopGlobalTask \/ ContinueGlobalTask \/ Accept \/ Encounter
             \/ EncounterOver \/ ButtonOff \/ LifeChanges \/ ThrottleExpires \/ UNCHANGED vars
      PROVE  UNCHANGED subs
  BY <1>7 DEF StopGlobalTask, ContinueGlobalTask, Accept, Encounter, EncounterOver,
              ButtonOff, LifeChanges, ThrottleExpires, vars
<1> QED
  BY <1>1, <1>2, <1>3, <1>4, <1>5, <1>6, <1>7 DEF Next, Burst, Wake, User, Game

(* The steps of the stack, or none, or a burst that begins. *)
LEMMA EveryStepMoves ==
    ASSUME TypeOK, [Next]_vars
    PROVE  stack = <<>> \/ StackMoves \/ UNCHANGED stack
<1>1. ASSUME NEW l \in Logics,
             \/ LogicStart(l) \/ LogicBusy(l) \/ LogicPass(l) \/ LogicPause(l) \/ LogicStop(l)
             \/ PublishInterrupt(l) \/ OnTaskInterrupt(l)
      PROVE  StackMoves
  BY <1>1 DEF LogicStart, LogicBusy, LogicPass, LogicPause, LogicStop, Pause,
              PublishInterrupt, OnTaskInterrupt, First, StackMoves
<1>2. ASSUME \/ \E s \in Scripts : PublishStop(s)
             \/ Start \/ Stop \/ StopEach \/ UnsubscribeAll \/ StopAll \/ SubscribeAll
             \/ Pick \/ WaitForTask \/ AllDone \/ WaitForAny
             \/ StopGlobalTask \/ ContinueGlobalTask \/ Accept \/ ButtonOff
      PROVE  StackMoves
  BY <1>2 DEF PublishStop, Start, Stop, StopEach, UnsubscribeAll, StopAll, SubscribeAll, Pick,
              WaitForTask, AllDone, WaitForAny, StopGlobalTask, ContinueGlobalTask, Accept,
              ButtonOff, First, StackMoves
<1>3. ASSUME \/ \E l \in Logics : LogicWake(l) \/ ReadyChanges(l) \/ TimeChanges(l) \/ StopMessage(l)
             \/ \E f \in Forms : OpenForm(f) \/ CloseForm(f) \/ ClickStart(f) \/ ClickStop(f)
             \/ WakeWaitA \/ WakeWaitB \/ Encounter \/ EncounterOver \/ LifeChanges \/ ThrottleExpires
      PROVE  stack = <<>>
  BY <1>3 DEF LogicWake, ReadyChanges, TimeChanges, StopMessage, OpenForm, CloseForm,
              ClickStart, ClickStop, WakeWaitA, WakeWaitB, Encounter, EncounterOver,
              LifeChanges, ThrottleExpires, Between
<1>4. UNCHANGED vars => UNCHANGED stack
  BY DEF vars
<1> QED BY <1>1, <1>2, <1>3, <1>4 DEF Next, Burst, Wake, User, Game

(* The functions on top at the three loops go on to the next of them. *)
LEMMA LoopsGoOn ==
    ASSUME TypeOK
    PROVE  /\ UnsubscribeAll => \E f \in Frames' : Refreshes(f)
           /\ StopAll => \E f \in Frames' : Refreshes(f)
           /\ SubscribeAll => \/ ~LoopDone /\ Goto(Step(Top)) /\ Step(Top) \in Frames' /\ Refreshes(Step(Top))
                              \/ LoopDone /\ Goto(F("pick", Mgr)) /\ F("pick", Mgr) \in Frames'
<1>0. stack \in Seq(Frame)
  BY DEF TypeOK
<1>a. ASSUME stack # <<>>
      PROVE  Step(Top).pc = Top.pc
  BY <1>0, <1>a, TopFrame, FrameFields
<1>1. ASSUME UnsubscribeAll
      PROVE  \E f \in Frames' : Refreshes(f)
  <2>1. /\ stack # <<>> /\ Refreshes(Step(Top)) /\ Refreshes(F("stopAll", Mgr))
        /\ Goto(F("stopAll", Mgr)) \/ Goto(Step(Top))
    BY <1>1, <1>a, FrameFields DEF UnsubscribeAll, At, Refreshes
  <2> QED BY <1>0, <2>1, GotoFrames
<1>2. ASSUME StopAll
      PROVE  \E f \in Frames' : Refreshes(f)
  <2>1. /\ stack # <<>> /\ Refreshes(Step(Top)) /\ Refreshes(F("subscribeAll", Mgr))
        /\ \/ Goto(F("subscribeAll", Mgr)) \/ Goto(Step(Top))
           \/ Call(Step(Top), F("Stop", LoopTask))
    BY <1>2, <1>a, FrameFields DEF StopAll, At, Refreshes
  <2> QED BY <1>0, <2>1, GotoFrames, CallFrames
<1>3. ASSUME SubscribeAll
      PROVE  \/ ~LoopDone /\ Goto(Step(Top)) /\ Step(Top) \in Frames' /\ Refreshes(Step(Top))
             \/ LoopDone /\ Goto(F("pick", Mgr)) /\ F("pick", Mgr) \in Frames'
  <2>1. /\ stack # <<>> /\ Refreshes(Step(Top))
        /\ \/ LoopDone /\ Goto(F("pick", Mgr))
           \/ ~LoopDone /\ Goto(Step(Top))
    BY <1>3, <1>a DEF SubscribeAll, At, Refreshes
  <2> QED BY <1>0, <2>1, GotoFrames
<1> QED BY <1>1, <1>2, <1>3

(* A function that refreshes is followed by one that does, until the last  *)
(* of the loops is over.                                                   *)
LEMMA RefreshKept ==
    ASSUME TypeOK, [Next]_vars, ~SubscribeAll, \E f \in Frames : Refreshes(f)
    PROVE  \E f \in Frames' : Refreshes(f)
<1>0. stack \in Seq(Frame) /\ stack # <<>>
  BY NoFrames DEF TypeOK
<1>1. CASE UnsubscribeAll \/ StopAll
  BY <1>1, LoopsGoOn
<1>2. CASE UNCHANGED stack
  BY <1>2 DEF Frames
<1>3. CASE StackMoves /\ ~Refreshes(Top)
  <2>1. Below \subseteq Frames' /\ Frames = Below \cup {Top}
    BY <1>0, <1>3, MovesKeepBelow, SomeFrames
  <2> QED BY <1>3, <2>1
<1>4. ASSUME Refreshes(Top), ~(UnsubscribeAll \/ StopAll)
      PROVE  UNCHANGED stack
  <2>1. Top.pc \in {"unsubscribeAll", "stopAll", "subscribeAll"}
    BY <1>4 DEF Refreshes
  <2>2. \A l \in Logics : ~LogicStart(l) /\ ~LogicBusy(l) /\ ~LogicPass(l) /\ ~LogicPause(l)
                          /\ ~LogicStop(l) /\ ~PublishInterrupt(l) /\ ~OnTaskInterrupt(l)
    BY <2>1 DEF LogicStart, LogicBusy, LogicPass, LogicPause, LogicStop,
                PublishInterrupt, OnTaskInterrupt, AtScript, At
  <2>3. /\ \A s \in Scripts : ~PublishStop(s)
        /\ ~Start /\ ~Stop /\ ~StopEach /\ ~Pick /\ ~WaitForTask /\ ~AllDone /\ ~WaitForAny
        /\ ~StopGlobalTask /\ ~ContinueGlobalTask /\ ~Accept /\ ~ButtonOff
    BY <2>1 DEF PublishStop, Start, Stop, StopEach, Pick, WaitForTask, AllDone, WaitForAny,
                StopGlobalTask, ContinueGlobalTask, Accept, ButtonOff, AtScript, At
  <2>4. ~Burst
    BY <1>4, <2>2, <2>3 DEF Burst
  <2>5. \A l \in Logics : ~LogicWake(l) /\ ~ReadyChanges(l) /\ ~TimeChanges(l) /\ ~StopMessage(l)
    BY <1>0 DEF LogicWake, ReadyChanges, TimeChanges, StopMessage, Between
  <2>6. \A f \in Forms : ~OpenForm(f) /\ ~CloseForm(f) /\ ~ClickStart(f) /\ ~ClickStop(f)
    BY <1>0 DEF OpenForm, CloseForm, ClickStart, ClickStop, Between
  <2>7. /\ ~WakeWaitA /\ ~WakeWaitB /\ ~Encounter /\ ~EncounterOver /\ ~LifeChanges
        /\ ~ThrottleExpires
    BY <1>0 DEF WakeWaitA, WakeWaitB, Encounter, EncounterOver, LifeChanges,
                ThrottleExpires, Between
  <2> QED BY <2>4, <2>5, <2>6, <2>7 DEF Next, Wake, User, Game, vars
<1> QED BY <1>0, <1>1, <1>2, <1>3, <1>4, EveryStepMoves

(* Every step keeps ListensOrRefreshes. *)
LEMMA ListensStep ==
    ASSUME TypeOK, Shape, NotStopping, ListensOrRefreshes, [Next]_vars
    PROVE  ListensOrRefreshes'
<1>0. /\ stack \in Seq(Frame) /\ Mgr \in Scripts /\ running \in [Scripts -> BOOLEAN]
      /\ subs \in Seq(Subscription)
  BY DEF TypeOK, Scripts
<1>a. \A f \in Below : f.pc \notin {"subscribeAll", "pick"}
  BY DEF Shape, CallingPlaces
<1>1. CASE Start
  <2>1. PlainStep
    <3>1. stack # <<>> /\ (Return \/ Goto(F("unsubscribeAll", Mgr)) \/ Goto(F("Stop", Mgr)))
      BY <1>1 DEF Start, AtScript, At
    <3>2. F("unsubscribeAll", Mgr).pc \notin Marked /\ F("Stop", Mgr).pc \notin Marked
      BY FrameFields DEF Marked
    <3> QED BY <1>0, <3>1, <3>2, PlainMove
  <2>2. ~At("subscribeAll")' /\ ~At("pick")'
    BY <1>a, <2>1 DEF PlainStep, Marked, At
  <2>3. running'[Mgr] => (\A l \in Listed : Listening(l))' \/ \E f \in Frames' : Refreshes(f)
    <3>1. CASE UNCHANGED <<running, cfg>> /\ running[Mgr]
      <4>1. \A l : Listening(l) => Listening(l)'
        BY <1>1 DEF Start, Listening, Sub
      <4>2. (\A l \in Listed : Listening(l)) \/ \E f \in Frames : Refreshes(f)
        BY <3>1 DEF ListensOrRefreshes
      <4>3. (\E f \in Frames : Refreshes(f)) => FALSE
        <5>1. Frames = {Top} /\ Top.pc = "Start"
          BY <1>0, <1>1, StartAlone, SomeFrames DEF Start, AtScript, At
        <5> QED BY <5>1 DEF Refreshes
      <4> QED BY <3>1, <4>1, <4>2, <4>3 DEF Listed, todo
    <3>2. F("unsubscribeAll", Mgr) \in Frames' => \E f \in Frames' : Refreshes(f)
      BY FrameFields DEF Refreshes
    <3> QED BY <1>1, <3>1, <3>2, StartAlone
  <2> QED BY <2>2, <2>3 DEF ListensOrRefreshes, Refreshes
<1>2. CASE StopEach
  <2>1. stack # <<>> /\ Top \in Frames /\ Top.pc = "stopEach"
    BY <1>0, <1>2, SomeFrames DEF StopEach, At
  <2>2. ~running[Mgr] /\ UNCHANGED running
    BY <1>0, <1>2, <2>1 DEF NotStopping, StopEach
  <2>3. Goto(F("publishStop", Mgr)) \/ Call(Step(Top), F("Stop", LoopTask))
    BY <1>2 DEF StopEach
  <2>4. Top'.pc \in {"publishStop", "Stop"}
    BY <1>0, <2>1, <2>3, GotoFrames, CallFrames, FrameFields
  <2> QED BY <2>2, <2>4 DEF ListensOrRefreshes, At
<1>3. CASE UnsubscribeAll
  <2>1. \E f \in Frames' : Refreshes(f)
    BY <1>3, LoopsGoOn
  <2>2. stack # <<>> /\ Top \in Frame /\ Top.pc = "unsubscribeAll"
    BY <1>0, <1>3, TopFrame DEF UnsubscribeAll, At
  <2>3. Goto(F("stopAll", Mgr)) \/ Goto(Step(Top))
    BY <1>3 DEF UnsubscribeAll
  <2>4. Top'.pc \in {"unsubscribeAll", "stopAll"}
    BY <1>0, <2>2, <2>3, GotoFrames, FrameFields
  <2> QED BY <2>1, <2>4 DEF ListensOrRefreshes, At, Refreshes
<1>4. CASE SubscribeAll
  <2>1. stack # <<>> /\ Top \in Frame /\ Top.pc = "subscribeAll" /\ UNCHANGED cfg
    BY <1>0, <1>4, TopFrame DEF SubscribeAll, At, manager
  <2>2. \A k \in DOMAIN todo : k <= Top.i => Listening(todo[k])
    BY <1>4 DEF ListensOrRefreshes, SubscribeAll
  <2>3. CASE LoopDone
    <3>1. Goto(F("pick", Mgr)) /\ UNCHANGED subs
      BY <1>4, <2>3 DEF SubscribeAll
    <3>2. \A k \in DOMAIN todo : k <= Top.i
      <4>1. Top.i \in Nat /\ Top.i >= Len(todo)
        BY <2>1, <2>3 DEF Frame, LoopDone
      <4> QED BY <4>1, TodoTask
    <3>3. \A l \in Listed' : Listening(l)'
      BY <2>1, <2>2, <3>1, <3>2 DEF Listed, Listening, Sub, todo
    <3>4. Top'.pc = "pick"
      BY <1>0, <2>1, <3>1, GotoFrames, FrameFields
    <3> QED BY <3>3, <3>4 DEF ListensOrRefreshes, At
  <2>4. CASE ~LoopDone
    <3>1. Goto(Step(Top)) /\ subs' = WithTask(subs, LoopTask)
      BY <1>4, <2>4 DEF SubscribeAll
    <3>2. \E f \in Frames' : Refreshes(f)
      BY <1>4, <2>4, LoopsGoOn
    <3>3. Top' = Step(Top) /\ Top'.pc = "subscribeAll" /\ Top'.i = Top.i + 1 /\ Top.i \in Nat
      BY <1>0, <2>1, <3>1, GotoFrames, FrameFields DEF Frame
    <3>4. PICK l \in Logics : l = LoopTask /\ l = todo[Top.i + 1]
      BY <2>1, <2>4, LoopTaskIsLogic DEF LoopTask
    <3>5. \A m : Listening(m) => Listening(m)'
      BY <1>4, ListeningKept DEF StopEach, UnsubscribeAll, SubscribeAll, At
    <3>6. Listening(l)'
      <4>1. \A ev \in {"stop", "interrupt"} : IsSubscribing(subs', Sub(l, ev))
        BY <1>0, <3>1, <3>4, TaskListHolds
      <4> QED BY <4>1 DEF Listening, Sub
    <3>7. ASSUME NEW k \in DOMAIN todo, k <= Top.i + 1
          PROVE  Listening(todo[k])'
      <4>1. k \in Nat
        BY TodoTask
      <4>2. PICK m : m = todo[k]
        OBVIOUS
      <4>3. Listening(m)'
        <5>1. CASE k <= Top.i
          BY <2>2, <3>5, <4>2, <5>1
        <5>2. CASE k = Top.i + 1
          BY <3>4, <3>6, <4>2, <5>2
        <5> QED BY <3>3, <3>7, <4>1, <5>1, <5>2
      <4> QED BY <2>1, <4>2, <4>3 DEF Listening, Sub, todo
    <3>8. \A k \in DOMAIN todo' : k <= Top'.i => Listening(todo[k])'
      BY <2>1, <3>3, <3>7 DEF todo
    <3> QED BY <3>2, <3>3, <3>8 DEF ListensOrRefreshes, At, Refreshes
  <2> QED BY <2>3, <2>4
<1>5. ASSUME ~Start, ~StopEach, ~UnsubscribeAll, ~SubscribeAll
      PROVE  ListensOrRefreshes'
  <2>1. UNCHANGED cfg /\ (running'[Mgr] => running[Mgr])
    BY <1>5, OnlyStart
  <2>2. \A l : Listening(l) => Listening(l)'
    BY <1>5, ListeningKept
  <2>3. (\A l \in Listed : Listening(l)) => (\A l \in Listed : Listening(l))'
    BY <2>1, <2>2 DEF Listed, todo
  <2>4. running'[Mgr] => (\A l \in Listed : Listening(l))' \/ \E f \in Frames' : Refreshes(f)
    BY <1>5, <2>1, <2>3, RefreshKept DEF ListensOrRefreshes
  <2>5. CASE UNCHANGED stack
    <3>1. At("pick")' => (\A l \in Listed : Listening(l))'
      BY <2>3, <2>5 DEF ListensOrRefreshes, At, Top
    <3>2. ASSUME At("subscribeAll")', NEW k \in DOMAIN todo', k <= Top'.i
          PROVE  Listening(todo[k])'
      <4>1. k \in DOMAIN todo /\ Listening(todo[k])
        BY <2>1, <2>5, <3>2 DEF ListensOrRefreshes, At, Top, todo
      <4>2. PICK m : m = todo[k]
        OBVIOUS
      <4> QED BY <2>1, <2>2, <4>1, <4>2 DEF Listening, Sub, todo
    <3> QED BY <2>4, <3>1, <3>2 DEF ListensOrRefreshes, Refreshes
  <2>6. CASE PlainStep
    <3>1. ~At("subscribeAll")' /\ ~At("pick")'
      BY <1>a, <2>6 DEF PlainStep, Marked, At
    <3> QED BY <2>4, <3>1 DEF ListensOrRefreshes, Refreshes
  <2>7. CASE Stop
    <3>1. Top'.pc = "stopEach"
      BY <1>0, <2>7, GotoFrames, FrameFields DEF Stop, AtScript, At
    <3> QED BY <2>4, <3>1 DEF ListensOrRefreshes, At, Refreshes
  <2>8. CASE StopAll
    <3>1. stack # <<>> /\ Top \in Frame /\ Top.pc = "stopAll"
      BY <1>0, <2>8, TopFrame DEF StopAll, At
    <3>2. \/ Goto(F("subscribeAll", Mgr)) \/ Goto(Step(Top))
          \/ Call(Step(Top), F("Stop", LoopTask))
      BY <2>8 DEF StopAll
    <3>3. Top'.pc \in {"stopAll", "Stop"} \/ (Top'.pc = "subscribeAll" /\ Top'.i = 0)
      BY <1>0, <3>1, <3>2, GotoFrames, CallFrames, FrameFields
    <3>4. \A k \in DOMAIN todo' : ~(k <= 0)
      <4>1. \A k \in DOMAIN todo : ~(k <= 0)
        BY TodoTask
      <4> QED BY <2>1, <4>1 DEF todo
    <3> QED BY <2>4, <3>3, <3>4 DEF ListensOrRefreshes, At, Refreshes
  <2> QED BY <1>5, <2>5, <2>6, <2>7, <2>8, PlainSteps
<1> QED BY <1>1, <1>2, <1>3, <1>4, <1>5

(* The list is one of the ini file's, and no task of such a list ends      *)
(* unheard: none is silent (as farm is), and none that stops again in its  *)
(* Start (loadConfig, CanRun) has a Stop that says nothing then.           *)
FromIni == cfg \in Configs \/ todo = <<>>
Loud(l) ==
    /\ "silent" \notin Traits[l]
    /\ "guardedStop" \in Traits[l] => Traits[l] \cap {"guardedStart", "unset"} = {}
ListsLoud == \A c \in Configs : \A k \in DOMAIN c.todo : Loud(c.todo[k])

(* A function in progress that makes the manager go on: the loops of       *)
(* checkNextTask and what follows them, a publication that has yet to      *)
(* reach the manager, a task about to start or about to stop, and the Stop *)
(* of the manager itself, after which it no longer runs.                   *)
Heard(f) == f.at \in Listed /\ \E j \in DOMAIN subs : j > f.i /\ subs[j] = Sub(f.at, "stop")

GoesOn(f) ==
    \/ Refreshes(f) \/ f.pc \in {"pick", "allDone", "waitB"}
    \/ f.pc = "waitA" /\ f.i = Len(todo)
    \/ f.pc = "publishStop" /\ Heard(f)
    \/ f.pc = "Start" /\ f.at \in Listed
    \/ f.pc = "Stop" /\ f.at \in Listed /\ "guardedStop" \notin Traits[f.at]
    \/ f.pc = "Stop" /\ f.at = Mgr

(* What keeps a manager that runs going. *)
Kept ==
    running[Mgr] =>
        \/ waitB > 0 \/ waitA[Len(todo)] > 0
        \/ \E l \in Listed : running[l]
        \/ \E f \in Frames : GoesOn(f)

KeptInv == FromIni /\ Shape /\ NotStopping /\ ListensOrRefreshes /\ Kept

(* The list stays one of the ini file's. *)
LEMMA FromIniStep == TypeOK /\ Shape /\ FromIni /\ [Next]_vars => FromIni'
<1> SUFFICES ASSUME TypeOK, Shape, FromIni, [Next]_vars PROVE FromIni'
  OBVIOUS
<1>1. cfg' \in Configs \/ UNCHANGED cfg
  BY OnlyStart, StartAlone
<1> QED BY <1>1 DEF FromIni, todo

(* The tasks of the list are logic scripts and are heard. *)
LEMMA ListedLoud ==
    ASSUME TypeOK, FromIni, ListsLoud, NEW l \in Listed
    PROVE  l \in Logics /\ Loud(l)
<1>1. PICK k \in DOMAIN todo : l = todo[k]
  BY DEF Listed
<1>2. l \in Logics
  BY <1>1, TodoTask
<1>3. CASE cfg \in Configs
  BY <1>1, <1>2, <1>3 DEF ListsLoud, todo
<1>4. CASE todo = <<>>
  BY <1>1, <1>4
<1> QED BY <1>2, <1>3, <1>4 DEF FromIni

(* A waiter knows its list by its length. *)
LEMMA TodoLength ==
    ASSUME FromIni
    PROVE  Len(todo) \in Lengths
BY DEF FromIni, Lengths, todo

(* Whether a function makes the manager go on depends on the list and on   *)
(* the subscriptions only.                                                 *)
LEMMA GoesOnSame ==
    ASSUME UNCHANGED <<subs, cfg>>, NEW f
    PROVE  GoesOn(f)' <=> GoesOn(f)
BY DEF GoesOn, Heard, Refreshes, Listed, Sub, todo

(* A function that makes the manager go on is enough. *)
LEMMA KeptByFrame ==
    ASSUME NEW f \in Frames', GoesOn(f)'
    PROVE  Kept'
BY DEF Kept

(* These do whatever the list and the subscriptions are. *)
LEMMA GoesOnAnyway ==
    ASSUME NEW f, \/ Refreshes(f) \/ f.pc \in {"pick", "allDone", "waitB"}
                  \/ f.pc = "Stop" /\ f.at = Mgr
    PROVE  GoesOn(f) /\ GoesOn(f)'
BY DEF GoesOn, Refreshes

(* A step that leaves the list, the subscriptions, the waiters and the     *)
(* tasks that run, when the function on top is not what keeps the manager  *)
(* going.                                                                  *)
LEMMA KeptBelow ==
    ASSUME TypeOK, Kept, stack # <<>>, StackMoves, UNCHANGED <<subs, cfg>>,
           running'[Mgr] => running[Mgr], \A l \in Listed : running[l] => running'[l],
           waitB > 0 => waitB' > 0, waitA[Len(todo)] > 0 => waitA'[Len(todo)] > 0,
           ~GoesOn(Top)
    PROVE  Kept'
<1>1. Below \subseteq Frames' /\ Frames = Below \cup {Top}
  BY MovesKeepBelow, SomeFrames DEF TypeOK
<1>2. (\E f \in Frames : GoesOn(f)) => \E f \in Frames' : GoesOn(f)'
  BY <1>1, GoesOnSame
<1>3. (\E l \in Listed : running[l]) => (\E l \in Listed : running[l])'
  BY DEF Listed, todo
<1>4. waitA[Len(todo)] > 0 => waitA'[Len(todo')] > 0
  BY DEF todo
<1> QED BY <1>2, <1>3, <1>4 DEF Kept

(* The steps between bursts. *)
LEMMA KeptBetween ==
    ASSUME Kept, stack = <<>>, UNCHANGED <<running, cfg, waitA, waitB>>
    PROVE  Kept'
BY NoFrames DEF Kept, Listed, todo

(* A logic stops.  If it was the last task of the list that ran, the       *)
(* manager is told, for it listens; or it is about to start another.       *)
LEMMA KeptLogicStop ==
    ASSUME TypeOK, KeptInv, ListsLoud, NEW l \in Logics, LogicStop(l)
    PROVE  Kept'
<1> Mgr \in Scripts /\ Logics \subseteq Scripts /\ Mgr \notin Logics
  BY ScriptAssumption DEF Scripts
<1>0. /\ stack \in Seq(Frame) /\ running \in [Scripts -> BOOLEAN] /\ Kept /\ FromIni
      /\ ListensOrRefreshes
  BY DEF TypeOK, KeptInv
<1>1. /\ stack # <<>> /\ Top.pc = "Stop" /\ Top.at = l /\ StackMoves
      /\ UNCHANGED <<subs, cfg, waitA, waitB>>
  BY DEF LogicStop, AtScript, At, StackMoves, asleep, manager
<1>2. running' = running \/ running' = [running EXCEPT ![l] = FALSE]
  BY DEF LogicStop
<1>3. running'[Mgr] = running[Mgr] /\ \A m \in Logics \ {l} : running'[m] = running[m]
  BY <1>0, <1>2
<1>4. CASE l \notin Listed
  <2>1. ~GoesOn(Top)
    BY <1>1, <1>4 DEF GoesOn, Refreshes
  <2>2. \A m \in Listed : running[m] => running'[m]
    <3>1. \A m \in Listed : m \in Logics \ {l}
      BY <1>0, <1>4, ListedLoud
    <3> QED BY <1>3, <3>1
  <2> QED BY <1>0, <1>1, <1>3, <2>1, <2>2, KeptBelow
<1>5. CASE l \in Listed /\ "guardedStop" \in Traits[l] /\ ~running[l]
  <2>1. ~GoesOn(Top)
    BY <1>1, <1>5 DEF GoesOn, Refreshes
  <2>2. UNCHANGED running
    BY <1>5 DEF LogicStop
  <2> QED BY <1>0, <1>1, <2>1, <2>2, KeptBelow
<1>6. CASE l \in Listed /\ ~("guardedStop" \in Traits[l] /\ ~running[l])
  <2> SUFFICES ASSUME running[Mgr] PROVE Kept'
    BY <1>3 DEF Kept
  <2>1. "silent" \notin Traits[l]
    BY <1>0, <1>6, ListedLoud DEF Loud
  <2>2. Goto(F("publishStop", l))
    BY <1>6, <2>1 DEF LogicStop
  <2>3. Frames' = Below \cup {F("publishStop", l)} /\ Frames = Below \cup {Top}
    BY <1>0, <1>1, <2>2, GotoFrames, SomeFrames
  <2>4. CASE Listening(l)
    <3>1. IsSubscribing(subs, Sub(l, "stop"))
      BY <2>4 DEF Listening
    <3>2. PICK j \in DOMAIN subs : j > 0 /\ subs[j] = Sub(l, "stop")
      <4>1. DOMAIN subs = 1..Len(subs)
        BY LenProperties DEF TypeOK
      <4> QED BY <3>1, <4>1 DEF IsSubscribing, Contains
    <3>3. GoesOn(F("publishStop", l))
      BY <1>6, <3>2, FrameFields DEF GoesOn, Heard
    <3>4. PICK f : f = F("publishStop", l)
      OBVIOUS
    <3>5. f \in Frames' /\ GoesOn(f)'
      BY <1>1, <2>3, <3>3, <3>4, GoesOnSame
    <3> QED BY <3>5, KeptByFrame
  <2>5. CASE \E f \in Frames : Refreshes(f)
    <3>1. PICK f \in Frames : Refreshes(f)
      BY <2>5
    <3>2. f \in Frames'
      BY <1>1, <2>3, <3>1 DEF Refreshes
    <3> QED BY <3>1, <3>2, KeptByFrame, GoesOnAnyway
  <2> QED BY <1>0, <1>6, <2>4, <2>5 DEF ListensOrRefreshes
<1> QED BY <1>4, <1>5, <1>6

(* A logic starts, or stops again at once and says so. *)
LEMMA KeptLogicStart ==
    ASSUME TypeOK, KeptInv, ListsLoud, NEW l \in Logics, LogicStart(l)
    PROVE  Kept'
<1> Mgr \in Scripts /\ Logics \subseteq Scripts /\ Mgr \notin Logics
  BY ScriptAssumption DEF Scripts
<1>0. stack \in Seq(Frame) /\ running \in [Scripts -> BOOLEAN] /\ Kept /\ FromIni
  BY DEF TypeOK, KeptInv
<1>1. /\ stack # <<>> /\ Top.pc = "Start" /\ Top.at = l /\ StackMoves
      /\ UNCHANGED <<subs, cfg, waitA, waitB>>
  BY DEF LogicStart, AtScript, At, StackMoves, asleep, manager
<1>2. running' = running \/ running' = [running EXCEPT ![l] = TRUE]
  BY DEF LogicStart
<1>3. running'[Mgr] = running[Mgr] /\ \A m \in Logics : running[m] => running'[m]
  BY <1>0, <1>2
<1>4. CASE l \notin Listed
  <2>1. ~GoesOn(Top)
    BY <1>1, <1>4 DEF GoesOn, Refreshes
  <2>2. \A m \in Listed : running[m] => running'[m]
    BY <1>0, <1>3, ListedLoud
  <2> QED BY <1>0, <1>1, <1>3, <2>1, <2>2, KeptBelow
<1>5. CASE l \in Listed /\ running'[l]
  BY <1>1, <1>5 DEF Kept, Listed, todo
<1>6. CASE l \in Listed /\ ~running'[l]
  <2>1. ~running[l]
    BY <1>3, <1>6
  <2>2. /\ "guardedStart" \in Traits[l] \/ "unset" \in Traits[l]
        /\ Goto(F("Stop", l))
    BY <1>0, <1>6, <2>1 DEF LogicStart
  <2>3. "guardedStop" \notin Traits[l]
    BY <1>0, <1>6, <2>2, ListedLoud DEF Loud
  <2>4. PICK f : f = F("Stop", l)
    OBVIOUS
  <2>5. f \in Frames' /\ GoesOn(f)
    BY <1>0, <1>1, <1>6, <2>2, <2>3, <2>4, GotoFrames, FrameFields DEF GoesOn
  <2> QED BY <1>1, <2>5, GoesOnSame, KeptByFrame
<1> QED BY <1>4, <1>5, <1>6

(* A publication goes on to the next place, and when that is the manager's *)
(* it calls checkNextTask.  A form's place is never the one it is heard    *)
(* at, so that one is still to come.                                       *)
LEMMA KeptPublishStop ==
    ASSUME TypeOK, Kept, NEW s \in Scripts, PublishStop(s)
    PROVE  Kept'
<1>0. stack \in Seq(Frame)
  BY DEF TypeOK
<1>1. /\ stack # <<>> /\ Top \in Frame /\ Top.pc = "publishStop" /\ Top.at = s /\ StackMoves
      /\ UNCHANGED <<subs, cfg, running, waitA, waitB>>
  BY <1>0, TopFrame DEF PublishStop, AtScript, At, StackMoves, First, asleep, manager
<1>2. CASE ~GoesOn(Top)
  BY <1>1, <1>2, KeptBelow
<1>3. CASE GoesOn(Top)
  <2>1. PICK j \in DOMAIN subs : j > Top.i /\ subs[j] = Sub(s, "stop") /\ s \in Listed
    BY <1>1, <1>3 DEF GoesOn, Refreshes, Heard
  <2>2. j \in MatchesAfter(subs, Top.i, s, "stop")
    BY <2>1, SubscriptionFields DEF MatchesAfter
  <2>3. PICK k \in First(MatchesAfter(subs, Top.i, s, "stop")) :
           \/ subs[k].sub = "form" /\ Goto([Top EXCEPT !.i = k])
           \/ Call([Top EXCEPT !.i = k], F("unsubscribeAll", Mgr))
    BY <2>2 DEF PublishStop
  <2>4. CASE Call([Top EXCEPT !.i = k], F("unsubscribeAll", Mgr))
    <3>1. F("unsubscribeAll", Mgr) \in Frames'
      BY <1>0, <1>1, <2>4, CallFrames
    <3>2. PICK f : f = F("unsubscribeAll", Mgr)
      OBVIOUS
    <3>3. Refreshes(f)
      BY <3>2, FrameFields DEF Refreshes
    <3> QED BY <3>1, <3>2, <3>3, GoesOnAnyway, KeptByFrame
  <2>5. CASE subs[k].sub = "form" /\ Goto([Top EXCEPT !.i = k])
    <3>1. k \in Nat /\ j \in Nat /\ k <= j
      BY <2>2, <2>3, MatchesAfterType DEF First, TypeOK
    <3>2. k # j
      BY <2>1, <2>5, SubscriptionFields
    <3>3. PICK f : f = [Top EXCEPT !.i = k]
      OBVIOUS
    <3>4. f \in Frames' /\ f.pc = "publishStop" /\ f.at = s /\ f.i = k
      BY <1>0, <1>1, <2>5, <3>1, <3>3, GotoFrames, FrameFields
    <3>5. GoesOn(f)
      BY <2>1, <3>1, <3>2, <3>4 DEF GoesOn, Heard
    <3> QED BY <1>1, <3>4, <3>5, GoesOnSame, KeptByFrame
  <2> QED BY <2>3, <2>4, <2>5
<1> QED BY <1>2, <1>3

(* The choice of a task ends in a Start of one of the list, or waits.      *)
LEMMA KeptPick ==
    ASSUME TypeOK, Pick
    PROVE  Kept'
<1>1. stack \in Seq(Frame) /\ stack # <<>> /\ UNCHANGED <<subs, cfg>>
  BY DEF TypeOK, Pick, At, manager
<1>2. CASE CanRunNoiTu \/ Runnable # {}
  <2>1. PICK l \in Listed : Goto(F("Start", l))
    BY <1>2 DEF Pick, CanRunNoiTu, Runnable, First, Listed
  <2>2. PICK f : f = F("Start", l)
    OBVIOUS
  <2>3. f \in Frames' /\ GoesOn(f)
    BY <1>1, <2>1, <2>2, GotoFrames, FrameFields DEF GoesOn
  <2> QED BY <1>1, <2>3, GoesOnSame, KeptByFrame
<1>3. CASE ~CanRunNoiTu /\ Runnable = {}
  <2>1. Goto([F("waitA", Mgr) EXCEPT !.i = Len(todo)])
    BY <1>3 DEF Pick, First
  <2>2. PICK f : f = [F("waitA", Mgr) EXCEPT !.i = Len(todo)]
    OBVIOUS
  <2>3. F("waitA", Mgr) \in Frame /\ F("waitA", Mgr).pc = "waitA"
    BY NewFrame, FrameFields, ScriptAssumption DEF Places, Scripts
  <2>4. f.pc = "waitA" /\ f.i = Len(todo)
    BY <2>2, <2>3, FrameFields, TodoTask
  <2>5. f \in Frames' /\ GoesOn(f)
    BY <1>1, <2>1, <2>2, <2>4, GotoFrames DEF GoesOn
  <2> QED BY <1>1, <2>5, GoesOnSame, KeptByFrame
<1> QED BY <1>2, <1>3

(* A waiter for a task of the list the manager has starts one, sleeps      *)
(* again or ends the wait; another waiter was not what kept it going.      *)
LEMMA KeptWaitForTask ==
    ASSUME TypeOK, FromIni, Kept, WaitForTask
    PROVE  Kept'
<1>0. /\ stack \in Seq(Frame) /\ waitA \in [Lengths -> Nat] /\ Len(todo) \in Lengths
      /\ Len(todo) \in Nat
  BY TodoLength, TodoTask DEF TypeOK
<1>1. /\ stack # <<>> /\ Top \in Frame /\ Top.pc = "waitA" /\ StackMoves
      /\ UNCHANGED <<subs, cfg, running, waitB>>
  BY <1>0, TopFrame DEF WaitForTask, At, StackMoves, First, manager
<1>2. CASE Goto(F("allDone", Mgr))
  <2>1. PICK f : f = F("allDone", Mgr)
    OBVIOUS
  <2>2. f \in Frames' /\ f.pc = "allDone"
    BY <1>0, <1>1, <1>2, <2>1, GotoFrames, FrameFields
  <2> QED BY <2>2, GoesOnAnyway, KeptByFrame
<1>3. CASE \E k \in Runnable : Goto(F("Start", todo[k]))
  <2>1. PICK l \in Listed : Goto(F("Start", l))
    BY <1>3 DEF Runnable, Listed
  <2>2. PICK f : f = F("Start", l)
    OBVIOUS
  <2>3. f \in Frames' /\ GoesOn(f)
    BY <1>0, <1>1, <2>1, <2>2, GotoFrames, FrameFields DEF GoesOn
  <2> QED BY <1>1, <2>3, GoesOnSame, KeptByFrame
<1>4. CASE Top.i > Len(todo) /\ UNCHANGED waitA
  <2>1. ~GoesOn(Top)
    BY <1>0, <1>1, <1>4 DEF GoesOn, Refreshes, Frame
  <2> QED BY <1>1, <1>4, <2>1, KeptBelow
<1>5. CASE waitA' = [waitA EXCEPT ![Top.i] = @ + 1]
  <2>1. waitA[Len(todo)] > 0 => waitA'[Len(todo)] > 0
    BY <1>0, <1>5
  <2>2. CASE Top.i = Len(todo)
    <3>1. waitA'[Len(todo)] > 0
      BY <1>0, <1>5, <2>2
    <3> QED BY <1>1, <3>1 DEF Kept, todo
  <2>3. CASE Top.i # Len(todo)
    <3>1. ~GoesOn(Top)
      BY <1>1, <2>3 DEF GoesOn, Refreshes
    <3> QED BY <1>1, <2>1, <3>1, KeptBelow
  <2> QED BY <2>2, <2>3
<1>6. \/ Goto(F("allDone", Mgr)) \/ \E k \in Runnable : Goto(F("Start", todo[k]))
      \/ Top.i > Len(todo) /\ UNCHANGED waitA
      \/ waitA' = [waitA EXCEPT ![Top.i] = @ + 1]
  BY DEF WaitForTask, First
<1> QED BY <1>2, <1>3, <1>4, <1>5, <1>6

(* Every step keeps Kept. *)
LEMMA KeptStep ==
    ASSUME TypeOK, KeptInv, ListsLoud, [Next]_vars
    PROVE  Kept'
<1> Mgr \in Scripts /\ Logics \subseteq Scripts /\ Mgr \notin Logics
  BY ScriptAssumption DEF Scripts
<1>0. /\ stack \in Seq(Frame) /\ running \in [Scripts -> BOOLEAN] /\ Kept /\ FromIni
      /\ Shape /\ NotStopping /\ ListensOrRefreshes
  BY DEF TypeOK, KeptInv
<1>a. ASSUME NEW f \in Frames', Refreshes(f) \/ f.pc \in {"pick", "allDone", "waitB"}
                                \/ (f.pc = "Stop" /\ f.at = Mgr)
      PROVE  Kept'
  BY <1>a, GoesOnAnyway, KeptByFrame
<1>1. ASSUME NEW l \in Logics, LogicStart(l) \/ LogicStop(l)
      PROVE  Kept'
  BY <1>1, KeptLogicStart, KeptLogicStop
<1>2. ASSUME NEW s \in Scripts, PublishStop(s)
      PROVE  Kept'
  BY <1>0, <1>2, KeptPublishStop
<1>3. CASE Pick
  BY <1>3, KeptPick
<1>4. CASE WaitForTask
  BY <1>0, <1>4, KeptWaitForTask
<1>5. ASSUME NEW l \in Logics,
             \/ LogicBusy(l) \/ LogicPass(l) \/ LogicPause(l)
             \/ PublishInterrupt(l) \/ OnTaskInterrupt(l)
      PROVE  Kept'
  <2>1. /\ stack # <<>> /\ StackMoves /\ UNCHANGED <<subs, cfg, running, waitA, waitB>>
        /\ Top.pc \in {"loop", "pause", "publishInterrupt", "onTaskInterrupt"}
    BY <1>5 DEF LogicBusy, LogicPass, LogicPause, Pause, PublishInterrupt, OnTaskInterrupt,
                AtScript, At, StackMoves, First, asleep, manager
  <2>2. ~GoesOn(Top)
    BY <2>1 DEF GoesOn, Refreshes
  <2> QED BY <1>0, <2>1, <2>2, KeptBelow
<1>6. CASE ContinueGlobalTask \/ Accept \/ ButtonOff
  <2>1. /\ stack # <<>> /\ StackMoves /\ UNCHANGED <<subs, cfg, running, waitA, waitB>>
        /\ Top.pc \in {"ContinueGlobalTask", "accept", "buttonOff"}
    BY <1>6 DEF ContinueGlobalTask, Accept, ButtonOff, At, StackMoves, asleep, manager
  <2>2. ~GoesOn(Top)
    BY <2>1 DEF GoesOn, Refreshes
  <2> QED BY <1>0, <2>1, <2>2, KeptBelow
<1>7. CASE Start
  <2>1. CASE UNCHANGED <<running, cfg>> /\ running[Mgr]
    <3>1. /\ stack # <<>> /\ Top.pc = "Start" /\ Top.at = Mgr /\ StackMoves
          /\ UNCHANGED <<subs, waitA, waitB>>
      BY <1>7 DEF Start, AtScript, At, StackMoves, asleep
    <3>2. ~GoesOn(Top)
      <4>1. Mgr \notin Listed
        BY <1>0, ListedLoud
      <4> QED BY <3>1, <4>1 DEF GoesOn, Refreshes
    <3> QED BY <1>0, <2>1, <3>1, <3>2, KeptBelow
  <2>2. CASE ~running'[Mgr]
    BY <2>2 DEF Kept
  <2>3. CASE F("unsubscribeAll", Mgr) \in Frames'
    <3>1. Refreshes(F("unsubscribeAll", Mgr))
      BY FrameFields DEF Refreshes
    <3>2. PICK f : f = F("unsubscribeAll", Mgr)
      OBVIOUS
    <3> QED BY <1>a, <2>3, <3>1, <3>2
  <2> QED BY <1>0, <1>7, <2>1, <2>2, <2>3, StartAlone
<1>8. CASE Stop
  <2>1. ~running'[Mgr]
    BY <1>0, <1>8 DEF Stop
  <2> QED BY <2>1 DEF Kept
<1>9. CASE StopEach
  <2>1. Top \in Frames /\ Top.pc = "stopEach" /\ UNCHANGED running
    BY <1>0, <1>9, SomeFrames DEF StopEach, At
  <2> QED BY <1>0, <2>1 DEF NotStopping, Kept
<1>10. CASE UnsubscribeAll \/ StopAll
  <2>1. PICK f \in Frames' : Refreshes(f)
    BY <1>10, LoopsGoOn
  <2> QED BY <1>a, <2>1
<1>11. CASE SubscribeAll
  <2>1. PICK f \in Frames' : Refreshes(f) \/ f.pc = "pick"
    BY <1>11, LoopsGoOn, FrameFields
  <2> QED BY <1>a, <2>1
<1>12. CASE AllDone
  <2>1. stack # <<>> /\ (Goto(F("Stop", Mgr)) \/ Goto(F("waitB", Mgr)))
    BY <1>12 DEF AllDone, At
  <2>2. PICK f \in Frames' : f = F("Stop", Mgr) \/ f = F("waitB", Mgr)
    BY <1>0, <2>1, GotoFrames
  <2> QED BY <1>a, <2>2, FrameFields
<1>13. CASE WaitForAny
  <2>1. CASE Goto(F("unsubscribeAll", Mgr))
    <3>1. PICK f \in Frames' : f = F("unsubscribeAll", Mgr)
      BY <1>0, <1>13, <2>1, GotoFrames DEF WaitForAny, At
    <3>2. Refreshes(f)
      BY <3>1, FrameFields DEF Refreshes
    <3> QED BY <1>a, <3>2
  <2>2. CASE ~running[Mgr]
    BY <1>13, <2>2 DEF WaitForAny, Kept
  <2>3. CASE waitB' = waitB + 1
    BY <2>3 DEF Kept, TypeOK
  <2> QED BY <1>13, <2>1, <2>2, <2>3 DEF WaitForAny
<1>14. CASE StopGlobalTask
  <2>1. CASE ~running[Mgr]
    BY <1>14, <2>1 DEF StopGlobalTask, Kept
  <2>2. CASE running[Mgr]
    <3>1. Goto(F("Stop", Mgr))
      BY <1>14, <2>2 DEF StopGlobalTask
    <3>2. PICK f \in Frames' : f = F("Stop", Mgr)
      BY <1>0, <1>14, <3>1, GotoFrames DEF StopGlobalTask, At
    <3> QED BY <1>a, <3>2, FrameFields
  <2> QED BY <2>1, <2>2
<1>15. CASE WakeWaitA
  <2>1. PICK cnt \in Lengths : /\ waitA[cnt] > 0
                               /\ waitA' = [waitA EXCEPT ![cnt] = @ - 1]
                               /\ Begin([F("waitA", Mgr) EXCEPT !.i = cnt])
    BY <1>15 DEF WakeWaitA
  <2>2. cnt \in Nat
    BY ConfigAssumption DEF Lengths, Config
  <2>3. stack = <<>> /\ UNCHANGED <<running, cfg, subs, waitB>>
    BY <1>15 DEF WakeWaitA, Between, manager
  <2>4. CASE cnt = Len(todo)
    <3>1. PICK f : f = [F("waitA", Mgr) EXCEPT !.i = cnt]
      OBVIOUS
    <3>2. F("waitA", Mgr) \in Frame /\ F("waitA", Mgr).pc = "waitA"
      BY NewFrame, FrameFields DEF Places
    <3>3. f \in Frames' /\ f.pc = "waitA" /\ f.i = cnt
      BY <2>1, <2>2, <3>1, <3>2, BeginFrames, FrameFields
    <3>4. GoesOn(f)
      BY <2>4, <3>3 DEF GoesOn
    <3> QED BY <2>3, <3>3, <3>4, GoesOnSame, KeptByFrame
  <2>5. CASE cnt # Len(todo)
    <3>1. waitA'[Len(todo)] = waitA[Len(todo)]
      BY <1>0, <2>1, <2>5, TodoLength DEF TypeOK
    <3> QED BY <1>0, <2>3, <3>1, NoFrames DEF Kept, Listed, todo
  <2> QED BY <2>4, <2>5
<1>16. CASE WakeWaitB
  <2>1. PICK f \in Frames' : f = F("waitB", Mgr)
    BY <1>16, BeginFrames DEF WakeWaitB
  <2> QED BY <1>a, <2>1, FrameFields
<1>17. ASSUME \/ \E l \in Logics : LogicWake(l) \/ ReadyChanges(l) \/ TimeChanges(l) \/ StopMessage(l)
              \/ \E f \in Forms : OpenForm(f) \/ CloseForm(f) \/ ClickStart(f) \/ ClickStop(f)
              \/ Encounter \/ EncounterOver \/ LifeChanges \/ ThrottleExpires
       PROVE  stack = <<>> /\ UNCHANGED <<running, cfg, waitA, waitB>>
  BY <1>17 DEF LogicWake, ReadyChanges, TimeChanges, StopMessage, OpenForm, CloseForm,
               ClickStart, ClickStop, Encounter, EncounterOver, LifeChanges,
               ThrottleExpires, Between, asleep, manager
<1>18. ASSUME UNCHANGED vars
       PROVE  Kept'
  BY <1>0, <1>18 DEF Kept, vars, asleep, manager, Frames, GoesOn, Heard, Refreshes, Listed,
                     Sub, todo
<1> QED
  BY <1>0, <1>1, <1>2, <1>3, <1>4, <1>5, <1>6, <1>7, <1>8, <1>9, <1>10, <1>11, <1>12,
     <1>13, <1>14, <1>15, <1>16, <1>17, <1>18, KeptBetween
  DEF Next, Burst, Wake, User, Game

(* The manager is never lost, for any list of tasks that are heard when    *)
(* they stop, any number of them and however they, the user, the           *)
(* encounters and the manager itself start and stop one another: while it  *)
(* runs, some waiter sleeps or a task runs whose end it will be told of.   *)
(* Of the tasks there are only farm is not heard; the instance of TLC in   *)
(* which it stops in its own Start is lost.                                *)
THEOREM ManagerGoesOn == ListsLoud => (Spec => []ManagerNotLost)
<1> SUFFICES ASSUME ListsLoud PROVE Spec => []ManagerNotLost
  OBVIOUS
<1>1. Init => KeptInv
  <2> SUFFICES ASSUME Init PROVE KeptInv
    OBVIOUS
  <2>1. stack = <<>> /\ todo = <<>> /\ ~running[Mgr]
    BY DEF Init, todo, Scripts
  <2>2. Below = {} /\ Called = {}
    BY <2>1 DEF Below, Called
  <2> QED BY <2>1, <2>2 DEF KeptInv, FromIni, Shape, NotStopping, ListensOrRefreshes, Kept, At
<1>2. TypeOK /\ KeptInv /\ [Next]_vars => KeptInv'
  BY FromIniStep, ShapeStep, NotStoppingStep, ListensStep, KeptStep DEF KeptInv
<1>3. TypeOK /\ KeptInv => ManagerNotLost
  <2> SUFFICES ASSUME TypeOK, KeptInv, stack = <<>>, running[Mgr]
               PROVE  \/ waitB > 0 \/ \E cnt \in Lengths : waitA[cnt] > 0
                      \/ \E k \in DOMAIN todo :
                            running[todo[k]] /\ IsSubscribing(subs, Sub(todo[k], "stop"))
    BY DEF ManagerNotLost, Between
  <2>1. Frames = {}
    BY NoFrames
  <2>2. Len(todo) \in Lengths
    BY TodoLength DEF KeptInv
  <2>3. \A l \in Listed : IsSubscribing(subs, Sub(l, "stop"))
    BY <2>1 DEF KeptInv, ListensOrRefreshes, Listening
  <2>4. waitB > 0 \/ waitA[Len(todo)] > 0 \/ \E l \in Listed : running[l]
    BY <2>1 DEF KeptInv, Kept
  <2> QED BY <2>2, <2>3, <2>4 DEF Listed
<1> QED BY <1>1, <1>2, <1>3, TypeInit, TypeStep, PTL DEF Spec
=============================================================================
