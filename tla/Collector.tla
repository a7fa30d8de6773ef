----------------------------- MODULE Collector -----------------------------
(***************************************************************************)
(* The incremental garbage collector (lualib/lgc.c, lgc.h) against the     *)
(* program that goes on working between its steps: strings that are        *)
(* interned (lstring.c), upvalues that open, close and are shared          *)
(* (lfunc.c), threads and their stacks (lstate.c), userdata with           *)
(* finalizers, weak tables, and the write barriers.                        *)
(***************************************************************************)
EXTENDS CollectorMarking

-----------------------------------------------------------------------------
(* The steps of the collector. *)

(* markroot: the lists begin anew with the main thread and the globals. *)
MarkRoot ==
    /\ gcstate = "pause"
    /\ Adopt(Marked([Marking EXCEPT !.gray = {}, !.grayagain = {}, !.weak = {}],
                    {Main, Globals}))
    /\ gcstate' = "propagate"
    /\ doomed' = Allocated \ Reachable
    /\ UNCHANGED <<world, white, tmudata, finalized, toSweep, heap, calls>>

PropagateMark ==
    /\ gcstate = "propagate"
    /\ \E o \in gray : Adopt(Propagated(Marking, o))
    /\ UNCHANGED <<world, gcstate, white, tmudata, finalized, toSweep, heap, calls, doomed>>

(* The first half of atomic: the open upvalues of threads that may be      *)
(* dead, the weak tables, the running thread, and what the write barriers  *)
(* caught and the threads, are marked (again).                             *)
GrayUpvals == {v \in UpVals : open[v] # <<>> /\ mark[v] = "gray"}
WeakAgain(S) == [S EXCEPT !.gray = S.weak, !.weak = {}]
CaughtAgain(S) == [S EXCEPT !.gray = S.grayagain, !.grayagain = {}]
MarkedAgain ==
    LET s1 == PropagatedAll(Marked(Marking, {UpValue(v) : v \in GrayUpvals} \ {Nil}))
        s2 == PropagatedAll(Marked(WeakAgain(s1), {running}))
    IN PropagatedAll(CaughtAgain(s2))

(* Mutation: the finalizer is called each time the userdata dies. *)
SeparatedAgain(S) == {u \in Allocated \cap Udatas : S.mark[u] \in Whites}

(* luaC_separateudata: userdata to be finalized, in some order. *)
Separated(S) == {u \in Allocated \cap Udatas : S.mark[u] \in Whites /\ u \notin finalized}

(* marktmu and propagateall: userdata to be finalized keep what they       *)
(* refer to.                                                               *)
MarkedFor(S, U) ==
    PropagatedAll(Marked([S EXCEPT !.mark = [o \in Objects |-> IF o \in U THEN white ELSE @[o]]], U))

(* iscleared: strings count as values and are kept; a finalized userdata   *)
(* is kept as a key only.                                                  *)
Cleared(S, fin, o, iskey) ==
    /\ o \notin Strings \cup {Num}
    /\ S.mark[o] \in Whites \/ (o \in Udatas /\ ~iskey /\ o \in fin)

(* cleartable: a weak table keeps the entries of which neither is cleared. *)
EntriesKept(S, fin, t) ==
    {e \in fields[t] : ~Cleared(S, fin, e[1], TRUE) /\ ~Cleared(S, fin, e[2], FALSE)}

(* The objects iscleared is asked of, where it marks strings: a value only *)
(* if its key is not cleared.                                              *)
InFields(S, fin) ==
    UNION {{e[1]} \cup (IF Cleared(S, fin, e[1], TRUE) THEN {} ELSE {e[2]}) :
           e \in UNION {fields[t] : t \in S.weak}}

(* Mutation: userdata to be finalized do not keep what they refer to.      *)
AtomicWithoutTmudata ==
    LET s3 == MarkedAgain
        dying == Separated(s3)
    IN /\ gcstate = "propagate" /\ gray = {}
       /\ Adopt([s3 EXCEPT !.mark =
              [o \in Objects |-> IF o \in dying THEN "black" ELSE s3.mark[o]]])
       /\ tmudata' = tmudata \o SetToSeq(dying)
       /\ finalized' = finalized \cup dying
       /\ white' = OtherWhite
       /\ toSweep' = {o \in Allocated : o \in UpVals => open[o] = <<>>} \ Range(tmudata')
       /\ gcstate' = "sweepstring"
       /\ doomed' = doomed \ ReachableFrom(Range(tmudata'))
       /\ UNCHANGED <<world, fields, env, upval, open, closed, stack, running, resumed, calls>>

(* atomic: userdata that died are separated and marked, and weak tables    *)
(* lose what is not marked; then the other white is the current one.       *)
Atomic ==
    LET s3 == MarkedAgain
        dying == Separated(s3)
        tmu == tmudata \o SetToSeq(dying)
        s4 == MarkedFor(s3, Range(tmu))
        fin == finalized \cup dying
    IN /\ gcstate = "propagate" /\ gray = {}
       /\ finalized' = fin /\ tmudata' = tmu
       /\ Adopt([s4 EXCEPT !.mark = [o \in Objects |->
              IF o \in Strings \cap InFields(s4, fin) THEN "gray" ELSE @[o]]])
       /\ fields' = [t \in Tables |->
              IF t \in s4.weak THEN EntriesKept(s4, fin, t) ELSE fields[t]]
       /\ white' = OtherWhite
       /\ toSweep' = {o \in Allocated : o \in UpVals => open[o] = <<>>} \ Range(tmu)
       /\ gcstate' = "sweepstring"
       /\ doomed' = doomed \ ReachableFrom(Range(tmu))
       /\ UNCHANGED <<world, env, upval, open, closed, stack, running, resumed, calls>>

(* sweeplist over the objects of X: a thread is visited together with its  *)
(* open upvalues, and a dead one closes those that live (luaE_freethread). *)
OpenOf(th) == {v \in UpVals : open[v] # <<>> /\ open[v][1] = th}
VisitedWithoutOpen(X) == X  \* mutation: threads are swept without their upvalues
Visited(X) == X \cup UNION {OpenOf(th) : th \in X \cap Threads}
Dies(X) == {o \in Visited(X) : IsDead(o)}

Sweep(X) ==
    LET dead == Dies(X)
        closing == {v \in UpVals : open[v] # <<>> /\ open[v][1] \in dead} \ dead
    IN /\ mark' = [o \in Objects |->
              IF o \in dead THEN "free" ELSE IF o \in Visited(X) THEN white ELSE mark[o]]
       /\ fields' = [t \in Tables |-> IF t \in dead THEN {} ELSE fields[t]]
       /\ env' = [o \in Udatas \cup Closures |-> IF o \in dead THEN Nil ELSE env[o]]
       /\ upval' = [c \in Closures |-> IF c \in dead THEN Nil ELSE upval[c]]
       /\ open' = [v \in UpVals |-> IF v \in closing \cup dead THEN <<>> ELSE open[v]]
       /\ closed' = [v \in UpVals |->
              IF v \in dead THEN Nil ELSE IF v \in closing THEN UpValue(v) ELSE closed[v]]
       /\ stack' = [th \in Threads |->
              IF th \in dead THEN [s \in Slots |-> Nil] ELSE stack[th]]
       /\ calls' = [u \in Udatas |-> IF u \in dead THEN 0 ELSE calls[u]]
       /\ finalized' = finalized \ dead
       /\ doomed' = doomed \ dead
       /\ UNCHANGED <<world, white, tmudata, running, resumed>>

(* The strings of a bucket are swept, one bucket after another. *)
SweepString ==
    /\ gcstate = "sweepstring"
    /\ \E X \in {{o} : o \in toSweep \cap Strings} \cup {{}} :
           /\ X = {} => toSweep \cap Strings = {}
           /\ Sweep(X)
           /\ toSweep' = toSweep \ X
           /\ gcstate' = IF toSweep' \cap Strings = {} THEN "sweep" ELSE "sweepstring"
    /\ UNCHANGED <<gray, grayagain, weak>>

(* Mutation: what is freed is not unlinked from the list. *)
SweepStepLeavesDead ==
    /\ gcstate = "sweep"
    /\ \E o \in toSweep :
           /\ Sweep({o})
           /\ toSweep' = IF IsDead(o) THEN toSweep ELSE toSweep \ {o}
           /\ gcstate' = IF toSweep' = {} THEN "finalize" ELSE "sweep"
    /\ UNCHANGED <<gray, grayagain, weak>>

(* The other objects are swept one after another. *)
SweepStep ==
    /\ gcstate = "sweep"
    /\ \E o \in toSweep :
           /\ Sweep({o})
           /\ toSweep' = toSweep \ {o}
           /\ gcstate' = IF toSweep' = {} THEN "finalize" ELSE "sweep"
    /\ UNCHANGED <<gray, grayagain, weak>>

(* Mutation: the udata returned to the root list keeps its colour. *)
CallGCTMKeepsColour ==
    /\ gcstate = "finalize" /\ tmudata # <<>>
    /\ LET u == Head(tmudata)
       IN /\ tmudata' = Tail(tmudata)
          /\ calls' = [calls EXCEPT ![u] = @ + 1]
          /\ \/ \E s \in NextSlot : Hold(s, u)
             \/ UNCHANGED stack
    /\ UNCHANGED <<world, gcstate, white, mark, gray, grayagain, weak, finalized, toSweep,
                   fields, env, upval, open, closed, running, resumed, doomed>>

(* GCTM: the finalizer has its userdata on the stack, and keeps it there   *)
(* (what it does with it are steps of the program) or lets it go.          *)
CallGCTM ==
    /\ gcstate = "finalize" /\ tmudata # <<>>
    /\ LET u == Head(tmudata)
       IN /\ tmudata' = Tail(tmudata)
          /\ mark' = [mark EXCEPT ![u] = white]
          /\ calls' = [calls EXCEPT ![u] = @ + 1]
          /\ \/ \E s \in NextSlot : Hold(s, u)
             \/ UNCHANGED stack
    /\ UNCHANGED <<world, gcstate, white, gray, grayagain, weak, finalized, toSweep,
                   fields, env, upval, open, closed, running, resumed, doomed>>

EndCycle ==
    /\ gcstate = "finalize" /\ tmudata = <<>>
    /\ gcstate' = "pause"
    /\ UNCHANGED <<world, white, mark, gray, grayagain, weak, tmudata, finalized, toSweep,
                   heap, calls, doomed>>

GCStep ==
    MarkRoot \/ PropagateMark \/ Atomic \/ SweepString \/ SweepStep \/ CallGCTM \/ EndCycle

(* luaC_fullgc up to its own cycle: a mark phase under way is given up and *)
(* everything made white again, a sweep is finished.                       *)
FullGC ==
    LET remaining == CASE gcstate \in {"pause", "propagate"} -> Allocated \ Range(tmudata)
                       [] gcstate = "finalize" -> {}
                       [] OTHER -> toSweep
    IN /\ Sweep(remaining)
       /\ gray' = {} /\ grayagain' = {} /\ weak' = {} /\ toSweep' = {}
       /\ gcstate' = "pause"

-----------------------------------------------------------------------------
(* The write barriers. *)

(* luaC_barrier, luaC_objbarrier *)
BarrierForward(S, o, x) ==
    IF x \in Objects /\ S.mark[x] \in Whites /\ S.mark[o] = "black"
    THEN IF gcstate = "propagate" THEN Marked(S, {x}) ELSE [S EXCEPT !.mark[o] = white]
    ELSE S

(* Mutation: the key that is new needs no barrier. *)
BarrierBackValue(S, t, k, x) ==
    IF S.mark[t] = "black" /\ x \in Objects /\ S.mark[x] \in Whites
    THEN [S EXCEPT !.mark[t] = "gray", !.grayagain = @ \cup {t}] ELSE S

(* luaC_barriert for a key (newkey) and a value *)
BarrierBack(S, t, k, x) ==
    IF S.mark[t] = "black" /\ \E y \in {k, x} \cap Objects : S.mark[y] \in Whites
    THEN [S EXCEPT !.mark[t] = "gray", !.grayagain = @ \cup {t}] ELSE S

-----------------------------------------------------------------------------
(* The program: steps of the running thread, on its stack. *)

Colours == <<mark, gray, grayagain, weak>>
Fixed == <<world, gcstate, white, tmudata, finalized, toSweep, calls>>

(* luaC_link *)
New(o, s) ==
    /\ mark[o] = "free"
    /\ mark' = [mark EXCEPT ![o] = white]
    /\ Hold(s, o)
    /\ env' = IF o \in Udatas THEN [env EXCEPT ![o] = Globals] ELSE env
    /\ UNCHANGED <<Fixed, doomed, gray, grayagain, weak, fields, upval, open, closed, running, resumed>>

(* luaS_newlstr: a dead string is brought back, a new one created. *)
Intern(o, s) ==
    /\ mark' = [mark EXCEPT ![o] = IF @ \in {"free", OtherWhite} THEN white ELSE @]
    /\ Hold(s, o)
    /\ doomed' = doomed \ {o}
    /\ UNCHANGED <<Fixed, gray, grayagain, weak, fields, env, upval, open, closed, running, resumed>>

(* OP_CLOSURE that captures a variable: luaF_findupval brings a dead       *)
(* upvalue of that variable back or creates one.                           *)
NewClosure(c, s, r) ==
    LET here == {v \in UpVals : open[v] = <<running, r>>}
        v == CHOOSE w \in UpVals : IF here # {} THEN w \in here ELSE mark[w] = "free"
    IN /\ mark[c] = "free" /\ s # r
       /\ here # {} \/ \E w \in UpVals \cap Creatable : mark[w] = "free"
       /\ mark' = [mark EXCEPT ![c] = white, ![v] = IF @ \in {"free", OtherWhite} THEN white ELSE @]
       /\ open' = [open EXCEPT ![v] = <<running, r>>]
       /\ upval' = [upval EXCEPT ![c] = v]
       /\ env' = [env EXCEPT ![c] = Globals]
       /\ Hold(s, c)
       /\ doomed' = doomed \ {v}
       /\ UNCHANGED <<Fixed, gray, grayagain, weak, fields, closed, running, resumed>>

Drop(s) ==
    /\ Held(s) # Nil
    /\ stack' = [stack EXCEPT ![running][s] = Nil]
    /\ UNCHANGED <<Fixed, doomed, Colours, fields, env, upval, open, closed, running, resumed>>

(* t[k] = x, for a key that is in the table or is not.  Bound: a table     *)
(* holds one field.                                                        *)
SetField(t, k, x) ==
    /\ fields[t] = {} \/ \E e \in fields[t] : e[1] = k
    /\ LET isNew == fields[t] = {}
       IN Adopt(BarrierBack(Marking, t, IF isNew THEN k ELSE Num, x))
    /\ fields' = [fields EXCEPT ![t] = {<<k, x>>}]
    /\ UNCHANGED <<Fixed, doomed, env, upval, open, closed, stack, running, resumed>>

ClearField(t) ==
    /\ fields[t] # {}
    /\ fields' = [fields EXCEPT ![t] = {}]
    /\ UNCHANGED <<Fixed, doomed, Colours, env, upval, open, closed, stack, running, resumed>>

(* A field, its key (next), an upvalue or an environment is read. *)
Readable(o) ==
    (CASE o \in Tables -> UNION {{e[1], e[2]} : e \in fields[o]}
       [] o \in Closures -> {UpValue(upval[o]), env[o]}
       [] o \in Udatas -> {env[o]}
       [] OTHER -> {}) \ {Nil, Num, Globals}

Read(s, x) ==
    /\ Hold(s, x)
    /\ UNCHANGED <<Fixed, doomed, Colours, fields, env, upval, open, closed, running, resumed>>

SetUpval(c, x) ==
    /\ x # UpValue(upval[c])
    /\ Adopt(BarrierForward(Marking, upval[c], x))
    /\ LET v == upval[c]
       IN IF open[v] = <<>> THEN closed' = [closed EXCEPT ![v] = x] /\ UNCHANGED stack
          ELSE stack' = [stack EXCEPT ![open[v][1]][open[v][2]] = x] /\ UNCHANGED closed
    /\ UNCHANGED <<Fixed, doomed, fields, env, upval, open, running, resumed>>

(* lua_setfenv, lua_setmetatable *)
SetEnv(o, t) ==
    /\ env[o] # t
    /\ Adopt(BarrierForward(Marking, o, t))
    /\ env' = [env EXCEPT ![o] = t]
    /\ UNCHANGED <<Fixed, doomed, fields, upval, open, closed, stack, running, resumed>>

(* A block or function ends: luaF_close frees the dead upvalues of its     *)
(* variables and closes the others (luaC_linkupval): one that is gray      *)
(* turns black, with a barrier for its value, or white in the sweep.       *)
CloseUpvals(level) ==
    LET leaving == {v \in UpVals : open[v] # <<>> /\ open[v][1] = running /\ open[v][2] >= level}
        dead == {v \in leaving : IsDead(v)}
        linked == {v \in leaving : mark[v] = "gray"}
        colour == IF gcstate = "propagate" THEN "black" ELSE white
        S == [Marking EXCEPT !.mark = [v \in Objects |->
                 IF v \in dead THEN "free" ELSE IF v \in linked THEN colour ELSE mark[v]]]
    IN /\ \E s \in level..Cardinality(Slots) : Held(s) # Nil
       /\ Adopt(IF gcstate = "propagate" THEN Marked(S, {UpValue(v) : v \in linked} \ {Nil}) ELSE S)
       /\ open' = [v \in UpVals |-> IF v \in leaving THEN <<>> ELSE open[v]]
       /\ closed' = [v \in UpVals |-> IF v \in leaving \ dead THEN UpValue(v) ELSE closed[v]]
       /\ stack' = [stack EXCEPT ![running] =
                       [s \in Slots |-> IF s >= level THEN Nil ELSE Held(s)]]
       /\ doomed' = doomed \ dead
       /\ UNCHANGED <<Fixed, fields, env, upval, running, resumed>>

(* coroutine.resume and yield, with the value that goes along: a thread is *)
(* never black, so no barrier is needed for its stack.                     *)
Resume(s, r) ==
    LET th == Held(s)
    IN /\ th \in Threads \ {Main} /\ s # r
       /\ resumed[th] = Nil /\ th # running /\ \A x \in Threads : resumed[x] # th
       /\ resumed' = [resumed EXCEPT ![running] = th] /\ running' = th
       /\ stack' = [stack EXCEPT ![th][1] = Held(r)]
       /\ UNCHANGED <<Fixed, doomed, Colours, fields, env, upval, open, closed>>

Yield(s) ==
    LET by == CHOOSE r \in Threads : resumed[r] = running
    IN /\ running # Main
       /\ resumed' = [resumed EXCEPT ![by] = Nil] /\ running' = by
       /\ stack' = [stack EXCEPT ![by][1] = Held(s)]
       /\ UNCHANGED <<Fixed, doomed, Colours, fields, env, upval, open, closed>>

-----------------------------------------------------------------------------
(* lua_newstate: the main thread and the table of globals, in a world. *)
StartIn(w) ==
    /\ world = w
    /\ gcstate = "pause" /\ white = "white0"
    /\ mark = [o \in Objects |-> IF o \in {Main, Globals} THEN white ELSE "free"]
    /\ gray = {} /\ grayagain = {} /\ weak = {} /\ toSweep = {}
    /\ tmudata = <<>> /\ finalized = {}
    /\ fields = [t \in Tables |-> {}]
    /\ env = [o \in Udatas \cup Closures |-> Nil]
    /\ upval = [c \in Closures |-> Nil]
    /\ open = [v \in UpVals |-> <<>>]
    /\ closed = [v \in UpVals |-> Nil]
    /\ stack = [th \in Threads |-> [s \in Slots |-> Nil]]
    /\ running = Main /\ resumed = [th \in Threads |-> Nil]
    /\ calls = [u \in Udatas |-> 0]
    /\ doomed = {}

Init == \E w \in Worlds : StartIn(w)

Program ==
    \/ \E s \in NextSlot :
           \/ \E o \in Creatable \cap (Tables \cup Udatas \cup Threads) : New(o, s)
           \/ \E o \in Creatable \cap Strings : Intern(o, s)
           \/ \E c \in Creatable \cap Closures, r \in Slots : NewClosure(c, s, r)
           \/ \E o \in HeldObjects : \E x \in Readable(o) : Read(s, x)
    \/ \E s \in Slots :
           \/ \E r \in Slots : Resume(s, r)
           \/ Drop(s) \/ Yield(s) \/ CloseUpvals(s)
    \/ \E t \in HeldObjects \cap Tables :
           \/ ClearField(t)
           \/ \E k \in (HeldObjects \cup {Num}) \cap world.keys, x \in HeldObjects : SetField(t, k, x)
    \/ \E o \in HeldObjects \cap (Udatas \cup Closures), t \in (HeldObjects \cap Tables) \cup {Globals} :
           SetEnv(o, t)
    \/ \E c \in HeldObjects \cap Closures, x \in HeldObjects : SetUpval(c, x)

Next == GCStep \/ FullGC \/ Program

Spec == Init /\ [][Next]_vars

-----------------------------------------------------------------------------
(* Whatever the program reaches, weak tables included, is there and is not *)
(* about to be swept.                                                      *)
NoDangling == \A o \in Reachable : mark[o] # "free" /\ ~IsDead(o)

NoBlackToWhite ==
    gcstate = "propagate" =>
        \A o \in Allocated \ Range(tmudata) :
            mark[o] = "black" => \A x \in Children(o) : mark[x] \notin Whites
SweptWhite ==
    gcstate \in {"pause", "finalize"} =>
        \A o \in Allocated \ Range(tmudata) : mark[o] = white

(* The mark phase's invariant, which the barriers restore: no black object *)
(* points to a white one.  Between collections everything is of the        *)
(* current white, except userdata that wait for their finalizer: the       *)
(* barriers' assertion that there is nothing black in GCSpause and         *)
(* GCSfinalize (luaC_barrierf and sweeplist of lualib/lgc.c).              *)
ColoursTell == NoBlackToWhite /\ SweptWhite

(* A userdata is finalized once, and before its memory is freed. *)
FinalizedOnce ==
    [][\A u \in Udatas :
           /\ calls'[u] <= 1
           /\ mark[u] # "free" /\ mark'[u] = "free" => calls[u] = 1]_vars

(* What was garbage when a collection began is freed when it has swept,    *)
(* also when it forms cycles or was held by a dead thread, unless it is to *)
(* be finalized or is looked up again (strings, upvalues of the stack).    *)
GarbageGoes == gcstate = "finalize" => doomed = {}
=============================================================================
