------------------------- MODULE CollectorMarking --------------------------
(***************************************************************************)
(* What the garbage collector of lualib works on, and how it marks         *)
(* (lgc.c): objects of six kinds, the heap they form, their colours, and   *)
(* the two ways of traversal, reallymarkobject with propagatemark and      *)
(* propagateall.  Collector has the steps.                                 *)
(*                                                                         *)
(* An object is free, white (of two kinds), gray or black.  The order of   *)
(* the lists the collector works through is left open.                     *)
(***************************************************************************)
EXTENDS Integers, Sequences, FiniteSets, SequencesExt

CONSTANTS
    Tables, Strings, Udatas, Closures, UpVals, Threads,
    Globals,      \* the table of globals and registry, in Tables
    Main,         \* the main thread, in Threads
    Slots,        \* the places of a stack, from 1
    Worlds,       \* what a behaviour works with: the objects it creates, the keys of its
                  \* fields, and [Tables -> SUBSET {"k", "v"}], the weakness of the tables
    Nil, Num      \* nil, and a key that is no object

Objects == Tables \cup Strings \cup Udatas \cup Closures \cup UpVals \cup Threads
Values == Objects \ UpVals
Kinds == <<Tables, Strings, Udatas, Closures, UpVals, Threads>>

ASSUME RootAssumption == Globals \in Tables /\ Main \in Threads
ASSUME SizeAssumption == IsFiniteSet(Objects)
ASSUME KindAssumption ==
    /\ \A i, j \in DOMAIN Kinds : i # j => Kinds[i] \cap Kinds[j] = {}
    /\ Nil \notin Objects /\ Num \notin Objects /\ Nil # Num
ASSUME WorldAssumption ==
    \A w \in Worlds :
        /\ w.objects \subseteq Objects /\ w.keys \subseteq Values \cup {Num}
        /\ w.mode \in [Tables -> SUBSET {"k", "v"}]

VARIABLES
    world,        \* constant through a behaviour
    gcstate,      \* GCSpause ... GCSfinalize
    white,        \* the current white
    mark,         \* the colour of each object
    gray, grayagain, weak,  \* the lists of lgc.c
    tmudata,      \* userdata whose finalizer is to be called, in order
    finalized,    \* userdata with FINALIZEDBIT
    toSweep,      \* what the sweep has still to visit
    fields,       \* [Tables -> set of <<key, value>>]
    env,          \* [Udatas \cup Closures -> Tables \cup {Nil}]: environment or metatable
    upval,        \* [Closures -> UpVals \cup {Nil}]
    open,         \* [UpVals -> <<thread, slot>>, or <<>> for a closed one]
    closed,       \* [UpVals -> Values \cup {Nil}]: the value of a closed one
    stack,        \* [Threads -> [Slots -> Values \cup {Nil}]]
    running,      \* the thread that runs
    resumed,      \* [Threads -> Threads \cup {Nil}]: the thread it has resumed
    calls,        \* history: [Udatas -> Nat], calls of the finalizer
    doomed        \* history: what is garbage since before this collection began

heap == <<fields, env, upval, open, closed, stack, running, resumed>>
lists == <<gray, grayagain, weak, tmudata, finalized, toSweep>>
vars == <<world, gcstate, white, mark, lists, heap, calls, doomed>>

-----------------------------------------------------------------------------
(* Colours. *)

Creatable == world.objects
mode == world.mode

Allocated == {o \in Objects : mark[o] # "free"}
Whites == {"white0", "white1"}
OtherWhite == IF white = "white0" THEN "white1" ELSE "white0"
IsDead(o) == mark[o] = OtherWhite

(* The stack of the running thread, and the place that is filled next. *)
Held(s) == stack[running][s]
HeldObjects == Range(stack[running]) \ {Nil}
NextSlot == {s \in Slots : Held(s) = Nil /\ \A r \in 1..(s - 1) : Held(r) # Nil}
Hold(s, x) == stack' = [stack EXCEPT ![running][s] = x]

UpValue(v) == IF open[v] = <<>> THEN closed[v] ELSE stack[open[v][1]][open[v][2]]

(* What traversing an object marks.  A thread that resumed another has it  *)
(* on its stack, as the argument of coroutine.resume.                      *)
Children(o) ==
    (CASE o \in Tables ->
              {e[1] : e \in IF "k" \in mode[o] THEN {} ELSE fields[o]}
              \cup {e[2] : e \in IF "v" \in mode[o] THEN {} ELSE fields[o]}
       [] o \in Udatas -> {env[o]}
       [] o \in Closures -> {env[o], upval[o]}
       [] o \in UpVals -> {UpValue(o)}
       [] o \in Threads -> {stack[o][s] : s \in Slots} \cup {resumed[o]}
       [] OTHER -> {}) \ {Nil, Num}

(* All an object refers to, weakly or not: what a program holds, it reaches. *)
References(o) ==
    IF o \in Tables THEN (UNION {{e[1], e[2]} : e \in fields[o]}) \ {Num} ELSE Children(o)

(* What one comes to from the roots, going on from an object to next[o]. *)
Closure(next, roots) ==
    LET from[R \in SUBSET Objects] ==
            LET more == R \cup UNION {next[o] : o \in R}
            IN IF more = R THEN R ELSE from[more]
    IN from[roots]

ReachableFrom(roots) == Closure([o \in Objects |-> References(o)], roots)
Reachable == ReachableFrom({Main, Globals, running} \cup Range(tmudata))

(* The state of the mark phase. *)
Marking == [mark |-> mark, gray |-> gray, grayagain |-> grayagain, weak |-> weak]
WhiteOf(S, X) == {o \in X : S.mark[o] \in Whites}
IsWeak(o) == o \in Tables /\ mode[o] # {}
WeakIn(X) == {t \in X : IsWeak(t)}
IsOpen(v) == v \in UpVals /\ open[v] # <<>>

(* reallymarkobject on those of X that are white: what is to be traversed  *)
(* turns gray; udata and upvalues are marked with what they refer to; open *)
(* upvalues are never black, strings need no traversal.                    *)
NewlyMarked(S, X) ==
    Closure([o \in Objects |-> IF o \in Udatas \cup UpVals THEN WhiteOf(S, Children(o)) ELSE {}],
            WhiteOf(S, X))
Marked(S, X) ==
    LET new == NewlyMarked(S, X)
    IN [mark |-> [o \in Objects |->
                     IF o \notin new THEN S.mark[o]
                     ELSE IF o \in Udatas \cup UpVals /\ ~IsOpen(o) THEN "black" ELSE "gray"],
        gray |-> S.gray \cup (new \cap (Tables \cup Closures \cup Threads)),
        grayagain |-> S.grayagain,
        weak |-> S.weak]

(* propagatemark: weak tables stay gray, to be cleared, and threads stay   *)
(* gray, to be traversed again at the end.                                 *)
StaysGray(o) == IsWeak(o) \/ o \in Threads
Propagated(S, o) ==
    Marked([mark |-> [S.mark EXCEPT ![o] = IF StaysGray(o) THEN "gray" ELSE "black"],
            gray |-> S.gray \ {o},
            grayagain |-> S.grayagain \cup ({o} \cap Threads),
            weak |-> S.weak \cup WeakIn({o})],
           Children(o))

(* propagateall: everything that one comes to from the gray objects.       *)
MetFrom(S) == Closure([o \in Objects |-> WhiteOf(S, Children(o))], S.gray)
PropagatedAll(S) ==
    LET met == MetFrom(S)
    IN [mark |-> [o \in Objects |->
                     IF o \notin met THEN S.mark[o]
                     ELSE IF StaysGray(o) \/ o \in Strings \/ IsOpen(o) THEN "gray" ELSE "black"],
        gray |-> {},
        grayagain |-> S.grayagain \cup (met \cap Threads),
        weak |-> S.weak \cup WeakIn(met)]

Adopt(S) ==
    /\ mark' = S.mark /\ gray' = S.gray /\ grayagain' = S.grayagain /\ weak' = S.weak

-----------------------------------------------------------------------------
TypeOK ==
    /\ world \in Worlds
    /\ gcstate \in {"pause", "propagate", "sweepstring", "sweep", "finalize"}
    /\ white \in Whites
    /\ mark \in [Objects -> Whites \cup {"free", "gray", "black"}]
    /\ gray \subseteq Tables \cup Closures \cup Threads
    /\ grayagain \subseteq Tables \cup Threads /\ weak \subseteq Tables
    /\ gray \cup grayagain \cup weak \cup toSweep \subseteq Allocated
    /\ tmudata \in Seq(Udatas) /\ finalized \subseteq Udatas
    /\ fields \in [Tables -> SUBSET ((Values \cup {Num}) \X Values)]
    /\ env \in [Udatas \cup Closures -> Tables \cup {Nil}]
    /\ upval \in [Closures -> UpVals \cup {Nil}]
    /\ open \in [UpVals -> (Threads \X Slots) \cup {<<>>}]
    /\ closed \in [UpVals -> Values \cup {Nil}]
    /\ stack \in [Threads -> [Slots -> Values \cup {Nil}]]
    /\ running \in Threads /\ resumed \in [Threads -> Threads \cup {Nil}]
    /\ calls \in [Udatas -> Nat] /\ doomed \subseteq Objects
=============================================================================
