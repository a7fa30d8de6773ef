-------------------------- MODULE Collector_proofs --------------------------
(***************************************************************************)
(* What the program reaches is never freed and never about to be, for      *)
(* every finite set of objects, every world and every order of collector   *)
(* steps, barriers and program steps.                                      *)
(***************************************************************************)
EXTENDS Collector, CollectorMarking_proofs

-----------------------------------------------------------------------------
(* The inductive invariant. *)

(* An object that is there and not about to be swept, and a cell of the    *)
(* heap that holds none other.                                             *)
Live(o) == mark[o] # "free" /\ ~IsDead(o)
Kept(x) == x = Nil \/ x = Num \/ Live(x)

(* What lives refers to what lives. *)
Sound ==
    /\ \A t \in Tables : Live(t) => \A e \in fields[t] : Kept(e[1]) /\ Kept(e[2])
    /\ \A o \in Udatas \cup Closures : Live(o) => Kept(env[o])
    /\ \A c \in Closures : Live(c) => Kept(upval[c])
    /\ \A v \in UpVals : Live(v) => Kept(UpValue(v))
    /\ \A th \in Threads : Live(th) => Kept(resumed[th]) /\ \A s \in Slots : Kept(stack[th][s])

Roots ==
    /\ Live(Main) /\ Live(Globals) /\ Live(running)
    /\ \A u \in Range(tmudata) : Live(u)
    /\ \A th \in Threads : resumed[th] # Nil => Live(th)
    /\ \A o \in gray \cup grayagain \cup weak : Live(o)

(* What is free is empty, as the allocator hands it out. *)
FreeEmpty == \A o \in Objects : mark[o] = "free" =>
    /\ o \in Tables => fields[o] = {}
    /\ o \in Udatas \cup Closures => env[o] = Nil
    /\ o \in Closures => upval[o] = Nil
    /\ o \in UpVals => open[o] = <<>> /\ closed[o] = Nil
    /\ o \in Threads => resumed[o] = Nil /\ \A s \in Slots : stack[o][s] = Nil

(* An open upvalue has its value on a stack, and is swept with its thread; *)
(* a closure has an upvalue.                                               *)
Opened == \A v \in UpVals :
    open[v] # <<>> => closed[v] = Nil /\ v \notin toSweep /\ mark[open[v][1]] # "free"
HasUpval == \A c \in Closures : mark[c] # "free" => upval[c] # Nil

(* The threads that have resumed one another are a chain from the main     *)
(* thread to the running one.                                              *)
Chain ==
    /\ resumed[running] = Nil
    /\ \A th \in Threads : resumed[th] # Nil => th = Main \/ \E r \in Threads : resumed[r] = th
    /\ running = Main \/ \E r \in Threads : resumed[r] = running
    /\ \A r, q \in Threads : resumed[r] = resumed[q] => r = q \/ resumed[r] = Nil
    /\ \A r \in Threads : resumed[r] # Main
    /\ \A W \in SUBSET Threads : (\A th \in W : \E r \in W : resumed[r] = th) => W = {}

(* Weak tables, threads and open upvalues are never black, userdata never  *)
(* gray.                                                                   *)
Coloured == \A o \in Objects :
    /\ mark[o] = "black" => ~StaysGray(o) /\ ~IsOpen(o)
    /\ o \in Udatas => mark[o] # "gray"

(* The mark phase: what has been traversed refers to nothing white, and    *)
(* what is gray is in a list, to be traversed (again).                     *)
TriColour == gcstate = "propagate" =>
    /\ \A o \in Objects : mark[o] # OtherWhite
    /\ \A o \in Objects : mark[o] = "gray" => o \in Strings \cup gray \cup grayagain \cup weak \/ IsOpen(o)
    /\ \A o \in Objects : mark[o] = "black" /\ o \notin Range(tmudata) =>
          \A x \in Children(o) : mark[x] \notin Whites
    /\ \A o \in gray \cup grayagain \cup weak : mark[o] \in Shades
    /\ mark[Main] \notin Whites /\ mark[Globals] \notin Whites

(* The sweep: what has been visited is of the current white. *)
Unswept(o) == o \in toSweep \/ (o \in UpVals /\ open[o] # <<>> /\ open[o][1] \in toSweep)
Swept ==
    /\ gcstate # "propagate" =>
          \A o \in Objects : mark[o] \in {"free", white} \/ o \in Range(tmudata) \/ Unswept(o)
    /\ gcstate \notin {"sweepstring", "sweep"} => toSweep = {}

HeapInv == Sound /\ Roots /\ FreeEmpty /\ Opened /\ HasUpval /\ Chain
ColourInv == Coloured /\ TriColour /\ Swept
IInv == TypeOK /\ HeapInv /\ ColourInv

-----------------------------------------------------------------------------
(* What the invariant gives. *)

(* There are two whites; what lives is of the current one, gray or black.  *)
LEMMA TwoWhites ==
    ASSUME TypeOK
    PROVE  /\ Whites = {white, OtherWhite} /\ white # OtherWhite
           /\ "gray" \notin Whites /\ "black" \notin Whites /\ "free" \notin Whites
           /\ \A o \in Objects : Live(o) <=> mark[o] = white \/ mark[o] \in Shades
           /\ \A o \in Objects : mark[o] \in {"free", white, OtherWhite} \cup Shades
<1>1. /\ Whites = {white, OtherWhite} /\ white # OtherWhite
      /\ "gray" \notin Whites /\ "black" \notin Whites /\ "free" \notin Whites
  BY DEF TypeOK, Whites, OtherWhite
<1>2. \A o \in Objects : mark[o] \in {"free", white, OtherWhite} \cup Shades
  BY <1>1 DEF TypeOK, Shades
<1> QED BY <1>1, <1>2 DEF Live, IsDead, Shades

(* Between sweep and sweep, and in the mark phase, nothing is dead. *)
LEMMA NoneDead ==
    ASSUME IInv, gcstate \in {"pause", "propagate", "finalize"}
    PROVE  \A o \in Objects : mark[o] # OtherWhite
<1>1. CASE gcstate = "propagate"
  BY <1>1 DEF IInv, ColourInv, TriColour
<1>2. CASE gcstate # "propagate"
  <2>1. toSweep = {}
    BY <1>2 DEF IInv, ColourInv, Swept
  <2>2. \A o \in Objects : ~Unswept(o)
    BY <2>1 DEF Unswept
  <2> QED BY <1>2, <2>2, TwoWhites DEF IInv, ColourInv, HeapInv, Swept, Roots, Live, IsDead
<1> QED BY <1>1, <1>2

(* What lives refers, weakly or not, only to what lives.                   *)
LEMMA SoundReferences ==
    ASSUME TypeOK, Sound, NEW o \in Objects, Live(o), NEW x \in References(o)
    PROVE  Live(x)
<1>1. x # Nil /\ x # Num
  BY ChildrenType, KindsDiffer
<1>2. CASE o \in Tables
  BY <1>1, <1>2, ReferencesOf DEF Sound, Kept
<1>3. CASE o \in Objects \ Tables
  <2>1. x \in Children(o)
    BY <1>3, ReferencesOf
  <2> QED BY <1>1, <1>3, <2>1, ReferencesOf DEF Sound, Kept, Objects
<1> QED BY <1>2, <1>3

(* The invariant gives NoDangling: what lives is closed under reference,   *)
(* and the roots live.                                                     *)
LEMMA InvNoDangling ==
    ASSUME IInv
    PROVE  NoDangling
<1> DEFINE next == [o \in Objects |-> References(o)]
           roots == {Main, Globals, running} \cup Range(tmudata)
           lives == {o \in Objects : Live(o)}
<1>0. TypeOK /\ Sound /\ Roots
  BY DEF IInv, HeapInv
<1>1. next \in [Objects -> SUBSET Objects] /\ roots \in SUBSET Objects
  <2>1. Range(tmudata) \subseteq Udatas
    BY <1>0 DEF TypeOK, Range
  <2> QED BY <1>0, <2>1, ChildrenType, RootAssumption DEF TypeOK, Objects
<1>2. Reachable = Closure(next, roots)
  BY DEF Reachable, ReachableFrom
<1>3. roots \subseteq lives
  BY <1>0, <1>1 DEF Roots
<1>4. \A o \in lives : next[o] \subseteq lives
  BY <1>0, <1>1, SoundReferences
<1>5. Reachable \subseteq lives
  <2> HIDE DEF next, roots, lives
  <2>1. lives \in SUBSET Objects
    BY DEF lives
  <2> QED BY <2>1, <1>1, <1>2, <1>3, <1>4, ClosureProperties
<1> QED BY <1>5 DEF NoDangling, Live

(* The invariant gives what the barriers and the sweep rely on.            *)
LEMMA InvColoursTell ==
    ASSUME IInv
    PROVE  ColoursTell
<1>1. NoBlackToWhite
  BY DEF IInv, ColourInv, TriColour, NoBlackToWhite, Allocated
<1>2. SweptWhite
  <2>1. ASSUME gcstate \in {"pause", "finalize"}, NEW o \in Allocated \ Range(tmudata)
        PROVE  mark[o] = white
    <3>1. toSweep = {} /\ ~Unswept(o)
      BY <2>1 DEF IInv, ColourInv, Swept, Unswept
    <3> QED BY <2>1, <3>1 DEF IInv, ColourInv, Swept, Allocated
  <2> QED BY <2>1 DEF SweptWhite
<1> QED BY <1>1, <1>2 DEF ColoursTell

(* The invariant holds when lua_newstate returns.                          *)
LEMMA InitInv == Init => IInv
<1> SUFFICES ASSUME NEW w \in Worlds, StartIn(w) PROVE IInv
  BY DEF Init
<1> USE DEF StartIn
<1>1. TypeOK
  <2>1. mark \in [Objects -> Whites \cup {"free", "gray", "black"}]
    BY DEF Whites
  <2>2. tmudata \in Seq(Udatas)
    OBVIOUS
  <2> QED BY <2>1, <2>2, RootAssumption DEF TypeOK, Whites
<1>2. Range(tmudata) = {}
  BY DEF Range
<1>3. \A o \in Objects : Live(o) <=> o \in {Main, Globals}
  BY <1>1, TwoWhites DEF Live, IsDead, OtherWhite
<1>4. Main \in Threads /\ Globals \in Tables /\ Main \in Objects /\ Globals \in Objects
  BY RootAssumption DEF Objects
<1>5. Sound
  BY <1>3, <1>4, KindsDiffer DEF Sound, Kept, UpValue
<1>6. Roots
  BY <1>2, <1>3, <1>4 DEF Roots
<1>7. FreeEmpty /\ Opened
  BY DEF FreeEmpty, Opened
<1>8. HasUpval
  BY <1>4, KindsDiffer DEF HasUpval, Objects
<1>9. Chain
  BY <1>4, KindsDiffer DEF Chain, Objects
<1>10. Coloured /\ TriColour
  BY DEF Coloured, TriColour
<1>11. Swept
  BY DEF Swept
<1> QED BY <1>1, <1>5, <1>6, <1>7, <1>8, <1>9, <1>10, <1>11 DEF IInv, HeapInv, ColourInv

-----------------------------------------------------------------------------
(* Steps that change colours. *)

(* Live objects go on to refer to live ones if what is new in the heap     *)
(* does.                                                                   *)
LEMMA SoundAgain ==
    ASSUME TypeOK, Sound,
           \A o \in Objects : Live(o) => Live(o)',
           \A t \in Tables : Live(t)' => \A e \in fields'[t] :
               (Live(t) /\ e \in fields[t]) \/ (Kept(e[1])' /\ Kept(e[2])'),
           \A o \in Udatas \cup Closures : Live(o)' => (Live(o) /\ env'[o] = env[o]) \/ Kept(env[o])',
           \A c \in Closures : Live(c)' => (Live(c) /\ upval'[c] = upval[c]) \/ Kept(upval[c])',
           \A v \in UpVals : Live(v)' => (Live(v) /\ UpValue(v)' = UpValue(v)) \/ Kept(UpValue(v))',
           \A th \in Threads : Live(th)' =>
               /\ (Live(th) /\ resumed'[th] = resumed[th]) \/ Kept(resumed[th])'
               /\ \A s \in Slots : (Live(th) /\ stack'[th][s] = stack[th][s]) \/ Kept(stack[th][s])'
    PROVE  Sound'
<1>0. ASSUME NEW x \in Objects \cup {Nil, Num}, Kept(x) PROVE Kept(x)'
  BY <1>0 DEF Kept
<1>1. ASSUME NEW t \in Tables, Live(t)', NEW e \in fields'[t] PROVE Kept(e[1])' /\ Kept(e[2])'
  <2>1. CASE Live(t) /\ e \in fields[t]
    <3>1. e[1] \in Objects \cup {Nil, Num} /\ e[2] \in Objects \cup {Nil, Num}
      BY <2>1 DEF TypeOK, Values
    <3>2. Kept(e[1]) /\ Kept(e[2])
      BY <2>1 DEF Sound
    <3> QED BY <3>1, <3>2, <1>0
  <2> QED BY <1>1, <2>1
<1>2. ASSUME NEW o \in Udatas \cup Closures, Live(o)' PROVE Kept(env[o])'
  <2>1. CASE Live(o) /\ env'[o] = env[o]
    <3>1. env[o] \in Objects \cup {Nil, Num} /\ Kept(env[o])
      BY <2>1 DEF TypeOK, Objects, Sound
    <3>2. \A x : x = env[o] => Kept(x)'
      BY <3>1, <1>0
    <3> QED BY <3>2, <2>1 DEF Kept, Live, IsDead
  <2> QED BY <1>2, <2>1
<1>3. ASSUME NEW c \in Closures, Live(c)' PROVE Kept(upval[c])'
  <2>1. CASE Live(c) /\ upval'[c] = upval[c]
    <3>1. upval[c] \in Objects \cup {Nil, Num} /\ Kept(upval[c])
      BY <2>1 DEF TypeOK, Objects, Sound
    <3>2. \A x : x = upval[c] => Kept(x)'
      BY <3>1, <1>0
    <3> QED BY <3>2, <2>1 DEF Kept, Live, IsDead
  <2> QED BY <1>3, <2>1
<1>4. ASSUME NEW v \in UpVals, Live(v)' PROVE Kept(UpValue(v))'
  <2>1. CASE Live(v) /\ UpValue(v)' = UpValue(v)
    <3>1. UpValue(v) \in Objects \cup {Nil, Num} /\ Kept(UpValue(v))
      BY <2>1, UpValueType DEF Values, Sound
    <3>2. \A x : x = UpValue(v) => Kept(x)'
      BY <3>1, <1>0
    <3> QED BY <3>2, <2>1 DEF Kept, Live, IsDead
  <2> QED BY <1>4, <2>1
<1>5. ASSUME NEW th \in Threads, Live(th)' PROVE Kept(resumed[th])'
  <2>1. CASE Live(th) /\ resumed'[th] = resumed[th]
    <3>1. resumed[th] \in Objects \cup {Nil, Num} /\ Kept(resumed[th])
      BY <2>1 DEF TypeOK, Objects, Sound
    <3>2. \A x : x = resumed[th] => Kept(x)'
      BY <3>1, <1>0
    <3> QED BY <3>2, <2>1 DEF Kept, Live, IsDead
  <2> QED BY <1>5, <2>1
<1>6. ASSUME NEW th \in Threads, Live(th)', NEW s \in Slots PROVE Kept(stack[th][s])'
  <2>1. CASE Live(th) /\ stack'[th][s] = stack[th][s]
    <3>1. stack[th][s] \in Objects \cup {Nil, Num} /\ Kept(stack[th][s])
      BY <2>1 DEF TypeOK, Values, Sound
    <3>2. \A x : x = stack[th][s] => Kept(x)'
      BY <3>1, <1>0
    <3> QED BY <3>2, <2>1 DEF Kept, Live, IsDead
  <2> QED BY <1>6, <2>1
<1> QED BY <1>1, <1>2, <1>3, <1>4, <1>5, <1>6 DEF Sound

(* With the heap unchanged objects refer to what they did.                 *)
LEMMA SameHeap ==
    ASSUME UNCHANGED <<world, heap>>
    PROVE  \A o : /\ Children(o)' = Children(o) /\ UpValue(o)' = UpValue(o)
                  /\ IsOpen(o)' = IsOpen(o) /\ StaysGray(o)' = StaysGray(o)
BY DEF heap, Children, UpValue, IsOpen, StaysGray, IsWeak, mode

(* What lives is recoloured as long as the white stays: it lives on. *)
LEMMA Recoloured ==
    ASSUME TypeOK, NEW T \in Markings, Adopt(T), white' = white,
           \A o \in Objects : T.mark[o] # mark[o] => Live(o) /\ T.mark[o] \in {white} \cup Shades,
           \A o \in T.gray \cup T.grayagain \cup T.weak : Live(o)
    PROVE  /\ \A o \in Objects : (Live(o)' <=> Live(o)) /\ (mark'[o] = "free" <=> mark[o] = "free")
           /\ Allocated' = Allocated
           /\ mark' \in [Objects -> Whites \cup {"free", "gray", "black"}]
           /\ gray' \subseteq Tables \cup Closures \cup Threads
           /\ grayagain' \subseteq Tables \cup Threads /\ weak' \subseteq Tables
           /\ gray' \cup grayagain' \cup weak' \subseteq Allocated'
           /\ \A o \in gray' \cup grayagain' \cup weak' : Live(o)'
<1>1. /\ mark' = T.mark /\ gray' = T.gray /\ grayagain' = T.grayagain /\ weak' = T.weak
      /\ mark' \in [Objects -> Whites \cup {"free", "gray", "black"}]
      /\ gray' \subseteq Tables \cup Closures \cup Threads
      /\ grayagain' \subseteq Tables \cup Threads /\ weak' \subseteq Tables
  BY DEF Adopt, Markings, Shades
<1>2. \A o \in Objects : (Live(o)' <=> Live(o)) /\ (mark'[o] = "free" <=> mark[o] = "free")
  <2>1. OtherWhite' = OtherWhite
    BY DEF OtherWhite
  <2> QED BY <1>1, <2>1, TwoWhites DEF Live, IsDead, Shades
<1>3. Allocated' = Allocated
  BY <1>2 DEF Allocated
<1>4. \A o \in gray' \cup grayagain' \cup weak' : o \in Objects /\ Live(o)'
  BY <1>1, <1>2 DEF Objects
<1> QED BY <1>1, <1>2, <1>3, <1>4 DEF Live, Allocated

(* A step of the collector that only marks. *)
LEMMA ColoursOnly ==
    ASSUME TypeOK, HeapInv, NEW T \in Markings, Adopt(T),
           UNCHANGED <<world, white, tmudata, finalized, toSweep, heap, calls>>,
           gcstate' \in {"pause", "propagate", "sweepstring", "sweep", "finalize"}, doomed' \subseteq Objects,
           \A o \in Objects : T.mark[o] # mark[o] => Live(o) /\ T.mark[o] \in {white} \cup Shades,
           \A o \in T.gray \cup T.grayagain \cup T.weak : Live(o)
    PROVE  TypeOK' /\ HeapInv'
<1>0. UNCHANGED <<fields, env, upval, open, closed, stack, running, resumed>>
  BY DEF heap
<1>1. /\ \A o \in Objects : (Live(o)' <=> Live(o)) /\ (mark'[o] = "free" <=> mark[o] = "free")
      /\ Allocated' = Allocated
      /\ mark' \in [Objects -> Whites \cup {"free", "gray", "black"}]
      /\ gray' \subseteq Tables \cup Closures \cup Threads
      /\ grayagain' \subseteq Tables \cup Threads /\ weak' \subseteq Tables
      /\ gray' \cup grayagain' \cup weak' \subseteq Allocated'
      /\ \A o \in gray' \cup grayagain' \cup weak' : Live(o)'
  BY Recoloured
<1>2. TypeOK'
  BY <1>0, <1>1 DEF TypeOK
<1>3. Sound'
  <2>1. \A v : UpValue(v)' = UpValue(v)
    BY <1>0 DEF UpValue
  <2>2. \A o \in Objects : Live(o)' <=> Live(o)
    BY <1>1
  <2>3. \A o : o \in Tables \cup Udatas \cup Closures \cup UpVals \cup Threads => o \in Objects
    BY DEF Objects
  <2> QED BY <1>0, <2>1, <2>2, <2>3, SoundAgain DEF HeapInv
<1>4. Roots'
  <2>1. /\ Live(Main) /\ Live(Globals) /\ Live(running)
        /\ \A u \in Range(tmudata) : Live(u)
        /\ \A th \in Threads : resumed[th] # Nil => Live(th)
    BY DEF HeapInv, Roots
  <2>2. Main \in Objects /\ Globals \in Objects /\ running \in Objects /\ Range(tmudata) \subseteq Objects
        /\ Threads \subseteq Objects
    BY RootAssumption DEF TypeOK, Objects, Range
  <2>3. Range(tmudata)' = Range(tmudata)
    OBVIOUS
  <2> QED BY <1>0, <1>1, <2>1, <2>2, <2>3 DEF Roots
<1>5. FreeEmpty' /\ HasUpval'
  BY <1>0, <1>1 DEF HeapInv, FreeEmpty, HasUpval, Objects
<1>6. Opened'
  BY <1>0, <1>1 DEF HeapInv, Opened, Objects, TypeOK
<1>7. Chain'
  BY <1>0 DEF HeapInv, Chain
<1> QED BY <1>2, <1>3, <1>4, <1>5, <1>6, <1>7 DEF HeapInv

(* markroot preserves the invariant: the lists begin anew, with the main   *)
(* thread and the table of globals.                                        *)
LEMMA MarkRootStep ==
    ASSUME IInv, MarkRoot
    PROVE  IInv'
<1> DEFINE S == [Marking EXCEPT !.gray = {}, !.grayagain = {}, !.weak = {}]
           X == {Main, Globals}
           T == Marked(S, X)
<1>0. /\ TypeOK /\ HeapInv /\ ColourInv /\ gcstate = "pause" /\ gcstate' = "propagate" /\ Adopt(T)
      /\ UNCHANGED <<world, white, tmudata, finalized, toSweep, heap, calls>>
      /\ doomed' \subseteq Objects
  BY DEF IInv, MarkRoot, Allocated
<1>1. /\ S \in Markings /\ S.mark = mark /\ S.gray = {} /\ S.grayagain = {} /\ S.weak = {}
  BY <1>0 DEF Marking, Markings, TypeOK, Shades
<1>2. X \in SUBSET Objects
  BY RootAssumption DEF Objects
<1>3. /\ T \in Markings /\ T.grayagain = {} /\ T.weak = {}
      /\ \A o \in Objects : T.mark[o] # mark[o] =>
            /\ mark[o] \in Whites /\ Turned(S, T, o)
            /\ T.mark[o] = "gray" => o \in Strings \cup T.gray \/ IsOpen(o)
            /\ o \in Udatas \cup UpVals => \A x \in Children(o) : T.mark[x] \notin Whites
      /\ T.mark[Main] \notin Whites /\ T.mark[Globals] \notin Whites
      /\ \A o \in T.gray : T.mark[o] # mark[o]
  <2> HIDE DEF S
  <2>1. T = Marked(S, X)
    OBVIOUS
  <2> HIDE DEF T, X
  <2>2. /\ T \in Markings /\ T.grayagain = S.grayagain /\ T.weak = S.weak
        /\ \A o \in Objects : T.mark[o] # S.mark[o] =>
              /\ S.mark[o] \in Whites /\ Turned(S, T, o)
              /\ T.mark[o] = "gray" => o \in Strings \cup T.gray \/ IsOpen(o)
              /\ o \in Udatas \cup UpVals => \A x \in Children(o) : T.mark[x] \notin Whites
        /\ \A o \in X : T.mark[o] \notin Whites
        /\ \A o \in T.gray \ S.gray : T.mark[o] # S.mark[o]
    BY <1>0, <1>1, <1>2, <2>1, MarkedEffect
  <2> QED BY <1>1, <2>2 DEF X
<1> HIDE DEF S, X, T
<1>4. \A o \in Objects : mark[o] # OtherWhite
  BY <1>0, NoneDead
<1>5. \A o \in Objects : T.mark[o] # mark[o] => Live(o) /\ T.mark[o] \in Shades
  BY <1>0, <1>3, <1>4, TwoWhites DEF Turned
<1>6. \A o \in T.gray : o \in Objects
  BY <1>3 DEF Markings, Objects
<1>7. TypeOK' /\ HeapInv'
  BY <1>0, <1>3, <1>5, <1>6, ColoursOnly
<1>8. mark' = T.mark /\ gray' = T.gray /\ grayagain' = {} /\ weak' = {}
  BY <1>0, <1>3 DEF Adopt
<1>9. \A o : /\ Children(o)' = Children(o) /\ UpValue(o)' = UpValue(o)
             /\ IsOpen(o)' = IsOpen(o) /\ StaysGray(o)' = StaysGray(o)
  BY <1>0, SameHeap
<1>10. \A o \in Objects : mark[o] \in {"free", white} \/ o \in Range(tmudata)
  BY <1>0 DEF ColourInv, Swept, Unswept
<1>11. Coloured'
  BY <1>0, <1>3, <1>8, <1>9 DEF ColourInv, Coloured, Turned
<1>12. TriColour'
  <2>1. \A o \in Objects : mark'[o] # OtherWhite'
    BY <1>0, <1>4, <1>5, <1>8, TwoWhites DEF OtherWhite, Shades
  <2>2. ASSUME NEW o \in Objects, mark'[o] = "gray"
        PROVE  o \in Strings \cup gray' \cup grayagain' \cup weak' \/ IsOpen(o)'
    <3>1. CASE T.mark[o] # mark[o]
      BY <2>2, <3>1, <1>3, <1>8, <1>9
    <3>2. CASE T.mark[o] = mark[o]
      <4>1. o \in Range(tmudata) /\ mark[o] = "gray"
        BY <2>2, <3>2, <1>0, <1>8, <1>10, TwoWhites
      <4> QED BY <4>1, <1>0 DEF ColourInv, Coloured, TypeOK, Range
    <3> QED BY <3>1, <3>2
  <2>3. ASSUME NEW o \in Objects, mark'[o] = "black", o \notin Range(tmudata)', NEW x \in Children(o)'
        PROVE  mark'[x] \notin Whites
    <3>1. o \notin Range(tmudata) /\ T.mark[o] # mark[o]
      BY <2>3, <1>0, <1>8, <1>10, TwoWhites
    <3>2. o \in Udatas \cup UpVals
      <4>1. o \notin Tables \cup Closures \cup Threads
        BY <2>3, <3>1, <1>0, <1>1, <1>2, <1>8, MarkedEffect DEF T
      <4>2. o \notin Strings
        BY <2>3, <3>1, <1>3, <1>8 DEF Turned
      <4> QED BY <4>1, <4>2 DEF Objects
    <3> QED BY <2>3, <3>1, <3>2, <1>3, <1>8, <1>9
  <2>4. \A o \in gray' \cup grayagain' \cup weak' : mark'[o] \in Shades
    BY <1>3, <1>5, <1>6, <1>8
  <2> QED BY <2>1, <2>2, <2>3, <2>4, <1>3, <1>8 DEF TriColour
<1>13. Swept'
  BY <1>0 DEF ColourInv, Swept
<1> QED BY <1>7, <1>11, <1>12, <1>13 DEF IInv, ColourInv

(* propagatemark preserves the invariant: what is traversed turns black,   *)
(* and its children turn from white.                                       *)
LEMMA PropagateMarkStep ==
    ASSUME IInv, PropagateMark
    PROVE  IInv'
<1>0. /\ TypeOK /\ HeapInv /\ ColourInv /\ gcstate = "propagate" /\ gcstate' = gcstate
      /\ UNCHANGED <<world, white, tmudata, finalized, toSweep, heap, calls, doomed>>
  BY DEF IInv, PropagateMark
<1>1. PICK o \in gray : Adopt(Propagated(Marking, o))
  BY DEF PropagateMark
<1> DEFINE S == [mark |-> [mark EXCEPT ![o] = IF StaysGray(o) THEN "gray" ELSE "black"],
                 gray |-> gray \ {o},
                 grayagain |-> grayagain \cup ({o} \cap Threads),
                 weak |-> weak \cup WeakIn({o})]
           X == Children(o)
           T == Marked(S, X)
<1>2. Adopt(T)
  BY <1>1 DEF Propagated, Marking
<1>3. o \in Tables \cup Closures \cup Threads /\ o \in Objects /\ mark[o] \in Shades /\ X \in SUBSET Objects
  <2>1. o \in Tables \cup Closures \cup Threads
    BY <1>0 DEF TypeOK
  <2> QED BY <2>1, <1>0, ChildrenType DEF ColourInv, TriColour, Objects
<1>4. /\ S.mark = [mark EXCEPT ![o] = IF StaysGray(o) THEN "gray" ELSE "black"]
      /\ S.gray = gray \ {o} /\ S.grayagain = grayagain \cup ({o} \cap Threads)
      /\ S.weak = weak \cup WeakIn({o})
      /\ S \in Markings
  <2>1. [mark EXCEPT ![o] = IF StaysGray(o) THEN "gray" ELSE "black"] \in [Objects -> Whites \cup Shades \cup {"free"}]
    BY <1>0 DEF TypeOK, Shades
  <2> QED BY <2>1, <1>0 DEF Markings, WeakIn, IsWeak, TypeOK
<1>5. S.mark[o] \in Shades /\ \A x \in Objects : x # o => S.mark[x] = mark[x]
  BY <1>0, <1>3, <1>4 DEF TypeOK, Shades
<1>6. TypeOK /\ S \in Markings /\ X \in SUBSET Objects /\ T = Marked(S, X)
  BY <1>0, <1>3, <1>4
<1> HIDE DEF S, X, T
<1>7. /\ T \in Markings /\ T.grayagain = S.grayagain /\ T.weak = S.weak /\ S.gray \subseteq T.gray
      /\ \A x \in Objects : T.mark[x] # S.mark[x] =>
            /\ S.mark[x] \in Whites /\ Turned(S, T, x)
            /\ T.mark[x] = "gray" => x \in Strings \cup T.gray \/ IsOpen(x)
            /\ x \in Tables \cup Closures \cup Threads => T.mark[x] = "gray" /\ x \in T.gray
            /\ x \in Udatas \cup UpVals => \A y \in Children(x) : T.mark[y] \notin Whites
      /\ \A x \in X : T.mark[x] \notin Whites
      /\ \A x \in T.gray \ S.gray : T.mark[x] # S.mark[x]
  BY <1>6, MarkedEffect
<1>8. T.mark[o] = S.mark[o]
  BY <1>0, <1>3, <1>5, <1>7, TwoWhites DEF Shades
<1>9. \A x \in Objects : mark[x] # OtherWhite
  BY <1>0 DEF ColourInv, TriColour
<1>10. \A x \in Objects : T.mark[x] # mark[x] => Live(x) /\ T.mark[x] \in Shades
  BY <1>0, <1>3, <1>5, <1>7, <1>8, <1>9, TwoWhites DEF Turned
<1>11. ASSUME NEW x \in T.gray \cup T.grayagain \cup T.weak PROVE x \in Objects /\ mark[x] \in {white} \cup Shades /\ T.mark[x] \in Shades
  <2>1. x \in Objects
    BY <1>7 DEF Markings, Objects
  <2>2. CASE x \in gray \cup grayagain \cup weak
    BY <2>1, <2>2, <1>0, <1>10 DEF ColourInv, TriColour
  <2>3. CASE x \notin gray \cup grayagain \cup weak
    <3>1. x = o \/ x \in T.gray \ S.gray
      BY <2>3, <1>4, <1>7 DEF WeakIn
    <3>2. CASE x = o
      BY <3>2, <1>3, <1>5, <1>8
    <3>3. CASE x # o
      BY <3>1, <3>3, <2>1, <1>0, <1>5, <1>7, <1>9, TwoWhites DEF Turned
    <3> QED BY <3>2, <3>3
  <2> QED BY <2>1, <2>2, <2>3
<1>12. TypeOK' /\ HeapInv'
  <2>1. \A x \in T.gray \cup T.grayagain \cup T.weak : Live(x)
    BY <1>0, <1>11, TwoWhites
  <2>2. doomed' \subseteq Objects /\ gcstate' \in {"pause", "propagate", "sweepstring", "sweep", "finalize"}
    BY <1>0 DEF TypeOK
  <2> QED BY <2>1, <2>2, <1>0, <1>2, <1>7, <1>10, ColoursOnly
<1>13. mark' = T.mark /\ gray' = T.gray /\ grayagain' = T.grayagain /\ weak' = T.weak
  BY <1>2 DEF Adopt
<1>14. \A x : /\ Children(x)' = Children(x) /\ UpValue(x)' = UpValue(x)
              /\ IsOpen(x)' = IsOpen(x) /\ StaysGray(x)' = StaysGray(x)
  BY <1>0, SameHeap
<1>15. Coloured'
  <2>1. ~IsOpen(o) /\ o \notin Udatas
    BY <1>3, KindsDiffer DEF IsOpen
  <2>2. \A x \in Objects : T.mark[x] # mark[x] => x = o \/ Turned(S, T, x)
    BY <1>5, <1>7
  <2>3. T.mark[o] = "black" => ~StaysGray(o)
    BY <1>0, <1>3, <1>4, <1>8 DEF TypeOK
  <2> QED BY <2>1, <2>2, <2>3, <1>0, <1>13, <1>14 DEF ColourInv, Coloured, Turned
<1>16. TriColour'
  <2>1. \A x \in Objects : mark'[x] # OtherWhite'
    BY <1>0, <1>9, <1>10, <1>13, TwoWhites DEF OtherWhite, Shades
  <2>2. ASSUME NEW x \in Objects, mark'[x] = "gray"
        PROVE  x \in Strings \cup gray' \cup grayagain' \cup weak' \/ IsOpen(x)'
    <3>1. CASE T.mark[x] # S.mark[x]
      BY <2>2, <3>1, <1>7, <1>13, <1>14
    <3>2. CASE x = o
      <4>1. StaysGray(o)
        BY <2>2, <3>2, <1>0, <1>3, <1>4, <1>8, <1>13 DEF TypeOK
      <4> QED BY <4>1, <3>2, <1>4, <1>7, <1>13 DEF StaysGray, WeakIn
    <3>3. CASE x # o /\ T.mark[x] = S.mark[x]
      <4>1. mark[x] = "gray"
        BY <2>2, <3>3, <1>5, <1>13
      <4> QED BY <4>1, <3>3, <1>0, <1>4, <1>7, <1>13, <1>14 DEF ColourInv, TriColour
    <3> QED BY <3>1, <3>2, <3>3
  <2>3. ASSUME NEW x \in Objects, mark'[x] = "black", x \notin Range(tmudata)', NEW y \in Children(x)'
        PROVE  mark'[y] \notin Whites
    <3>0. y \in Objects /\ y \in Children(x)
      BY <2>3, <1>0, <1>14, ChildrenType
    <3>1. CASE T.mark[x] # S.mark[x]
      <4>1. x \in Udatas \cup UpVals
        BY <2>3, <3>1, <1>7, <1>13 DEF Turned, Objects
      <4> QED BY <4>1, <3>0, <3>1, <1>7, <1>13
    <3>2. CASE x = o
      BY <3>0, <3>2, <1>7, <1>13 DEF X
    <3>3. CASE x # o /\ T.mark[x] = S.mark[x]
      <4>1. mark[x] = "black" /\ x \notin Range(tmudata)
        BY <2>3, <3>3, <1>0, <1>5, <1>13
      <4>2. mark[y] \notin Whites
        BY <4>1, <3>0, <1>0 DEF ColourInv, TriColour
      <4> QED BY <4>2, <3>0, <1>0, <1>10, <1>13, TwoWhites DEF Shades
    <3> QED BY <3>1, <3>2, <3>3
  <2>4. \A x \in gray' \cup grayagain' \cup weak' : mark'[x] \in Shades
    BY <1>11, <1>13
  <2>5. mark'[Main] \notin Whites /\ mark'[Globals] \notin Whites
    <3>1. mark[Main] \notin Whites /\ mark[Globals] \notin Whites
      BY <1>0 DEF ColourInv, TriColour
    <3>2. Main \in Objects /\ Globals \in Objects
      BY RootAssumption DEF Objects
    <3> QED BY <3>1, <3>2, <1>0, <1>10, <1>13, TwoWhites DEF Shades
  <2> QED BY <2>1, <2>2, <2>3, <2>4, <2>5 DEF TriColour
<1>17. Swept'
  BY <1>0 DEF ColourInv, Swept
<1> QED BY <1>12, <1>15, <1>16, <1>17 DEF IInv, ColourInv

-----------------------------------------------------------------------------
(* Sweeping. *)

(* What is swept and dead is freed and emptied, and the upvalues of dead   *)
(* threads are closed; what lives keeps what it refers to.                 *)
LEMMA SweepEffect ==
    ASSUME IInv, NEW X \in SUBSET Allocated, Sweep(X),
           toSweep' \in SUBSET (toSweep \ X),
           gray' \in SUBSET gray, grayagain' \in SUBSET grayagain, weak' \in SUBSET weak,
           gcstate' \in {"pause", "propagate", "sweepstring", "sweep", "finalize"}
    PROVE  /\ TypeOK' /\ HeapInv' /\ Coloured'
           /\ \A o \in Objects : IF o \in Visited(X) THEN mark'[o] \in {"free", white'} ELSE mark'[o] = mark[o]
           /\ \A v \in UpVals \ Visited(X) : open'[v] = open[v]
<1> DEFINE dead == Dies(X)
           closing == {v \in UpVals : open[v] # <<>> /\ open[v][1] \in dead} \ dead
<1>0. /\ TypeOK /\ HeapInv /\ ColourInv
      /\ Sound /\ Roots /\ FreeEmpty /\ Opened /\ HasUpval /\ Chain
  BY DEF IInv, HeapInv
<1>1. /\ mark' = [o \in Objects |->
              IF o \in dead THEN "free" ELSE IF o \in Visited(X) THEN white ELSE mark[o]]
      /\ fields' = [t \in Tables |-> IF t \in dead THEN {} ELSE fields[t]]
      /\ env' = [o \in Udatas \cup Closures |-> IF o \in dead THEN Nil ELSE env[o]]
      /\ upval' = [c \in Closures |-> IF c \in dead THEN Nil ELSE upval[c]]
      /\ open' = [v \in UpVals |-> IF v \in closing \cup dead THEN <<>> ELSE open[v]]
      /\ closed' = [v \in UpVals |->
              IF v \in dead THEN Nil ELSE IF v \in closing THEN UpValue(v) ELSE closed[v]]
      /\ stack' = [th \in Threads |->
              IF th \in dead THEN [s \in Slots |-> Nil] ELSE stack[th]]
      /\ calls' = [u \in Udatas |-> IF u \in dead THEN 0 ELSE calls[u]]
      /\ finalized' = finalized \ dead
      /\ doomed' = doomed \ dead
      /\ UNCHANGED <<world, white, tmudata, running, resumed>>
  BY DEF Sweep
<1>2. Visited(X) \in SUBSET Allocated /\ X \subseteq Visited(X)
  <2>1. \A v \in UpVals : open[v] # <<>> => v \in Allocated
    BY <1>0 DEF FreeEmpty, Allocated, Objects
  <2> QED BY <2>1 DEF Visited, OpenOf
<1>3. /\ dead \in SUBSET Visited(X) /\ \A o \in dead : mark[o] = OtherWhite /\ o \in Objects
      /\ \A o \in Visited(X) \ dead : mark[o] # OtherWhite
  BY <1>2 DEF Dies, IsDead, Allocated
<1>4. closing \in SUBSET UpVals /\ closing \cap dead = {}
      /\ \A v \in UpVals : v \in closing <=> v \notin dead /\ open[v] # <<>> /\ open[v][1] \in dead
  OBVIOUS
<1> HIDE DEF dead, closing
<1>5. OtherWhite' = OtherWhite /\ white' = white
  BY <1>1 DEF OtherWhite
<1>6. \A o \in Objects : /\ mark'[o] = "free" <=> mark[o] = "free" \/ o \in dead
                         /\ Live(o)' <=> Live(o)
  BY <1>0, <1>1, <1>2, <1>3, <1>5, TwoWhites DEF Live, IsDead, Allocated
<1>7. mark' \in [Objects -> Whites \cup {"free", "gray", "black"}]
  BY <1>0, <1>1 DEF TypeOK
<1>8. Allocated' = Allocated \ dead
  BY <1>3, <1>6 DEF Allocated
<1>9. \A o \in gray \cup grayagain \cup weak : o \in Objects /\ Live(o)
  BY <1>0 DEF Roots, TypeOK, Objects
<1>10. TypeOK'
  <2>1. \A v \in UpVals : UpValue(v) \in Values \cup {Nil}
    BY <1>0, UpValueType
  <2>2. /\ fields' \in [Tables -> SUBSET ((Values \cup {Num}) \X Values)]
        /\ env' \in [Udatas \cup Closures -> Tables \cup {Nil}]
        /\ upval' \in [Closures -> UpVals \cup {Nil}]
        /\ closed' \in [UpVals -> Values \cup {Nil}]
        /\ calls' \in [Udatas -> Nat]
    BY <1>0, <1>1, <2>1 DEF TypeOK
  <2>3. open' \in [UpVals -> (Threads \X Slots) \cup {<<>>}] /\ stack' \in [Threads -> [Slots -> Values \cup {Nil}]]
    BY <1>0, <1>1 DEF TypeOK
  <2>4. gray' \cup grayagain' \cup weak' \subseteq Allocated'
    BY <1>3, <1>8, <1>9 DEF Live, IsDead, Allocated
  <2>5. toSweep' \subseteq Allocated'
    <3>1. \A o \in dead : o \in X \/ (o \in UpVals /\ open[o] # <<>>)
      BY <1>3 DEF Visited, OpenOf
    <3> QED BY <3>1, <1>0, <1>8 DEF TypeOK, Opened
  <2> QED BY <2>2, <2>3, <2>4, <2>5, <1>0, <1>1, <1>7 DEF TypeOK
<1>11. \A v \in UpVals : v \notin dead => UpValue(v)' = UpValue(v)
  <2> SUFFICES ASSUME NEW v \in UpVals, v \notin dead PROVE UpValue(v)' = UpValue(v)
    OBVIOUS
  <2>1. CASE v \in closing
    BY <2>1, <1>1, <1>4 DEF UpValue
  <2>2. CASE v \notin closing /\ open[v] = <<>>
    BY <2>2, <1>1, <1>4 DEF UpValue
  <2>3. CASE v \notin closing /\ open[v] # <<>>
    <3>1. open'[v] = open[v] /\ open[v][1] \in Threads /\ open[v][1] \notin dead
      BY <2>3, <1>0, <1>1, <1>4 DEF TypeOK
    <3>2. stack'[open[v][1]] = stack[open[v][1]]
      BY <3>1, <1>1
    <3> QED BY <2>3, <3>1, <3>2 DEF UpValue
  <2> QED BY <2>1, <2>2, <2>3
<1>12. \A o \in Objects : Live(o)' => Live(o) /\ o \notin dead
  BY <1>3, <1>6 DEF Live, IsDead
<1>13. /\ Tables \subseteq Objects /\ Udatas \cup Closures \subseteq Objects /\ UpVals \subseteq Objects
       /\ Threads \subseteq Objects /\ Strings \subseteq Objects
  BY DEF Objects
<1>14. Sound'
  <2>1. \A t \in Tables : Live(t)' => Live(t) /\ fields'[t] = fields[t]
    BY <1>1, <1>12, <1>13
  <2>2. \A o \in Udatas \cup Closures : Live(o)' => Live(o) /\ env'[o] = env[o]
    BY <1>1, <1>12, <1>13
  <2>3. \A c \in Closures : Live(c)' => Live(c) /\ upval'[c] = upval[c]
    BY <1>1, <1>12, <1>13
  <2>4. \A v \in UpVals : Live(v)' => Live(v) /\ UpValue(v)' = UpValue(v)
    BY <1>11, <1>12, <1>13
  <2>5. \A th \in Threads : Live(th)' => Live(th) /\ stack'[th] = stack[th] /\ resumed'[th] = resumed[th]
    BY <1>1, <1>12, <1>13
  <2>6. \A o \in Objects : Live(o) => Live(o)'
    BY <1>6
  <2> QED BY <1>0, <2>1, <2>2, <2>3, <2>4, <2>5, <2>6, SoundAgain
<1>15. Roots'
  <2>1. Main \in Objects /\ Globals \in Objects /\ running \in Objects /\ Range(tmudata) \subseteq Objects
    BY <1>0, RootAssumption DEF TypeOK, Objects, Range
  <2>2. Live(Main)' /\ Live(Globals)' /\ Live(running)'
    BY <2>1, <1>0, <1>1, <1>6 DEF Roots, Live, IsDead
  <2>3. \A u \in Range(tmudata) : Live(u)'
    BY <2>1, <1>0, <1>6 DEF Roots
  <2>4. Range(tmudata)' = Range(tmudata)
    BY <1>1
  <2>5. \A th \in Threads : resumed'[th] # Nil => Live(th)'
    BY <1>0, <1>1, <1>6, <1>13 DEF Roots
  <2>6. \A o \in gray' \cup grayagain' \cup weak' : Live(o)'
    BY <1>6, <1>9
  <2> QED BY <2>2, <2>3, <2>4, <2>5, <2>6 DEF Roots
<1>16. FreeEmpty'
  <2> SUFFICES ASSUME NEW o \in Objects, mark'[o] = "free"
               PROVE  /\ o \in Tables => fields'[o] = {}
                      /\ o \in Udatas \cup Closures => env'[o] = Nil
                      /\ o \in Closures => upval'[o] = Nil
                      /\ o \in UpVals => open'[o] = <<>> /\ closed'[o] = Nil
                      /\ o \in Threads => resumed'[o] = Nil /\ \A s \in Slots : stack'[o][s] = Nil
    BY DEF FreeEmpty
  <2>1. CASE o \in dead
    <3>1. o \in Threads => resumed[o] = Nil
      BY <2>1, <1>0, <1>3 DEF Roots, Live, IsDead
    <3> QED BY <2>1, <3>1, <1>1, <1>4
  <2>2. CASE o \notin dead /\ mark[o] = "free"
    <3>1. o \in UpVals => o \notin closing
      BY <2>2, <1>0, <1>4 DEF FreeEmpty
    <3> QED BY <2>2, <3>1, <1>0, <1>1 DEF FreeEmpty
  <2> QED BY <2>1, <2>2, <1>6
<1>17. Opened'
  <2> SUFFICES ASSUME NEW v \in UpVals, open'[v] # <<>>
               PROVE  closed'[v] = Nil /\ v \notin toSweep' /\ mark'[open'[v][1]] # "free"
    BY DEF Opened
  <2>1. open'[v] = open[v] /\ v \notin dead /\ v \notin closing
    BY <1>1
  <2>2. open[v][1] \notin dead /\ open[v][1] \in Objects
    BY <2>1, <1>0, <1>4, <1>13 DEF TypeOK
  <2>3. closed'[v] = closed[v] /\ toSweep' \subseteq toSweep
    BY <2>1, <1>1
  <2> QED BY <2>1, <2>2, <2>3, <1>0, <1>6 DEF Opened
<1>18. HasUpval'
  BY <1>0, <1>1, <1>6, <1>13 DEF HasUpval
<1>19. Chain'
  BY <1>0, <1>1 DEF Chain
<1>20. \A o \in Objects : IF o \in Visited(X) THEN mark'[o] \in {"free", white'} ELSE mark'[o] = mark[o]
  BY <1>1, <1>3, <1>5
<1>21. Coloured'
  <2>1. \A o \in Objects : mark'[o] \in Shades => mark'[o] = mark[o]
    BY <1>0, <1>5, <1>20, TwoWhites DEF Shades
  <2>2. \A o \in Objects : IsOpen(o)' => IsOpen(o)
    BY <1>1 DEF IsOpen
  <2>3. \A o \in Objects : StaysGray(o)' = StaysGray(o)
    BY <1>1 DEF StaysGray, IsWeak, mode
  <2> QED BY <2>1, <2>2, <2>3, <1>0 DEF ColourInv, Coloured, Shades
<1>22. \A v \in UpVals \ Visited(X) : open'[v] = open[v]
  <2>1. \A th \in dead \cap Threads : th \in X
    BY <1>3, KindsDiffer DEF Visited, OpenOf
  <2>2. \A v \in closing : v \in Visited(X)
    BY <1>0, <1>4, <2>1 DEF Visited, OpenOf, TypeOK
  <2>3. \A v \in UpVals \ Visited(X) : v \notin closing \cup dead
    BY <1>3, <2>2
  <2> QED BY <1>1, <2>3
<1> QED BY <1>10, <1>14, <1>15, <1>16, <1>17, <1>18, <1>19, <1>20, <1>21, <1>22 DEF HeapInv

(* What is left to sweep after a sweep over X. *)
LEMMA SweptAgain ==
    ASSUME IInv, NEW X \in SUBSET Allocated, Sweep(X), gcstate # "propagate",
           \A o \in Objects : IF o \in Visited(X) THEN mark'[o] \in {"free", white'} ELSE mark'[o] = mark[o],
           \A v \in UpVals \ Visited(X) : open'[v] = open[v],
           toSweep \subseteq toSweep' \cup X, NEW o \in Objects
    PROVE  mark'[o] \in {"free", white'} \/ o \in Range(tmudata)' \/ Unswept(o)'
<1>0. white' = white /\ tmudata' = tmudata
  BY DEF Sweep
<1>1. CASE o \in Visited(X)
  BY <1>1
<1>2. CASE o \notin Visited(X)
  <2>1. mark[o] \in {"free", white} \/ o \in Range(tmudata) \/ Unswept(o)
    BY DEF IInv, ColourInv, Swept
  <2>2. mark'[o] = mark[o]
    BY <1>2
  <2>3. ASSUME Unswept(o) PROVE Unswept(o)'
    <3>1. CASE o \in toSweep
      BY <3>1, <1>2 DEF Visited, Unswept
    <3>2. CASE o \in UpVals /\ open[o] # <<>> /\ open[o][1] \in toSweep
      <4>1. open[o][1] \in Threads
        BY <3>2 DEF IInv, TypeOK
      <4>2. open[o][1] \notin X
        BY <3>2, <4>1, <1>2 DEF Visited, OpenOf
      <4>3. open'[o] = open[o]
        BY <3>2, <1>2
      <4> QED BY <3>2, <4>2, <4>3 DEF Unswept
    <3> QED BY <2>3, <3>1, <3>2 DEF Unswept
  <2> QED BY <1>0, <2>1, <2>2, <2>3
<1> QED BY <1>1, <1>2

(* sweepwholelist over a bucket of strings preserves the invariant.        *)
LEMMA SweepStringStep ==
    ASSUME IInv, SweepString
    PROVE  IInv'
<1>1. PICK X \in {{o} : o \in toSweep \cap Strings} \cup {{}} :
           /\ X = {} => toSweep \cap Strings = {}
           /\ Sweep(X)
           /\ toSweep' = toSweep \ X
           /\ gcstate' = IF toSweep' \cap Strings = {} THEN "sweep" ELSE "sweepstring"
  BY DEF SweepString
<1>2. gcstate = "sweepstring" /\ UNCHANGED <<gray, grayagain, weak>> /\ X \in SUBSET Allocated
  BY DEF SweepString, IInv, TypeOK
<1>3. gcstate' \in {"sweepstring", "sweep"}
  BY <1>1
<1>4. /\ TypeOK' /\ HeapInv' /\ Coloured'
      /\ \A o \in Objects : IF o \in Visited(X) THEN mark'[o] \in {"free", white'} ELSE mark'[o] = mark[o]
      /\ \A v \in UpVals \ Visited(X) : open'[v] = open[v]
  BY <1>1, <1>2, <1>3, SweepEffect
<1>5. toSweep \subseteq toSweep' \cup X
  BY <1>1
<1>6. Swept'
  <2>1. \A o \in Objects : mark'[o] \in {"free", white'} \/ o \in Range(tmudata)' \/ Unswept(o)'
    BY <1>1, <1>2, <1>4, <1>5, SweptAgain
  <2> QED BY <2>1, <1>3 DEF Swept
<1>7. TriColour'
  BY <1>3 DEF TriColour
<1> QED BY <1>4, <1>6, <1>7 DEF IInv, ColourInv

(* A step of sweeplist over the other objects preserves the invariant.     *)
LEMMA SweepStepStep ==
    ASSUME IInv, SweepStep
    PROVE  IInv'
<1>1. PICK o \in toSweep :
           /\ Sweep({o})
           /\ toSweep' = toSweep \ {o}
           /\ gcstate' = IF toSweep' = {} THEN "finalize" ELSE "sweep"
  BY DEF SweepStep
<1> DEFINE X == {o}
<1>2. gcstate = "sweep" /\ UNCHANGED <<gray, grayagain, weak>> /\ X \in SUBSET Allocated /\ Sweep(X)
      /\ toSweep' = toSweep \ X
  BY <1>1 DEF SweepStep, IInv, TypeOK
<1> HIDE DEF X
<1>3. gcstate' \in {"finalize", "sweep"} /\ (gcstate' = "finalize" => toSweep' = {})
  BY <1>1
<1>4. /\ TypeOK' /\ HeapInv' /\ Coloured'
      /\ \A x \in Objects : IF x \in Visited(X) THEN mark'[x] \in {"free", white'} ELSE mark'[x] = mark[x]
      /\ \A v \in UpVals \ Visited(X) : open'[v] = open[v]
  BY <1>2, <1>3, SweepEffect
<1>5. toSweep \subseteq toSweep' \cup X
  BY <1>2
<1>6. Swept'
  <2>1. \A x \in Objects : mark'[x] \in {"free", white'} \/ x \in Range(tmudata)' \/ Unswept(x)'
    BY <1>2, <1>4, <1>5, SweptAgain
  <2> QED BY <2>1, <1>3 DEF Swept
<1>7. TriColour'
  BY <1>3 DEF TriColour
<1> QED BY <1>4, <1>6, <1>7 DEF IInv, ColourInv

(* luaC_fullgc preserves the invariant: from a mark phase given up all     *)
(* becomes white.                                                          *)
LEMMA FullGCStep ==
    ASSUME IInv, FullGC
    PROVE  IInv'
<1> DEFINE remaining == CASE gcstate \in {"pause", "propagate"} -> Allocated \ Range(tmudata)
                          [] gcstate = "finalize" -> {}
                          [] OTHER -> toSweep
<1>1. /\ Sweep(remaining) /\ gray' = {} /\ grayagain' = {} /\ weak' = {} /\ toSweep' = {}
      /\ gcstate' = "pause"
  BY DEF FullGC
<1>2. remaining \in SUBSET Allocated
  BY DEF IInv, TypeOK
<1>3. /\ gcstate \in {"pause", "propagate"} => remaining = Allocated \ Range(tmudata)
      /\ gcstate \notin {"pause", "propagate"} => toSweep \subseteq remaining
  BY DEF IInv, ColourInv, Swept
<1> HIDE DEF remaining
<1>4. /\ TypeOK' /\ HeapInv' /\ Coloured'
      /\ \A o \in Objects : IF o \in Visited(remaining) THEN mark'[o] \in {"free", white'} ELSE mark'[o] = mark[o]
      /\ \A v \in UpVals \ Visited(remaining) : open'[v] = open[v]
  BY <1>1, <1>2, SweepEffect
<1>5. Swept'
  <2> SUFFICES ASSUME NEW o \in Objects
               PROVE  mark'[o] \in {"free", white'} \/ o \in Range(tmudata)'
    BY <1>1 DEF Swept
  <2>1. CASE gcstate \in {"pause", "propagate"}
    <3>1. tmudata' = tmudata
      BY <1>1 DEF Sweep
    <3>2. o \in Range(tmudata) \/ o \in Visited(remaining) \/ mark[o] = "free"
      BY <2>1, <1>3 DEF Visited, Allocated
    <3> QED BY <3>1, <3>2, <1>4
  <2>2. CASE gcstate \notin {"pause", "propagate"}
    <3>1. mark'[o] \in {"free", white'} \/ o \in Range(tmudata)' \/ Unswept(o)'
      BY <2>2, <1>1, <1>2, <1>3, <1>4, SweptAgain
    <3> QED BY <3>1, <1>1 DEF Unswept
  <2> QED BY <2>1, <2>2
<1>6. TriColour'
  BY <1>1 DEF TriColour
<1> QED BY <1>4, <1>5, <1>6 DEF IInv, ColourInv

(* The end of a collection preserves the invariant.                        *)
LEMMA EndCycleStep ==
    ASSUME IInv, EndCycle
    PROVE  IInv'
<1>0. /\ TypeOK /\ HeapInv /\ ColourInv /\ gcstate = "finalize" /\ gcstate' = "pause"
      /\ UNCHANGED <<world, white, mark, gray, grayagain, weak, tmudata, finalized, toSweep, calls, doomed>>
      /\ UNCHANGED <<fields, env, upval, open, closed, stack, running, resumed>>
  BY DEF IInv, EndCycle, heap
<1>1. TypeOK'
  BY <1>0 DEF TypeOK, Allocated
<1>2. HeapInv'
  BY <1>0 DEF HeapInv, Sound, Roots, FreeEmpty, Opened, HasUpval, Chain, Live, IsDead, OtherWhite, Kept, UpValue
<1>3. Coloured' /\ TriColour'
  BY <1>0 DEF ColourInv, Coloured, TriColour, StaysGray, IsOpen, IsWeak, mode
<1>4. Swept'
  BY <1>0 DEF ColourInv, Swept, Unswept
<1> QED BY <1>1, <1>2, <1>3, <1>4 DEF IInv, ColourInv

-----------------------------------------------------------------------------
(* Steps of the program. *)

(* What the running thread holds, and what it reads from there, lives. *)
LEMMA HeldLives ==
    ASSUME IInv
    PROVE  /\ \A s \in Slots : Held(s) \in Values \cup {Nil} /\ Kept(Held(s))
           /\ \A x \in HeldObjects : x \in Values /\ x \in Objects /\ Live(x)
<1>0. TypeOK /\ Sound /\ Roots
  BY DEF IInv, HeapInv
<1>1. \A s \in Slots : Held(s) \in Values \cup {Nil} /\ Kept(Held(s))
  BY <1>0 DEF TypeOK, Held, Sound, Roots
<1>2. \A x \in HeldObjects : x # Nil /\ \E s \in Slots : x = Held(s)
  BY <1>0 DEF TypeOK, HeldObjects, Range, Held
<1> QED BY <1>1, <1>2, KindsDiffer DEF Kept, Values

(* What can be read from an object on the stack lives.                     *)
LEMMA ReadableLives ==
    ASSUME IInv, NEW o \in HeldObjects, NEW x \in Readable(o)
    PROVE  x \in Values /\ Live(x)
<1>0. TypeOK /\ Sound /\ Roots /\ HasUpval /\ x # Nil /\ x # Num /\ o \in Objects /\ Live(o)
  BY HeldLives DEF IInv, HeapInv, Readable
<1>1. CASE o \in Tables
  <2>1. \E e \in fields[o] : x = e[1] \/ x = e[2]
    <3>1. Readable(o) = (UNION {{e[1], e[2]} : e \in fields[o]}) \ {Nil, Num, Globals}
      BY <1>1, KindsDiffer DEF Readable
    <3>2. x \in UNION {{e[1], e[2]} : e \in fields[o]}
      BY <3>1
    <3> QED BY <3>2
  <2>2. \A e \in fields[o] : e[1] \in Values \cup {Num} /\ e[2] \in Values
    BY <1>0, <1>1 DEF TypeOK
  <2> QED BY <1>0, <1>1, <2>1, <2>2 DEF Sound, Kept
<1>2. CASE o \in Closures
  <2>1. upval[o] \in UpVals /\ Live(upval[o])
    BY <1>0, <1>2, KindsDiffer DEF TypeOK, Sound, HasUpval, Kept, Live, Objects
  <2>2. x = UpValue(upval[o]) \/ x = env[o]
    BY <1>0, <1>2, KindsDiffer DEF Readable
  <2>3. UpValue(upval[o]) \in Values \cup {Nil} /\ Kept(UpValue(upval[o]))
    BY <1>0, <2>1, UpValueType DEF Sound
  <2>4. env[o] \in Values \cup {Nil} /\ Kept(env[o])
    BY <1>0, <1>2, KindsDiffer DEF TypeOK, Sound, Values, Objects
  <2> QED BY <1>0, <2>2, <2>3, <2>4 DEF Kept
<1>3. CASE o \in Udatas
  <2>1. x = env[o]
    BY <1>0, <1>3, KindsDiffer DEF Readable
  <2>2. env[o] \in Values \cup {Nil} /\ Kept(env[o])
    BY <1>0, <1>3, KindsDiffer DEF TypeOK, Sound, Values, Objects
  <2> QED BY <1>0, <2>1, <2>2 DEF Kept
<1>4. o \in Tables \cup Closures \cup Udatas
  BY <1>0 DEF Readable
<1> QED BY <1>1, <1>2, <1>3, <1>4

(* What a black object refers to does not depend on the stacks. *)
LEMMA ChildrenOffStack ==
    ASSUME UNCHANGED <<world, fields, env, upval, open, closed>>,
           NEW o \in Objects \ Threads, ~IsOpen(o)
    PROVE  Children(o)' = Children(o)
<1>1. o \in UpVals => UpValue(o)' = UpValue(o)
  BY DEF UpValue, IsOpen
<1> QED BY <1>1 DEF Children, mode

(* A step that moves values on the stacks, and maybe goes on in another    *)
(* thread.                                                                 *)
LEMMA StackStep ==
    ASSUME IInv, UNCHANGED <<Fixed, doomed, Colours, fields, env, upval, open, closed>>,
           stack' \in [Threads -> [Slots -> Values \cup {Nil}]],
           \A th \in Threads : \A s \in Slots :
               stack'[th][s] = stack[th][s] \/ (mark[th] # "free" /\ Kept(stack[th][s])'),
           running' \in Threads, resumed' \in [Threads -> Threads \cup {Nil}], Chain', Live(running)',
           \A th \in Threads : resumed'[th] = resumed[th] \/ (Live(th) /\ Kept(resumed[th])')
    PROVE  IInv'
<1>0. /\ TypeOK /\ HeapInv /\ ColourInv
      /\ UNCHANGED <<world, gcstate, white, mark, gray, grayagain, weak, tmudata, finalized, toSweep, calls, doomed>>
      /\ UNCHANGED <<fields, env, upval, open, closed>>
  BY DEF IInv, Fixed, Colours
<1>1. TypeOK'
  BY <1>0 DEF TypeOK, Allocated
<1>2. \A o : Live(o)' <=> Live(o)
  BY <1>0 DEF Live, IsDead, OtherWhite
<1>3. Sound'
  <2>1. \A v \in UpVals : UpValue(v)' = UpValue(v) \/ Kept(UpValue(v))'
    <3> SUFFICES ASSUME NEW v \in UpVals PROVE UpValue(v)' = UpValue(v) \/ Kept(UpValue(v))'
      OBVIOUS
    <3>1. CASE open[v] = <<>>
      BY <3>1, <1>0 DEF UpValue
    <3>2. CASE open[v] # <<>>
      <4>1. open[v][1] \in Threads /\ open[v][2] \in Slots
        BY <3>2, <1>0 DEF TypeOK
      <4>2. UpValue(v) = stack[open[v][1]][open[v][2]] /\ UpValue(v)' = stack'[open[v][1]][open[v][2]]
        BY <3>2, <1>0 DEF UpValue
      <4> QED BY <4>1, <4>2, <1>0 DEF Kept, Live, IsDead
    <3> QED BY <3>1, <3>2
  <2>2. \A th \in Threads : (Live(th) /\ resumed'[th] = resumed[th]) \/ ~Live(th)' \/ Kept(resumed[th])'
    BY <1>2
  <2>3. \A th \in Threads : \A s \in Slots : (Live(th) /\ stack'[th][s] = stack[th][s]) \/ ~Live(th)' \/ Kept(stack[th][s])'
    BY <1>2
  <2> QED BY <1>0, <1>2, <2>1, <2>2, <2>3, SoundAgain DEF HeapInv
<1>4. Roots'
  <2>1. \A th \in Threads : resumed'[th] # Nil => Live(th)
    BY <1>0 DEF HeapInv, Roots
  <2>2. Range(tmudata)' = Range(tmudata)
    BY <1>0
  <2> QED BY <1>0, <1>2, <2>1, <2>2 DEF HeapInv, Roots
<1>5. FreeEmpty'
  <2>1. \A th \in Threads : mark[th] = "free" => resumed'[th] = resumed[th] /\ \A s \in Slots : stack'[th][s] = stack[th][s]
    BY DEF Live
  <2>2. ASSUME NEW o \in Objects, mark'[o] = "free"
        PROVE  /\ o \in Tables => fields'[o] = {}
               /\ o \in Udatas \cup Closures => env'[o] = Nil
               /\ o \in Closures => upval'[o] = Nil
               /\ o \in UpVals => open'[o] = <<>> /\ closed'[o] = Nil
               /\ o \in Threads => resumed'[o] = Nil /\ \A s \in Slots : stack'[o][s] = Nil
    BY <2>1, <2>2, <1>0 DEF HeapInv, FreeEmpty
  <2> QED BY <2>2 DEF FreeEmpty
<1>6. Opened' /\ HasUpval'
  BY <1>0 DEF HeapInv, Opened, HasUpval
<1>7. Coloured'
  BY <1>0 DEF ColourInv, Coloured, StaysGray, IsOpen, IsWeak, mode
<1>8. TriColour'
  <2>1. \A o \in Objects : mark[o] = "black" => Children(o)' = Children(o)
    <3>1. \A o \in Objects : mark[o] = "black" => o \notin Threads /\ ~IsOpen(o)
      BY <1>0 DEF ColourInv, Coloured, StaysGray
    <3> QED BY <1>0, <3>1, ChildrenOffStack
  <2>2. \A o : IsOpen(o)' = IsOpen(o)
    BY <1>0 DEF IsOpen
  <2>3. Range(tmudata)' = Range(tmudata) /\ OtherWhite' = OtherWhite
    BY <1>0 DEF OtherWhite
  <2> QED BY <1>0, <2>1, <2>2, <2>3 DEF ColourInv, TriColour
<1>9. Swept'
  BY <1>0 DEF ColourInv, Swept, Unswept
<1> QED BY <1>1, <1>3, <1>4, <1>5, <1>6, <1>7, <1>8, <1>9 DEF IInv, HeapInv, ColourInv

(* A value that lives is put on the stack of the running thread. *)
LEMMA HoldTypes ==
    ASSUME TypeOK, NEW s \in Slots, NEW x \in Values \cup {Nil}, stack' = [stack EXCEPT ![running][s] = x]
    PROVE  /\ stack' \in [Threads -> [Slots -> Values \cup {Nil}]]
           /\ \A th \in Threads : \A r \in Slots :
                 IF th = running /\ r = s THEN stack'[th][r] = x ELSE stack'[th][r] = stack[th][r]
BY DEF TypeOK

(* The running thread lives.                                               *)
LEMMA RunningLives ==
    ASSUME IInv
    PROVE  running \in Threads /\ Live(running) /\ mark[running] # "free" /\ Chain
BY DEF IInv, HeapInv, TypeOK, Roots, Live

(* A value that lives may be put on the stack of the running thread.       *)
LEMMA HoldStep ==
    ASSUME IInv, NEW s \in Slots, NEW x \in Values \cup {Nil}, Kept(x),
           stack' = [stack EXCEPT ![running][s] = x],
           UNCHANGED <<Fixed, doomed, Colours, fields, env, upval, open, closed, running, resumed>>
    PROVE  IInv'
<1>0. TypeOK /\ UNCHANGED <<mark, white, running, resumed>>
  BY DEF IInv, Fixed, Colours
<1>1. /\ stack' \in [Threads -> [Slots -> Values \cup {Nil}]]
      /\ \A th \in Threads : \A r \in Slots :
            IF th = running /\ r = s THEN stack'[th][r] = x ELSE stack'[th][r] = stack[th][r]
  BY <1>0, HoldTypes
<1>3. \A th \in Threads : \A r \in Slots :
          stack'[th][r] = stack[th][r] \/ (mark[th] # "free" /\ Kept(stack[th][r])')
  BY <1>0, <1>1, RunningLives DEF Kept, Live, IsDead, OtherWhite
<1>4. running' \in Threads /\ resumed' \in [Threads -> Threads \cup {Nil}] /\ Chain' /\ Live(running)'
  <2>1. Chain /\ Live(running) /\ running \in Threads /\ resumed \in [Threads -> Threads \cup {Nil}]
    BY <1>0, RunningLives DEF TypeOK
  <2>2. Chain'
    BY <2>1, <1>0 DEF Chain
  <2>3. Live(running)'
    BY <2>1, <1>0 DEF Live, IsDead, OtherWhite
  <2> QED BY <2>1, <2>2, <2>3, <1>0
<1> QED BY <1>0, <1>1, <1>3, <1>4, StackStep

(* Reading a field, a key, an upvalue or an environment preserves the      *)
(* invariant, from weak tables too.                                        *)
LEMMA ReadStep ==
    ASSUME IInv, NEW s \in Slots, NEW o \in HeldObjects, NEW x \in Readable(o), Read(s, x)
    PROVE  IInv'
BY ReadableLives, HoldStep DEF Read, Hold, Kept

(* Dropping a value from the stack preserves the invariant.                *)
LEMMA DropStep ==
    ASSUME IInv, NEW s \in Slots, Drop(s)
    PROVE  IInv'
BY HoldStep DEF Drop, Kept

(* coroutine.resume preserves the invariant: the chain of threads gets     *)
(* longer by one.                                                          *)
LEMMA ResumeStep ==
    ASSUME IInv, NEW s \in Slots, NEW r \in Slots, Resume(s, r)
    PROVE  IInv'
<1> DEFINE th == Held(s)
           x == Held(r)
<1>0. /\ TypeOK /\ HeapInv /\ th \in Threads \ {Main} /\ resumed[th] = Nil /\ th # running
      /\ \A y \in Threads : resumed[y] # th
      /\ resumed' = [resumed EXCEPT ![running] = th] /\ running' = th
      /\ stack' = [stack EXCEPT ![th][1] = x]
      /\ UNCHANGED <<mark, white>>
      /\ UNCHANGED <<Fixed, doomed, Colours, fields, env, upval, open, closed>>
  BY DEF IInv, Resume, Fixed, Colours
<1>1. x \in Values \cup {Nil} /\ Kept(x) /\ Kept(th)
  BY HeldLives
<1>2. th \in Objects /\ Live(th)
  BY <1>0, <1>1, KindsDiffer DEF Kept, Objects
<1>c. Chain /\ running \in Threads /\ resumed \in [Threads -> Threads \cup {Nil}] /\ Nil \notin Threads /\ Main \in Threads
  BY <1>0, KindsDiffer, RootAssumption DEF HeapInv, TypeOK, Objects
<1> HIDE DEF th, x
<1>3. \A y : Live(y)' <=> Live(y)
  BY <1>0 DEF Live, IsDead, OtherWhite
<1>4. stack' \in [Threads -> [Slots -> Values \cup {Nil}]]
  BY <1>0, <1>1 DEF TypeOK
<1>5. \A q \in Threads : \A n \in Slots : stack'[q][n] = stack[q][n] \/ (q = th /\ stack'[q][n] = x)
  BY <1>0 DEF TypeOK
<1>6. \A q \in Threads : \A n \in Slots :
          stack'[q][n] = stack[q][n] \/ (mark[q] # "free" /\ Kept(stack[q][n])')
  BY <1>0, <1>1, <1>2, <1>5 DEF Kept, Live, IsDead, OtherWhite
<1>7. resumed' \in [Threads -> Threads \cup {Nil}] /\ running' \in Threads
      /\ \A q \in Threads : resumed'[q] = IF q = running THEN th ELSE resumed[q]
  BY <1>0, <1>c
<1>8. \A q \in Threads : resumed'[q] = resumed[q] \/ (Live(q) /\ Kept(resumed[q])')
  <2>1. \A q \in Threads : resumed'[q] = resumed[q] \/ (q = running /\ resumed'[q] = th)
    BY <1>7
  <2> QED BY <2>1, <1>0, <1>2, RunningLives DEF Kept, Live, IsDead, OtherWhite
<1>9. Chain'
  <2>1. resumed'[running'] = Nil
    BY <1>0, <1>7
  <2>2. ASSUME NEW q \in Threads, resumed'[q] # Nil PROVE q = Main \/ \E n \in Threads : resumed'[n] = q
    <3>1. q = Main \/ \E n \in Threads : resumed[n] = q
      BY <2>2, <1>7, <1>c DEF Chain
    <3> QED BY <3>1, <1>7, <1>c DEF Chain
  <2>3. \E n \in Threads : resumed'[n] = running'
    BY <1>0, <1>7, <1>c
  <2>4. \A m, q \in Threads : resumed'[m] = resumed'[q] => m = q \/ resumed'[m] = Nil
    BY <1>0, <1>7, <1>c DEF Chain
  <2>5. \A m \in Threads : resumed'[m] # Main
    BY <1>0, <1>7, <1>c DEF Chain
  <2>6. ASSUME NEW W \in SUBSET Threads, \A q \in W : \E n \in W : resumed'[n] = q PROVE W = {}
    <3> DEFINE V == W \ {th}
    <3>1. \A q \in V : \E n \in V : resumed[n] = q
      <4> SUFFICES ASSUME NEW q \in V PROVE \E n \in V : resumed[n] = q
        OBVIOUS
      <4>1. PICK n \in W : resumed'[n] = q
        BY <2>6
      <4>2. n # th /\ n # running
        BY <4>1, <1>0, <1>7, <1>c
      <4> QED BY <4>1, <4>2, <1>7
    <3>2. V = {}
      <4> V \in SUBSET Threads
        OBVIOUS
      <4> HIDE DEF V
      <4> QED BY <3>1, <1>c DEF Chain
    <3>3. th \notin W
      <4>1. W \subseteq {th}
        BY <3>2
      <4>2. resumed'[th] = Nil
        BY <1>0, <1>7
      <4> QED BY <4>1, <4>2, <2>6, <1>c, <1>0
    <3> QED BY <3>2, <3>3
  <2> QED BY <2>1, <2>2, <2>3, <2>4, <2>5, <2>6 DEF Chain
<1>10. Live(running)'
  BY <1>0, <1>2, <1>3 DEF Live, IsDead
<1> QED BY <1>0, <1>4, <1>6, <1>7, <1>8, <1>9, <1>10, StackStep

(* coroutine.yield preserves the invariant: the chain of threads gets      *)
(* shorter by one.                                                         *)
LEMMA YieldStep ==
    ASSUME IInv, NEW s \in Slots, Yield(s)
    PROVE  IInv'
<1> DEFINE by == CHOOSE r \in Threads : resumed[r] = running
           x == Held(s)
<1>0. /\ TypeOK /\ HeapInv /\ running # Main
      /\ resumed' = [resumed EXCEPT ![by] = Nil] /\ running' = by
      /\ stack' = [stack EXCEPT ![by][1] = x]
      /\ UNCHANGED <<mark, white>>
      /\ UNCHANGED <<Fixed, doomed, Colours, fields, env, upval, open, closed>>
  BY DEF IInv, Yield, Fixed, Colours
<1>c. Chain /\ running \in Threads /\ resumed \in [Threads -> Threads \cup {Nil}] /\ Nil \notin Threads /\ Main \in Threads
  BY <1>0, KindsDiffer, RootAssumption DEF HeapInv, TypeOK, Objects
<1>1. x \in Values \cup {Nil} /\ Kept(x)
  BY HeldLives
<1>2. by \in Threads /\ resumed[by] = running
  BY <1>0, <1>c DEF Chain
<1> HIDE DEF by, x
<1>3. Live(by)
  BY <1>0, <1>2, <1>c DEF HeapInv, Roots
<1>4. stack' \in [Threads -> [Slots -> Values \cup {Nil}]]
  BY <1>0, <1>1 DEF TypeOK
<1>5. \A q \in Threads : \A n \in Slots : stack'[q][n] = stack[q][n] \/ (q = by /\ stack'[q][n] = x)
  BY <1>0 DEF TypeOK
<1>6. \A q \in Threads : \A n \in Slots :
          stack'[q][n] = stack[q][n] \/ (mark[q] # "free" /\ Kept(stack[q][n])')
  BY <1>0, <1>1, <1>3, <1>5 DEF Kept, Live, IsDead, OtherWhite
<1>7. resumed' \in [Threads -> Threads \cup {Nil}] /\ running' \in Threads
      /\ \A q \in Threads : resumed'[q] = IF q = by THEN Nil ELSE resumed[q]
  BY <1>0, <1>2, <1>c
<1>8. \A q \in Threads : resumed'[q] = resumed[q] \/ (Live(q) /\ Kept(resumed[q])')
  BY <1>3, <1>7 DEF Kept
<1>9. Chain'
  <2>1. resumed'[running'] = Nil
    BY <1>0, <1>2, <1>7
  <2>2. ASSUME NEW q \in Threads, resumed'[q] # Nil PROVE q = Main \/ \E n \in Threads : resumed'[n] = q
    <3>1. q = Main \/ \E n \in Threads : resumed[n] = q
      BY <2>2, <1>7, <1>c DEF Chain
    <3>2. q # running
      BY <2>2, <1>7, <1>c DEF Chain
    <3> QED BY <3>1, <3>2, <1>2, <1>7
  <2>3. running' = Main \/ \E n \in Threads : resumed'[n] = running'
    <3>1. by = Main \/ \E n \in Threads : resumed[n] = by
      BY <1>2, <1>c DEF Chain
    <3>2. by # running
      BY <1>2, <1>c DEF Chain
    <3> QED BY <3>1, <3>2, <1>0, <1>2, <1>7
  <2>4. \A m, q \in Threads : resumed'[m] = resumed'[q] => m = q \/ resumed'[m] = Nil
    BY <1>7, <1>c DEF Chain
  <2>5. \A m \in Threads : resumed'[m] # Main
    BY <1>7, <1>c DEF Chain
  <2>6. ASSUME NEW W \in SUBSET Threads, \A q \in W : \E n \in W : resumed'[n] = q PROVE W = {}
    <3>1. \A q \in W : \E n \in W : resumed[n] = q
      BY <2>6, <1>7, <1>c
    <3> QED BY <3>1, <1>c DEF Chain
  <2> QED BY <2>1, <2>2, <2>3, <2>4, <2>5, <2>6 DEF Chain
<1>10. Live(running)'
  BY <1>0, <1>3 DEF Live, IsDead, OtherWhite
<1> QED BY <1>0, <1>4, <1>6, <1>7, <1>8, <1>9, <1>10, StackStep

(* Objects that are free, or dead ones that are looked up again, become    *)
(* white, and x is put on the stack.                                       *)
Fresh(F, s, x) ==
    /\ \A o \in F : \/ mark[o] = "free"
                    \/ mark[o] = OtherWhite /\ o \in Strings
                    \/ mark[o] = OtherWhite /\ o \in UpVals /\ open[o] # <<>> /\ open[o][1] = running
    /\ mark' \in [Objects -> Whites \cup {"free", "gray", "black"}]
    /\ \A o \in Objects : mark'[o] = IF o \in F THEN white ELSE mark[o]
    /\ x \in F \/ Live(x)
    /\ stack' = [stack EXCEPT ![running][s] = x]
    /\ UNCHANGED <<Fixed, gray, grayagain, weak, fields, closed, running, resumed>>
    /\ doomed' \subseteq Objects
    /\ env' \in [Udatas \cup Closures -> Tables \cup {Nil}]
    /\ \A o \in Udatas \cup Closures : env'[o] = env[o] \/ (o \in F /\ env'[o] = Globals)
    /\ upval' \in [Closures -> UpVals \cup {Nil}]
    /\ \A c \in Closures : upval'[c] = upval[c]
           \/ (c \in F /\ \E v \in UpVals : upval'[c] = v /\ (v \in F \/ Live(v)))
    /\ \A c \in Closures \cap F : upval'[c] # Nil
    /\ open' \in [UpVals -> (Threads \X Slots) \cup {<<>>}]
    /\ \A v \in UpVals : open'[v] = open[v]
           \/ (v \in F /\ mark[v] = "free" /\ \E r \in Slots : open'[v] = <<running, r>>)

(* Whatever makes objects so preserves the invariant.                      *)
LEMMA FreshStep ==
    ASSUME IInv, NEW F \in SUBSET Objects, NEW s \in Slots, NEW x \in Values, Fresh(F, s, x)
    PROVE  IInv'
<1>f. /\ \A o \in F : \/ mark[o] = "free"
                      \/ mark[o] = OtherWhite /\ o \in Strings
                      \/ mark[o] = OtherWhite /\ o \in UpVals /\ open[o] # <<>> /\ open[o][1] = running
      /\ mark' \in [Objects -> Whites \cup {"free", "gray", "black"}]
      /\ \A o \in Objects : mark'[o] = IF o \in F THEN white ELSE mark[o]
      /\ x \in F \/ Live(x)
      /\ stack' = [stack EXCEPT ![running][s] = x]
      /\ UNCHANGED <<Fixed, gray, grayagain, weak, fields, closed, running, resumed>>
      /\ doomed' \subseteq Objects
  BY DEF Fresh
<1>g. /\ env' \in [Udatas \cup Closures -> Tables \cup {Nil}]
      /\ \A o \in Udatas \cup Closures : env'[o] = env[o] \/ (o \in F /\ env'[o] = Globals)
      /\ upval' \in [Closures -> UpVals \cup {Nil}]
      /\ \A c \in Closures : upval'[c] = upval[c]
             \/ (c \in F /\ \E v \in UpVals : upval'[c] = v /\ (v \in F \/ Live(v)))
      /\ \A c \in Closures \cap F : upval'[c] # Nil
      /\ open' \in [UpVals -> (Threads \X Slots) \cup {<<>>}]
      /\ \A v \in UpVals : open'[v] = open[v]
             \/ (v \in F /\ mark[v] = "free" /\ \E r \in Slots : open'[v] = <<running, r>>)
  BY DEF Fresh
<1>1. /\ stack' \in [Threads -> [Slots -> Values \cup {Nil}]]
      /\ \A th \in Threads : \A r \in Slots :
            IF th = running /\ r = s THEN stack'[th][r] = x ELSE stack'[th][r] = stack[th][r]
  <2>1. TypeOK /\ x \in Values \cup {Nil}
    BY DEF IInv
  <2> QED BY <1>f, <2>1, HoldTypes
<1> USE <1>f, <1>g
<1>0. /\ TypeOK /\ HeapInv /\ ColourInv
      /\ Sound /\ Roots /\ FreeEmpty /\ Opened /\ HasUpval /\ Chain
      /\ UNCHANGED <<world, gcstate, white, tmudata, finalized, toSweep, calls, gray, grayagain, weak, fields, closed, running, resumed>>
  BY DEF IInv, HeapInv, Fixed
<1>2. OtherWhite' = OtherWhite /\ white # OtherWhite /\ white # "free" /\ white # "gray" /\ white # "black"
  BY <1>0, TwoWhites DEF OtherWhite
<1>3. \A o \in Objects : IF o \in F THEN mark'[o] = white ELSE mark'[o] = mark[o]
  OBVIOUS
<1>4. \A o \in Objects : Live(o)' <=> Live(o) \/ o \in F
  BY <1>2, <1>3 DEF Live, IsDead
<1>5. \A o \in F : ~Live(o)
  BY DEF Live, IsDead
<1>6. /\ Tables \subseteq Objects /\ Udatas \cup Closures \subseteq Objects /\ UpVals \subseteq Objects
      /\ Closures \subseteq Objects /\ Threads \subseteq Objects /\ Strings \subseteq Objects
      /\ running \in Threads /\ Main \in Threads /\ Globals \in Tables
  BY <1>0, RootAssumption DEF Objects, TypeOK
<1>7. Live(running) /\ Live(Globals) /\ Live(Main)
  BY <1>0 DEF Roots
<1>8. TypeOK'
  <2>1. mark' \in [Objects -> Whites \cup {"free", "gray", "black"}]
    BY <1>0, <1>3 DEF TypeOK
  <2>2. Allocated \subseteq Allocated'
    BY <1>2, <1>3 DEF Allocated
  <2> QED BY <1>0, <1>1, <2>1, <2>2 DEF TypeOK
<1>9. Kept(x)' /\ Kept(Globals)'
  <2>1. x \in Objects
    BY DEF Values
  <2> QED BY <2>1, <1>4, <1>6, <1>7 DEF Kept, Live, IsDead
<1>10. Sound'
  <2>1. ASSUME NEW t \in Tables, Live(t)', NEW e \in fields'[t] PROVE Live(t) /\ e \in fields[t]
    <3>1. t \notin F
      BY <2>1, <1>0, <1>6, KindsDiffer DEF FreeEmpty
    <3> QED BY <2>1, <3>1, <1>4, <1>6
  <2>2. ASSUME NEW o \in Udatas \cup Closures, Live(o)' PROVE (Live(o) /\ env'[o] = env[o]) \/ Kept(env[o])'
    <3>1. CASE env'[o] = Globals
      BY <3>1, <1>0, <1>9 DEF Kept, Live, IsDead
    <3>2. CASE env'[o] = env[o] /\ o \in F
      <4>1. mark[o] = "free"
        BY <3>2, KindsDiffer
      <4> QED BY <3>2, <4>1, <1>0, <1>6 DEF FreeEmpty, Kept
    <3>3. CASE env'[o] = env[o] /\ o \notin F
      BY <2>2, <3>3, <1>4, <1>6
    <3> QED BY <3>1, <3>2, <3>3
  <2>3. ASSUME NEW c \in Closures, Live(c)' PROVE (Live(c) /\ upval'[c] = upval[c]) \/ Kept(upval[c])'
    <3>1. CASE \E v \in UpVals : upval'[c] = v /\ (v \in F \/ Live(v))
      <4>1. \A y : y = upval'[c] => Kept(y)'
        BY <3>1, <1>4, <1>6 DEF Kept
      <4> QED BY <4>1 DEF Kept, Live, IsDead
    <3>2. CASE upval'[c] = upval[c] /\ c \in F
      <4>1. mark[c] = "free"
        BY <3>2, KindsDiffer
      <4> QED BY <3>2, <4>1, <1>0, <1>6 DEF FreeEmpty, Kept
    <3>3. CASE upval'[c] = upval[c] /\ c \notin F
      BY <2>3, <3>3, <1>4, <1>6
    <3> QED BY <3>1, <3>2, <3>3
  <2>4. \A r \in Slots : Kept(stack[running][r])'
    <3> SUFFICES ASSUME NEW r \in Slots PROVE Kept(stack[running][r])'
      OBVIOUS
    <3>1. CASE r = s
      BY <3>1, <1>0, <1>1, <1>6, <1>9 DEF Kept, Live, IsDead
    <3>2. CASE r # s
      <4>1. stack'[running][r] = stack[running][r] /\ stack[running][r] \in Values \cup {Nil} /\ Kept(stack[running][r])
        BY <3>2, <1>0, <1>1, <1>6, <1>7 DEF TypeOK, Sound
      <4>2. \A y \in Values \cup {Nil} : Kept(y) => Kept(y)'
        BY <1>4 DEF Kept, Values
      <4>3. \A y : y = stack[running][r] => Kept(y)'
        BY <4>1, <4>2
      <4> QED BY <4>1, <4>3, <1>0 DEF Kept, Live, IsDead
    <3> QED BY <3>1, <3>2
  <2>5. ASSUME NEW v \in UpVals, Live(v)' PROVE (Live(v) /\ UpValue(v)' = UpValue(v)) \/ Kept(UpValue(v))'
    <3>1. CASE open'[v] # <<>> /\ open'[v][1] = running
      <4>1. PICK r \in Slots : open'[v][2] = r
        BY <3>1
      <4>2. UpValue(v)' = stack'[running'][r]
        BY <3>1, <4>1, <1>0 DEF UpValue
      <4>3. Kept(stack[running][r])'
        BY <2>4
      <4> QED BY <4>2, <4>3 DEF Kept, Live, IsDead
    <3>2. CASE open'[v] = open[v] /\ open[v] # <<>> /\ open[v][1] # running
      <4>1. UpValue(v)' = UpValue(v)
        <5>1. open[v][1] \in Threads /\ open[v][2] \in Slots
          BY <3>2, <1>0 DEF TypeOK
        <5> QED BY <3>2, <5>1, <1>0, <1>1 DEF UpValue
      <4>2. v \notin F
        BY <3>2, <1>0, <1>6, KindsDiffer DEF FreeEmpty
      <4> QED BY <2>5, <4>1, <4>2, <1>4, <1>6
    <3>3. CASE open'[v] = open[v] /\ open[v] = <<>>
      <4>1. UpValue(v)' = closed[v] /\ UpValue(v) = closed[v]
        BY <3>3, <1>0 DEF UpValue
      <4>2. v \in F => mark[v] = "free"
        BY <3>3, KindsDiffer
      <4>3. v \in F => Kept(UpValue(v))'
        BY <4>1, <4>2, <1>0, <1>6 DEF FreeEmpty, Kept
      <4> QED BY <2>5, <4>1, <4>3, <1>4, <1>6
    <3> QED BY <3>1, <3>2, <3>3, <1>6
  <2>6. ASSUME NEW th \in Threads, Live(th)' PROVE (Live(th) /\ resumed'[th] = resumed[th]) \/ Kept(resumed[th])'
    <3>1. th \in F => mark[th] = "free"
      BY KindsDiffer
    <3>2. th \in F => Kept(resumed[th])'
      BY <3>1, <1>0, <1>6 DEF FreeEmpty, Kept
    <3> QED BY <2>6, <3>2, <1>0, <1>4, <1>6
  <2>7. ASSUME NEW th \in Threads, Live(th)', NEW r \in Slots PROVE (Live(th) /\ stack'[th][r] = stack[th][r]) \/ Kept(stack[th][r])'
    <3>1. CASE th = running
      BY <3>1, <2>4, <1>0 DEF Kept, Live, IsDead
    <3>2. CASE th # running
      <4>1. stack'[th][r] = stack[th][r]
        BY <3>2, <1>1
      <4>2. th \in F => mark[th] = "free"
        BY KindsDiffer
      <4>3. th \in F => Kept(stack[th][r])'
        BY <4>1, <4>2, <1>0, <1>6 DEF FreeEmpty, Kept
      <4> QED BY <2>7, <4>1, <4>3, <1>4, <1>6
    <3> QED BY <3>1, <3>2
  <2>8. \A o \in Objects : Live(o) => Live(o)'
    BY <1>4
  <2> QED BY <1>0, <2>1, <2>2, <2>3, <2>5, <2>6, <2>7, <2>8, SoundAgain
<1>11. Roots'
  <2>1. \A o \in Range(tmudata) \cup gray \cup grayagain \cup weak \cup {Main, Globals, running} : o \in Objects /\ Live(o)
    BY <1>0, <1>6 DEF TypeOK, Range, Roots
  <2>2. \A o \in Range(tmudata) \cup gray \cup grayagain \cup weak \cup {Main, Globals, running} : Live(o)'
    BY <2>1, <1>4
  <2>3. \A th \in Threads : resumed[th] # Nil => Live(th)'
    BY <1>0, <1>4, <1>6 DEF Roots
  <2>4. Range(tmudata)' = Range(tmudata) /\ running' = running /\ resumed' = resumed
    BY <1>0
  <2> QED BY <2>2, <2>3, <2>4, <1>0 DEF Roots, Live, IsDead
<1>12. FreeEmpty'
  <2> SUFFICES ASSUME NEW o \in Objects, mark'[o] = "free"
        PROVE  /\ o \in Tables => fields'[o] = {}
               /\ o \in Udatas \cup Closures => env'[o] = Nil
               /\ o \in Closures => upval'[o] = Nil
               /\ o \in UpVals => open'[o] = <<>> /\ closed'[o] = Nil
               /\ o \in Threads => resumed'[o] = Nil /\ \A r \in Slots : stack'[o][r] = Nil
    BY DEF FreeEmpty
  <2>1. o \notin F /\ mark[o] = "free" /\ o # running
    BY <1>2, <1>3, <1>7 DEF Live
  <2> QED BY <2>1, <1>0, <1>1 DEF FreeEmpty
<1>13. Opened'
  <2> SUFFICES ASSUME NEW v \in UpVals, open'[v] # <<>>
               PROVE  closed'[v] = Nil /\ v \notin toSweep' /\ mark'[open'[v][1]] # "free"
    BY DEF Opened
  <2>1. CASE open'[v] = open[v]
    <3>1. open[v][1] \in Objects
      BY <2>1, <1>0, <1>6 DEF TypeOK
    <3> QED BY <2>1, <3>1, <1>0, <1>2, <1>3 DEF Opened
  <2>2. CASE mark[v] = "free" /\ \E r \in Slots : open'[v] = <<running, r>>
    <3>1. v \notin toSweep /\ closed[v] = Nil
      BY <2>2, <1>0, <1>6 DEF TypeOK, Allocated, FreeEmpty
    <3>2. open'[v][1] = running /\ mark[running] # "free"
      BY <2>2, <1>7 DEF Live
    <3> QED BY <3>1, <3>2, <1>0, <1>2, <1>3, <1>6
  <2> QED BY <2>1, <2>2
<1>14. HasUpval'
  BY <1>0, <1>3, <1>6 DEF HasUpval
<1>15. Chain'
  BY <1>0 DEF Chain
<1>16. \A o \in Objects : StaysGray(o)' = StaysGray(o) /\ (o \notin F => IsOpen(o)' = IsOpen(o))
  BY <1>0 DEF StaysGray, IsWeak, mode, IsOpen
<1>17. Coloured'
  BY <1>0, <1>2, <1>3, <1>16 DEF ColourInv, Coloured
<1>18. TriColour'
  <2> SUFFICES ASSUME gcstate = "propagate" PROVE TriColour'
    BY <1>0 DEF TriColour
  <2>0. \A o \in Objects : mark[o] # OtherWhite
    BY <1>0 DEF ColourInv, TriColour
  <2>1. \A o \in Objects : Live(o) => o \notin F
    BY <1>5
  <2>2. \A o \in Objects : mark'[o] # OtherWhite'
    BY <1>2, <1>3, <2>0
  <2>3. \A o \in Objects : mark'[o] = "gray" => o \in Strings \cup gray' \cup grayagain' \cup weak' \/ IsOpen(o)'
    BY <1>0, <1>2, <1>3, <1>16 DEF ColourInv, TriColour
  <2>4. ASSUME NEW o \in Objects, mark'[o] = "black", o \notin Range(tmudata)', NEW y \in Children(o)'
        PROVE  mark'[y] \notin Whites
    <3>1. o \notin F /\ mark[o] = "black" /\ o \notin Range(tmudata) /\ Live(o)
      BY <2>4, <1>0, <1>2, <1>3, TwoWhites DEF Shades
    <3>2. o \notin Threads /\ ~IsOpen(o)
      BY <3>1, <1>0 DEF ColourInv, Coloured, StaysGray
    <3>3. o \in UpVals => UpValue(o)' = UpValue(o)
      BY <3>1, <3>2, <1>0 DEF UpValue, IsOpen
    <3>4. Children(o)' = Children(o)
      BY <3>1, <3>2, <3>3, <1>0 DEF Children, mode
    <3>5. y \in Objects /\ mark[y] \notin Whites
      BY <2>4, <3>1, <3>4, <1>0, ChildrenType DEF ColourInv, TriColour
    <3>6. y \notin F
      <4>1. y \in References(o)
        BY <2>4, <3>4, <1>0, ChildrenType
      <4> QED BY <4>1, <3>1, <3>5, <2>1, <1>0, SoundReferences
    <3> QED BY <3>5, <3>6, <1>3
  <2>5. \A o \in gray' \cup grayagain' \cup weak' : mark'[o] \in Shades
    <3>1. \A o \in gray \cup grayagain \cup weak : o \in Objects /\ Live(o)
      BY <1>0, <1>6 DEF TypeOK, Roots
    <3> QED BY <3>1, <2>1, <1>0, <1>3 DEF ColourInv, TriColour
  <2>6. mark'[Main] \notin Whites /\ mark'[Globals] \notin Whites
    BY <1>0, <1>3, <1>6, <1>7, <2>1 DEF ColourInv, TriColour
  <2> QED BY <2>2, <2>3, <2>4, <2>5, <2>6 DEF TriColour
<1>19. Swept'
  <2>1. ASSUME gcstate # "propagate", NEW o \in Objects
        PROVE  mark'[o] \in {"free", white'} \/ o \in Range(tmudata)' \/ Unswept(o)'
    <3>1. CASE o \in F
      BY <3>1, <1>0, <1>3
    <3>2. CASE o \notin F
      BY <2>1, <3>2, <1>0, <1>3 DEF ColourInv, Swept, Unswept
    <3> QED BY <3>1, <3>2
  <2> QED BY <2>1, <1>0 DEF ColourInv, Swept
<1> QED BY <1>8, <1>10, <1>11, <1>12, <1>13, <1>14, <1>15, <1>17, <1>18, <1>19 DEF IInv, HeapInv, ColourInv

(* Creating a table, a userdata or a thread preserves the invariant.       *)
LEMMA NewStep ==
    ASSUME IInv, NEW s \in Slots, NEW o \in Tables \cup Udatas \cup Threads, New(o, s)
    PROVE  IInv'
<1> DEFINE F == {o}
<1>0. /\ TypeOK /\ mark[o] = "free" /\ mark' = [mark EXCEPT ![o] = white]
      /\ stack' = [stack EXCEPT ![running][s] = o]
      /\ env' = IF o \in Udatas THEN [env EXCEPT ![o] = Globals] ELSE env
      /\ UNCHANGED <<Fixed, gray, grayagain, weak, fields, closed, running, resumed>>
      /\ UNCHANGED <<doomed, white, upval, open>>
      /\ o \in Objects /\ o \in Values /\ F \in SUBSET Objects
  BY KindsDiffer DEF IInv, New, Hold, Fixed, Objects, Values
<1>1. /\ \A x \in Objects : mark'[x] = IF x \in F THEN white ELSE mark[x]
      /\ mark' \in [Objects -> Whites \cup {"free", "gray", "black"}]
  BY <1>0 DEF TypeOK
<1>3. /\ env' \in [Udatas \cup Closures -> Tables \cup {Nil}]
      /\ \A x \in Udatas \cup Closures : env'[x] = env[x] \/ (x \in F /\ env'[x] = Globals)
  BY <1>0, RootAssumption DEF TypeOK
<1>4. Closures \cap F = {}
  BY KindsDiffer
<1>5. /\ upval' \in [Closures -> UpVals \cup {Nil}] /\ open' \in [UpVals -> (Threads \X Slots) \cup {<<>>}]
      /\ doomed' \subseteq Objects
  BY <1>0 DEF TypeOK
<1>6. \A x \in F : mark[x] = "free"
  BY <1>0
<1>7. Fresh(F, s, o)
  BY <1>0, <1>1, <1>3, <1>4, <1>5, <1>6 DEF Fresh
<1> HIDE DEF F
<1> QED BY <1>0, <1>7, FreshStep

(* luaS_newlstr preserves the invariant, a dead string brought back        *)
(* included.                                                               *)
LEMMA InternStep ==
    ASSUME IInv, NEW s \in Slots, NEW o \in Strings, Intern(o, s)
    PROVE  IInv'
<1> DEFINE F == {o} \cap {x \in Objects : mark[x] \in {"free", OtherWhite}}
<1>0. /\ TypeOK /\ mark' = [mark EXCEPT ![o] = IF @ \in {"free", OtherWhite} THEN white ELSE @]
      /\ stack' = [stack EXCEPT ![running][s] = o]
      /\ UNCHANGED <<Fixed, gray, grayagain, weak, fields, closed, running, resumed>>
      /\ UNCHANGED <<white, env, upval, open>> /\ doomed' = doomed \ {o}
      /\ o \in Objects /\ o \in Values /\ F \in SUBSET Objects
  BY KindsDiffer DEF IInv, Intern, Hold, Fixed, Objects, Values
<1>1. /\ \A x \in Objects : mark'[x] = IF x \in F THEN white ELSE mark[x]
      /\ mark' \in [Objects -> Whites \cup {"free", "gray", "black"}]
  BY <1>0 DEF TypeOK
<1>2. o \in F \/ Live(o)
  BY <1>0 DEF Live, IsDead
<1>3. Closures \cap F = {}
  BY KindsDiffer
<1>4. /\ env' \in [Udatas \cup Closures -> Tables \cup {Nil}]
      /\ upval' \in [Closures -> UpVals \cup {Nil}] /\ open' \in [UpVals -> (Threads \X Slots) \cup {<<>>}]
      /\ doomed' \subseteq Objects
  BY <1>0 DEF TypeOK
<1>5. \A x \in F : mark[x] = "free" \/ (mark[x] = OtherWhite /\ x \in Strings)
  OBVIOUS
<1>6. Fresh(F, s, o)
  BY <1>0, <1>1, <1>2, <1>3, <1>4, <1>5 DEF Fresh
<1> HIDE DEF F
<1> QED BY <1>0, <1>6, FreshStep

(* Creating a closure preserves the invariant, a dead upvalue of its       *)
(* variable brought back included.                                         *)
LEMMA NewClosureStep ==
    ASSUME IInv, NEW s \in Slots, NEW r \in Slots, NEW c \in Closures, NewClosure(c, s, r)
    PROVE  IInv'
<1> DEFINE here == {v \in UpVals : open[v] = <<running, r>>}
           chosen == CHOOSE w \in UpVals : IF here # {} THEN w \in here ELSE mark[w] = "free"
<1>a. chosen \in UpVals /\ (open[chosen] = <<running, r>> \/ (open[chosen] # <<running, r>> /\ mark[chosen] = "free"))
  <2>1. \E w \in UpVals : IF here # {} THEN w \in here ELSE mark[w] = "free"
    BY DEF NewClosure
  <2>2. chosen \in UpVals /\ IF here # {} THEN chosen \in here ELSE mark[chosen] = "free"
    BY <2>1
  <2> QED BY <2>2
<1>1. PICK v \in UpVals : v = chosen /\ (open[v] = <<running, r>> \/ (open[v] # <<running, r>> /\ mark[v] = "free"))
  BY <1>a
<1>f. PICK F : F = {x \in {c, v} : mark[x] \in {"free", OtherWhite}}
  OBVIOUS
<1>0. /\ TypeOK /\ HeapInv /\ mark[c] = "free"
      /\ mark' = [mark EXCEPT ![c] = white, ![v] = IF @ \in {"free", OtherWhite} THEN white ELSE @]
      /\ open' = [open EXCEPT ![v] = <<running, r>>]
      /\ upval' = [upval EXCEPT ![c] = v]
      /\ env' = [env EXCEPT ![c] = Globals]
      /\ stack' = [stack EXCEPT ![running][s] = c]
      /\ UNCHANGED <<Fixed, gray, grayagain, weak, fields, closed, running, resumed>>
      /\ UNCHANGED white /\ doomed' = doomed \ {v}
  BY <1>1 DEF IInv, NewClosure, Hold, Fixed
<1> HIDE DEF chosen, here
<1>2. /\ c \in Objects /\ c \in Values /\ v \in Objects /\ c # v /\ running \in Threads
      /\ F \in SUBSET Objects
  BY <1>0, <1>1, <1>f, KindsDiffer DEF Objects, Values, TypeOK
<1>3. /\ \A x \in Objects : mark'[x] = IF x \in F THEN white ELSE mark[x]
      /\ mark' \in [Objects -> Whites \cup {"free", "gray", "black"}]
  BY <1>0, <1>2, <1>f DEF TypeOK
<1>5. c \in F /\ \A x \in F : x = c \/ x = v
  BY <1>0, <1>f
<1>6. \A x \in F : mark[x] = "free" \/ (mark[x] = OtherWhite /\ x \in UpVals /\ open[x] = <<running, r>>)
  BY <1>0, <1>1, <1>f
<1>7. \A x \in F : mark[x] = "free" \/ (mark[x] = OtherWhite /\ x \in UpVals /\ open[x] # <<>> /\ open[x][1] = running)
  BY <1>6
<1>8. /\ env' \in [Udatas \cup Closures -> Tables \cup {Nil}]
      /\ \A x \in Udatas \cup Closures : env'[x] = env[x] \/ (x \in F /\ env'[x] = Globals)
  BY <1>0, <1>5, RootAssumption DEF TypeOK
<1>9. /\ upval' \in [Closures -> UpVals \cup {Nil}] /\ upval'[c] = v
      /\ \A x \in Closures : x # c => upval'[x] = upval[x]
  BY <1>0, <1>1 DEF TypeOK
<1>10. /\ \A x \in Closures : upval'[x] = upval[x] \/ (x \in F /\ \E w \in UpVals : upval'[x] = w /\ (w \in F \/ Live(w)))
       /\ \A x \in Closures \cap F : upval'[x] # Nil
  <2>1. v \in F \/ Live(v)
    BY <1>f DEF Live, IsDead
  <2>2. \A x \in Closures \cap F : x = c
    BY <1>1, <1>5, KindsDiffer
  <2>3. v # Nil
    BY <1>2, KindsDiffer
  <2> QED BY <2>1, <2>2, <2>3, <1>5, <1>9
<1>11. /\ open' \in [UpVals -> (Threads \X Slots) \cup {<<>>}]
       /\ \A x \in UpVals : open'[x] = open[x] \/ (x \in F /\ mark[x] = "free" /\ \E n \in Slots : open'[x] = <<running, n>>)
  <2>1. v \in F \/ open[v] = <<running, r>>
    BY <1>1, <1>f
  <2>2. \A x \in UpVals : IF x = v THEN open'[x] = <<running, r>> ELSE open'[x] = open[x]
    BY <1>0, <1>1 DEF TypeOK
  <2> QED BY <1>0, <1>1, <1>2, <2>1, <2>2 DEF TypeOK
<1>12. doomed' \subseteq Objects
  BY <1>0 DEF TypeOK
<1>13. \A x \in F : \/ mark[x] = "free"
                    \/ mark[x] = OtherWhite /\ x \in Strings
                    \/ mark[x] = OtherWhite /\ x \in UpVals /\ open[x] # <<>> /\ open[x][1] = running
  BY <1>7
<1>14. Fresh(F, s, c)
  <2>1. /\ stack' = [stack EXCEPT ![running][s] = c] /\ c \in F
        /\ UNCHANGED <<Fixed, gray, grayagain, weak, fields, closed, running, resumed>>
    BY <1>0, <1>5
  <2> QED BY <2>1, <1>3, <1>8, <1>9, <1>10, <1>11, <1>12, <1>13 DEF Fresh
<1> QED BY <1>2, <1>14, FreshStep

-----------------------------------------------------------------------------
(* The program writes to the heap. *)

(* The colours a write barrier may leave: it marks, or it makes what was   *)
(* black gray or white.                                                    *)
Repainted(T) ==
    /\ T \in Markings
    /\ \A o \in Objects : T.mark[o] # mark[o] =>
           /\ Live(o) /\ T.mark[o] \in {white} \cup Shades
           /\ T.mark[o] = "black" => ~StaysGray(o) /\ ~IsOpen(o)
           /\ o \in Udatas => T.mark[o] # "gray"
           /\ gcstate # "propagate" => T.mark[o] = white \/ mark[o] # white
           /\ gcstate = "propagate" =>
                 /\ T.mark[o] \in Shades
                 /\ T.mark[o] = "gray" => o \in Strings \cup T.gray \cup T.grayagain \cup T.weak \/ IsOpen(o)
                 /\ T.mark[o] = "black" => \A x \in Children(o) : T.mark[x] \notin Whites
    /\ gray \subseteq T.gray /\ grayagain \subseteq T.grayagain /\ weak \subseteq T.weak
    /\ \A o \in T.gray \cup T.grayagain \cup T.weak :
           Live(o) /\ (gcstate = "propagate" => T.mark[o] \in Shades)

(* What is written lives, and is written to what is not free. *)
Written ==
    /\ fields' \in [Tables -> SUBSET ((Values \cup {Num}) \X Values)]
    /\ env' \in [Udatas \cup Closures -> Tables \cup {Nil}]
    /\ closed' \in [UpVals -> Values \cup {Nil}]
    /\ stack' \in [Threads -> [Slots -> Values \cup {Nil}]]
    /\ \A t \in Tables : \A e \in fields'[t] :
           e \in fields[t] \/ (mark[t] # "free" /\ Kept(e[1]) /\ Kept(e[2]))
    /\ \A o \in Udatas \cup Closures : env'[o] = env[o] \/ (mark[o] # "free" /\ Kept(env'[o]))
    /\ \A v \in UpVals : closed'[v] = closed[v] \/ (open[v] = <<>> /\ mark[v] # "free" /\ Kept(closed'[v]))
    /\ \A th \in Threads : \A s \in Slots :
           stack'[th][s] = stack[th][s] \/ (mark[th] # "free" /\ Kept(stack'[th][s]))

(* A write with its barrier preserves the invariant.                       *)
LEMMA WriteStep ==
    ASSUME IInv, NEW T, Adopt(T), Repainted(T), Written,
           UNCHANGED <<Fixed, doomed, upval, open, running, resumed>>,
           gcstate = "propagate" => \A o \in Objects : T.mark[o] = "black" =>
               \A x \in Children(o)' : x \in Children(o) \/ T.mark[x] \notin Whites
    PROVE  IInv'
<1>0. /\ TypeOK /\ HeapInv /\ ColourInv
      /\ Sound /\ Roots /\ FreeEmpty /\ Opened /\ HasUpval /\ Chain
      /\ UNCHANGED <<world, gcstate, white, tmudata, finalized, toSweep, calls, upval, open, running, resumed, doomed>>
  BY DEF IInv, HeapInv, Fixed
<1>1. /\ T \in Markings
      /\ mark' = T.mark /\ gray' = T.gray /\ grayagain' = T.grayagain /\ weak' = T.weak
      /\ \A o \in Objects : T.mark[o] # mark[o] => Live(o) /\ T.mark[o] \in {white} \cup Shades
      /\ \A o \in T.gray \cup T.grayagain \cup T.weak : Live(o)
  BY DEF Repainted, Adopt
<1>2. /\ \A o \in Objects : (Live(o)' <=> Live(o)) /\ (mark'[o] = "free" <=> mark[o] = "free")
      /\ Allocated' = Allocated
      /\ mark' \in [Objects -> Whites \cup {"free", "gray", "black"}]
      /\ gray' \subseteq Tables \cup Closures \cup Threads
      /\ grayagain' \subseteq Tables \cup Threads /\ weak' \subseteq Tables
      /\ gray' \cup grayagain' \cup weak' \subseteq Allocated'
      /\ \A o \in gray' \cup grayagain' \cup weak' : Live(o)'
  BY <1>0, <1>1, Recoloured
<1>3. /\ fields' \in [Tables -> SUBSET ((Values \cup {Num}) \X Values)]
      /\ env' \in [Udatas \cup Closures -> Tables \cup {Nil}]
      /\ closed' \in [UpVals -> Values \cup {Nil}]
      /\ stack' \in [Threads -> [Slots -> Values \cup {Nil}]]
  BY DEF Written
<1>4. TypeOK'
  BY <1>0, <1>2, <1>3 DEF TypeOK
<1>5. /\ Tables \subseteq Objects /\ Udatas \cup Closures \subseteq Objects /\ UpVals \subseteq Objects
      /\ Closures \subseteq Objects /\ Threads \subseteq Objects /\ Strings \subseteq Objects
      /\ running \in Threads /\ Main \in Threads /\ Globals \in Tables
  BY <1>0, RootAssumption DEF Objects, TypeOK
<1>6. \A y \in Objects \cup {Nil, Num} : Kept(y) => Kept(y)'
  BY <1>2 DEF Kept
<1>7. Sound'
  <2>1. ASSUME NEW t \in Tables, NEW e \in fields'[t], e \notin fields[t] PROVE Kept(e[1])' /\ Kept(e[2])'
    <3>1. Kept(e[1]) /\ Kept(e[2])
      BY <2>1 DEF Written
    <3>2. e[1] \in Objects \cup {Nil, Num} /\ e[2] \in Objects \cup {Nil, Num}
      BY <2>1, <1>3 DEF Values
    <3> QED BY <3>1, <3>2, <1>6
  <2>2. ASSUME NEW o \in Udatas \cup Closures, env'[o] # env[o] PROVE Kept(env[o])'
    <3>1. Kept(env'[o]) /\ env'[o] \in Objects \cup {Nil, Num}
      BY <2>2, <1>3, <1>5 DEF Written
    <3>2. \A y : y = env'[o] => Kept(y)'
      BY <3>1, <1>6
    <3> QED BY <3>2 DEF Kept, Live, IsDead
  <2>3. ASSUME NEW v \in UpVals PROVE UpValue(v)' = UpValue(v) \/ Kept(UpValue(v))'
    <3>1. CASE open[v] = <<>>
      <4>1. UpValue(v) = closed[v] /\ UpValue(v)' = closed'[v]
        BY <3>1, <1>0 DEF UpValue
      <4>2. closed'[v] = closed[v] \/ (Kept(closed'[v]) /\ closed'[v] \in Objects \cup {Nil, Num})
        BY <1>3 DEF Written, Values
      <4>3. closed'[v] = closed[v] \/ \A y : y = closed'[v] => Kept(y)'
        BY <4>2, <1>6
      <4> QED BY <4>1, <4>3 DEF Kept, Live, IsDead
    <3>2. CASE open[v] # <<>>
      <4>1. PICK th \in Threads, s \in Slots : open[v] = <<th, s>>
        BY <3>2, <1>0 DEF TypeOK
      <4>2. UpValue(v) = stack[th][s] /\ UpValue(v)' = stack'[th][s]
        BY <3>2, <4>1, <1>0 DEF UpValue
      <4>3. stack'[th][s] = stack[th][s] \/ (Kept(stack'[th][s]) /\ stack'[th][s] \in Objects \cup {Nil, Num})
        BY <1>3 DEF Written, Values
      <4>4. stack'[th][s] = stack[th][s] \/ \A y : y = stack'[th][s] => Kept(y)'
        BY <4>3, <1>6
      <4> QED BY <4>2, <4>4 DEF Kept, Live, IsDead
    <3> QED BY <3>1, <3>2
  <2>4. ASSUME NEW th \in Threads, NEW s \in Slots, stack'[th][s] # stack[th][s] PROVE Kept(stack[th][s])'
    <3>1. Kept(stack'[th][s]) /\ stack'[th][s] \in Objects \cup {Nil, Num}
      BY <2>4, <1>3 DEF Written, Values
    <3>2. \A y : y = stack'[th][s] => Kept(y)'
      BY <3>1, <1>6
    <3> QED BY <3>2 DEF Kept, Live, IsDead
  <2>5. \A o \in Objects : Live(o)' <=> Live(o)
    BY <1>2
  <2> QED BY <1>0, <1>5, <2>1, <2>2, <2>3, <2>4, <2>5, SoundAgain
<1>8. Roots'
  <2>1. \A o \in Range(tmudata) \cup {Main, Globals, running} : o \in Objects /\ Live(o)
    BY <1>0, <1>5 DEF TypeOK, Range, Roots
  <2>2. \A o \in Range(tmudata) \cup {Main, Globals, running} : Live(o)'
    BY <2>1, <1>2
  <2>3. \A th \in Threads : resumed[th] # Nil => Live(th)'
    BY <1>0, <1>2, <1>5 DEF Roots
  <2>4. Range(tmudata)' = Range(tmudata) /\ running' = running /\ resumed' = resumed
    BY <1>0
  <2> QED BY <2>2, <2>3, <2>4, <1>2 DEF Roots, Live, IsDead
<1>9. FreeEmpty'
  <2> SUFFICES ASSUME NEW o \in Objects, mark'[o] = "free"
        PROVE  /\ o \in Tables => fields'[o] = {}
               /\ o \in Udatas \cup Closures => env'[o] = Nil
               /\ o \in Closures => upval'[o] = Nil
               /\ o \in UpVals => open'[o] = <<>> /\ closed'[o] = Nil
               /\ o \in Threads => resumed'[o] = Nil /\ \A r \in Slots : stack'[o][r] = Nil
    BY DEF FreeEmpty
  <2>1. mark[o] = "free"
    BY <1>2
  <2>2. o \in Tables => fields'[o] = {}
    <3>1. o \in Tables => \A e \in fields'[o] : e \in fields[o]
      BY <2>1 DEF Written
    <3> QED BY <3>1, <2>1, <1>0 DEF FreeEmpty
  <2>3. /\ o \in Udatas \cup Closures => env'[o] = env[o]
        /\ o \in UpVals => closed'[o] = closed[o]
        /\ o \in Threads => \A r \in Slots : stack'[o][r] = stack[o][r]
    BY <2>1 DEF Written
  <2> QED BY <2>1, <2>2, <2>3, <1>0 DEF FreeEmpty
<1>10. Opened' /\ HasUpval' /\ Chain'
  <2>1. \A v \in UpVals : open[v] # <<>> => open[v][1] \in Objects
    BY <1>0, <1>5 DEF TypeOK
  <2>2. \A v \in UpVals : open[v] # <<>> => closed'[v] = closed[v]
    BY DEF Written
  <2>3. Opened'
    BY <2>1, <2>2, <1>0, <1>2 DEF Opened
  <2> QED BY <2>3, <1>0, <1>2, <1>5 DEF HasUpval, Chain
<1>11. \A o \in Objects : StaysGray(o)' = StaysGray(o) /\ IsOpen(o)' = IsOpen(o)
  BY <1>0 DEF StaysGray, IsWeak, mode, IsOpen
<1>12. Coloured'
  <2>1. \A o \in Objects : T.mark[o] # mark[o] => /\ T.mark[o] = "black" => ~StaysGray(o) /\ ~IsOpen(o)
                                                  /\ o \in Udatas => T.mark[o] # "gray"
    BY DEF Repainted
  <2> QED BY <2>1, <1>0, <1>1, <1>11 DEF ColourInv, Coloured
<1>13. TriColour'
  <2> SUFFICES ASSUME gcstate = "propagate" PROVE TriColour'
    BY <1>0 DEF TriColour
  <2>1. \A o \in Objects : T.mark[o] # mark[o] =>
            /\ T.mark[o] \in Shades
            /\ T.mark[o] = "gray" => o \in Strings \cup T.gray \cup T.grayagain \cup T.weak \/ IsOpen(o)
            /\ T.mark[o] = "black" => \A x \in Children(o) : T.mark[x] \notin Whites
    BY DEF Repainted
  <2>2. gray \subseteq T.gray /\ grayagain \subseteq T.grayagain /\ weak \subseteq T.weak
        /\ \A o \in T.gray \cup T.grayagain \cup T.weak : T.mark[o] \in Shades
    BY DEF Repainted
  <2>3. "gray" \notin Whites /\ "black" \notin Whites /\ OtherWhite' = OtherWhite /\ OtherWhite \notin Shades
    BY <1>0, TwoWhites DEF OtherWhite, Shades
  <2>4. \A o \in Objects : mark'[o] # OtherWhite'
    BY <1>0, <1>1, <2>1, <2>3 DEF ColourInv, TriColour
  <2>5. \A o \in Objects : mark'[o] = "gray" => o \in Strings \cup gray' \cup grayagain' \cup weak' \/ IsOpen(o)'
    BY <1>0, <1>1, <1>11, <2>1, <2>2 DEF ColourInv, TriColour
  <2>6. ASSUME NEW o \in Objects, mark'[o] = "black", o \notin Range(tmudata)', NEW x \in Children(o)'
        PROVE  mark'[x] \notin Whites
    <3>1. T.mark[o] = "black" /\ o \notin Range(tmudata)
      BY <2>6, <1>0, <1>1
    <3>2. ASSUME x \in Children(o) PROVE T.mark[x] \notin Whites
      <4>1. x \in Objects
        BY <3>2, <1>0, ChildrenType
      <4>2. CASE mark[o] = "black"
        <5>1. mark[x] \notin Whites
          BY <3>1, <3>2, <4>2, <1>0 DEF ColourInv, TriColour
        <5> QED BY <5>1, <4>1, <2>1, <2>3 DEF Shades
      <4> QED BY <3>1, <3>2, <4>2, <2>1
    <3> QED BY <2>6, <3>1, <3>2, <1>1
  <2>7. mark'[Main] \notin Whites /\ mark'[Globals] \notin Whites
    <3>1. mark[Main] \notin Whites /\ mark[Globals] \notin Whites
      BY <1>0 DEF ColourInv, TriColour
    <3> QED BY <3>1, <1>1, <1>5, <2>1, <2>3 DEF Shades
  <2> QED BY <2>2, <2>4, <2>5, <2>6, <2>7, <1>1 DEF TriColour
<1>14. Swept'
  <2>1. ASSUME gcstate # "propagate", NEW o \in Objects
        PROVE  mark'[o] \in {"free", white'} \/ o \in Range(tmudata)' \/ Unswept(o)'
    <3>1. mark[o] \in {"free", white} \/ o \in Range(tmudata) \/ Unswept(o)
      BY <2>1, <1>0 DEF ColourInv, Swept
    <3>2. T.mark[o] # mark[o] => T.mark[o] = white \/ (mark[o] # white /\ mark[o] # "free")
      BY <2>1 DEF Repainted, Live
    <3>3. Unswept(o)' = Unswept(o) /\ Range(tmudata)' = Range(tmudata)
      BY <1>0 DEF Unswept
    <3> QED BY <3>1, <3>2, <3>3, <1>0, <1>1
  <2> QED BY <2>1, <1>0 DEF ColourInv, Swept
<1> QED BY <1>4, <1>7, <1>8, <1>9, <1>10, <1>12, <1>13, <1>14 DEF IInv, HeapInv, ColourInv

(* What an invariant state says of its own colours, as a marking. *)
LEMMA MarkingType ==
    ASSUME IInv
    PROVE  /\ Marking \in Markings
           /\ Marking.mark = mark /\ Marking.gray = gray /\ Marking.grayagain = grayagain /\ Marking.weak = weak
           /\ Repainted(Marking)
<1>0. /\ mark \in [Objects -> Whites \cup Shades \cup {"free"}]
      /\ gray \in SUBSET (Tables \cup Closures \cup Threads) /\ grayagain \in SUBSET (Tables \cup Threads)
      /\ weak \in SUBSET Tables
  BY DEF IInv, TypeOK, Shades
<1>1. /\ Marking \in Markings
      /\ Marking.mark = mark /\ Marking.gray = gray /\ Marking.grayagain = grayagain /\ Marking.weak = weak
  BY <1>0 DEF Marking, Markings
<1>2. \A o \in gray \cup grayagain \cup weak : Live(o) /\ (gcstate = "propagate" => mark[o] \in Shades)
  BY DEF IInv, HeapInv, Roots, ColourInv, TriColour
<1> QED BY <1>1, <1>2 DEF Repainted

(* The barrier forward: what a black object is to refer to is marked, or   *)
(* the object made white.                                                  *)
LEMMA BarrierForwardEffect ==
    ASSUME IInv, NEW o \in Objects, NEW x \in Objects, Live(x), NEW T, T = BarrierForward(Marking, o, x)
    PROVE  /\ Repainted(T)
           /\ gcstate = "propagate" /\ T.mark[o] = "black" => T.mark[x] \notin Whites
<1> DEFINE S == Marking
           X == {x}
<1>0. /\ TypeOK /\ ColourInv /\ S \in Markings /\ Repainted(S)
      /\ S.mark = mark /\ S.gray = gray /\ S.grayagain = grayagain /\ S.weak = weak
  BY MarkingType DEF IInv
<1>1. CASE mark[x] \in Whites /\ mark[o] = "black" /\ gcstate = "propagate"
  <2>0. T = Marked(S, X)
    BY <1>0, <1>1 DEF BarrierForward
  <2>1. TypeOK /\ S \in Markings /\ X \in SUBSET Objects /\ T = Marked(S, X)
    BY <1>0, <2>0
  <2> HIDE DEF S, X
  <2>2. /\ T \in Markings /\ T.grayagain = S.grayagain /\ T.weak = S.weak /\ S.gray \subseteq T.gray
        /\ \A y \in Objects : T.mark[y] # S.mark[y] =>
              /\ S.mark[y] \in Whites /\ Turned(S, T, y)
              /\ T.mark[y] = "gray" => y \in Strings \cup T.gray \/ IsOpen(y)
              /\ y \in Tables \cup Closures \cup Threads => T.mark[y] = "gray" /\ y \in T.gray
              /\ y \in Udatas \cup UpVals => \A z \in Children(y) : T.mark[z] \notin Whites
        /\ \A y \in X : T.mark[y] \notin Whites
        /\ \A y \in T.gray \ S.gray : T.mark[y] # S.mark[y]
    BY <2>1, MarkedEffect
  <2>3. /\ \A y \in Objects : mark[y] # OtherWhite
        /\ \A y \in gray \cup grayagain \cup weak : mark[y] \in Shades
    BY <1>0, <1>1 DEF ColourInv, TriColour
  <2>4. /\ "gray" \notin Whites /\ "black" \notin Whites /\ Whites = {white, OtherWhite}
        /\ \A y \in Objects : Live(y) <=> mark[y] = white \/ mark[y] \in Shades
    BY <1>0, TwoWhites
  <2>5. ASSUME NEW y \in Objects, T.mark[y] # mark[y]
        PROVE  /\ Live(y) /\ T.mark[y] \in Shades
               /\ T.mark[y] = "black" => ~StaysGray(y) /\ ~IsOpen(y)
               /\ y \in Udatas => T.mark[y] # "gray"
               /\ T.mark[y] = "gray" => y \in Strings \cup T.gray \cup T.grayagain \cup T.weak \/ IsOpen(y)
               /\ T.mark[y] = "black" => \A z \in Children(y) : T.mark[z] \notin Whites
    <3>1. mark[y] \in Whites /\ Turned(S, T, y)
      BY <2>5, <2>2, <1>0
    <3>2. T.mark[y] = "black" => y \in Udatas \cup UpVals
      BY <2>5, <3>1, <2>2, <1>0 DEF Turned, Objects
    <3> QED BY <2>5, <3>1, <3>2, <2>2, <2>3, <2>4, <1>0 DEF Turned
  <2>6. ASSUME NEW y \in T.gray \cup T.grayagain \cup T.weak PROVE Live(y) /\ T.mark[y] \in Shades
    <3>1. y \in Objects
      BY <2>2 DEF Markings, Objects
    <3>2. CASE y \in T.gray \ S.gray
      BY <3>1, <3>2, <2>2, <2>5, <1>0
    <3>3. CASE y \in gray \cup grayagain \cup weak
      <4>1. Live(y) /\ mark[y] \in Shades
        BY <3>1, <3>3, <2>3, <2>4
      <4> QED BY <3>1, <4>1, <2>5
    <3> QED BY <3>2, <3>3, <2>2, <1>0
  <2>7. Repainted(T)
    BY <1>0, <1>1, <2>2, <2>5, <2>6 DEF Repainted
  <2>8. T.mark[x] \notin Whites
    BY <2>2 DEF X
  <2> QED BY <2>7, <2>8
<1>2. CASE mark[x] \in Whites /\ mark[o] = "black" /\ gcstate # "propagate"
  <2>1. T = [S EXCEPT !.mark[o] = white]
    BY <1>0, <1>2 DEF BarrierForward
  <2>2. /\ T.mark = [mark EXCEPT ![o] = white]
        /\ T.gray = gray /\ T.grayagain = grayagain /\ T.weak = weak
        /\ T \in Markings
    <3>1. [mark EXCEPT ![o] = white] \in [Objects -> Whites \cup Shades \cup {"free"}]
      BY <1>0 DEF TypeOK, Shades
    <3> QED BY <1>0, <2>1, <3>1 DEF Marking, Markings
  <2>3. \A y \in Objects : T.mark[y] # mark[y] => y = o /\ T.mark[y] = white
    BY <1>0, <2>2 DEF TypeOK
  <2>4. Live(o) /\ white # "gray" /\ white # "black"
    BY <1>0, <1>2, TwoWhites DEF Shades
  <2> QED BY <1>0, <1>2, <2>2, <2>3, <2>4 DEF Repainted
<1>3. CASE ~(mark[x] \in Whites /\ mark[o] = "black")
  <2>1. T = S
    BY <1>0, <1>3 DEF BarrierForward
  <2> QED BY <1>0, <1>3, <2>1
<1> QED BY <1>1, <1>2, <1>3

(* The barrier back: a black table that is to refer to something white is  *)
(* to be traversed again.                                                  *)
LEMMA BarrierBackEffect ==
    ASSUME IInv, NEW t \in Tables, NEW k, NEW x, NEW T, T = BarrierBack(Marking, t, k, x)
    PROVE  /\ Repainted(T)
           /\ \A o \in Objects : T.mark[o] = "black" => mark[o] = "black"
           /\ T.mark[t] = "black" => \A y \in {k, x} \cap Objects : T.mark[y] \notin Whites
<1> DEFINE S == Marking
<1>0. /\ TypeOK /\ ColourInv /\ S \in Markings /\ Repainted(S) /\ t \in Objects /\ t \notin Udatas
      /\ S.mark = mark /\ S.gray = gray /\ S.grayagain = grayagain /\ S.weak = weak
  BY MarkingType, KindsDiffer DEF IInv, Objects
<1>1. CASE mark[t] = "black" /\ \E y \in {k, x} \cap Objects : mark[y] \in Whites
  <2>1. T = [S EXCEPT !.mark[t] = "gray", !.grayagain = @ \cup {t}]
    BY <1>0, <1>1 DEF BarrierBack
  <2>2. /\ T.mark = [mark EXCEPT ![t] = "gray"]
        /\ T.gray = gray /\ T.grayagain = grayagain \cup {t} /\ T.weak = weak
        /\ T \in Markings
    <3>1. [mark EXCEPT ![t] = "gray"] \in [Objects -> Whites \cup Shades \cup {"free"}]
      BY <1>0 DEF TypeOK, Shades
    <3>2. T = [mark |-> [mark EXCEPT ![t] = "gray"], gray |-> gray, grayagain |-> grayagain \cup {t}, weak |-> weak]
      BY <2>1 DEF Marking
    <3>3. gray \in SUBSET (Tables \cup Closures \cup Threads) /\ grayagain \cup {t} \in SUBSET (Tables \cup Threads)
          /\ weak \in SUBSET Tables
      BY <1>0 DEF TypeOK
    <3> QED BY <3>1, <3>2, <3>3 DEF Markings
  <2>3. T.mark[t] = "gray" /\ \A y \in Objects : T.mark[y] # mark[y] => y = t
    BY <1>0, <2>2 DEF TypeOK
  <2>4. Live(t) /\ white # "black"
    BY <1>0, <1>1, TwoWhites DEF Shades
  <2>5. \A o \in gray \cup grayagain \cup weak : Live(o) /\ (gcstate = "propagate" => mark[o] \in Shades)
    BY <1>0 DEF Repainted
  <2>6. \A o \in gray \cup grayagain \cup weak : o \in Objects
    BY <1>0 DEF TypeOK, Objects
  <2> QED BY <1>0, <1>1, <2>2, <2>3, <2>4, <2>5, <2>6 DEF Repainted, Shades
<1>2. CASE ~(mark[t] = "black" /\ \E y \in {k, x} \cap Objects : mark[y] \in Whites)
  <2>1. T = S
    BY <1>0, <1>2 DEF BarrierBack
  <2> QED BY <1>0, <1>2, <2>1
<1> QED BY <1>1, <1>2

(* Removing a field preserves the invariant, without a barrier.            *)
LEMMA ClearFieldStep ==
    ASSUME IInv, NEW t \in Tables, ClearField(t)
    PROVE  IInv'
<1>0. /\ TypeOK /\ fields' = [fields EXCEPT ![t] = {}]
      /\ UNCHANGED <<Fixed, doomed, upval, open, running, resumed>>
      /\ UNCHANGED <<mark, gray, grayagain, weak, env, closed, stack, world>>
  BY DEF IInv, ClearField, Colours, Fixed
<1>1. \A q \in Tables : fields'[q] \subseteq fields[q]
  BY <1>0 DEF TypeOK
<1>2. Written
  <2>1. /\ fields' \in [Tables -> SUBSET ((Values \cup {Num}) \X Values)]
        /\ env' \in [Udatas \cup Closures -> Tables \cup {Nil}]
        /\ closed' \in [UpVals -> Values \cup {Nil}]
        /\ stack' \in [Threads -> [Slots -> Values \cup {Nil}]]
    BY <1>0 DEF TypeOK
  <2> QED BY <2>1, <1>0, <1>1 DEF Written
<1>3. Adopt(Marking) /\ Repainted(Marking)
  BY <1>0, MarkingType DEF Adopt
<1>4. \A o \in Objects : \A x \in Children(o)' : x \in Children(o)
  <2> SUFFICES ASSUME NEW o \in Objects PROVE Children(o)' \subseteq Children(o)
    OBVIOUS
  <2>1. CASE o \in Tables
    <3>1. mode'[o] = mode[o]
      BY <1>0 DEF mode
    <3>2. Children(o) = ({e[1] : e \in IF "k" \in mode[o] THEN {} ELSE fields[o]}
                         \cup {e[2] : e \in IF "v" \in mode[o] THEN {} ELSE fields[o]}) \ {Nil, Num}
      BY <2>1, KindsDiffer DEF Children
    <3>3. Children(o)' = ({e[1] : e \in IF "k" \in mode'[o] THEN {} ELSE fields'[o]}
                          \cup {e[2] : e \in IF "v" \in mode'[o] THEN {} ELSE fields'[o]}) \ {Nil, Num}
      BY <2>1, KindsDiffer DEF Children
    <3> QED BY <2>1, <3>1, <3>2, <3>3, <1>1
  <2>2. CASE o \notin Tables
    <3>1. UpValue(o)' = UpValue(o)
      BY <1>0 DEF UpValue
    <3> QED BY <2>2, <3>1, <1>0 DEF Children
  <2> QED BY <2>1, <2>2
<1> QED BY <1>0, <1>2, <1>3, <1>4, WriteStep

(* What is black after a barrier is no weak table, thread or open upvalue. *)
LEMMA BlackStaysOut ==
    ASSUME IInv, NEW T, Repainted(T), NEW o \in Objects, T.mark[o] = "black"
    PROVE  ~IsWeak(o) /\ o \notin Threads /\ ~IsOpen(o)
BY DEF IInv, ColourInv, Coloured, Repainted, StaysGray

(* Only what is written to refers to something else.                       *)
LEMMA ChildrenUnwritten ==
    ASSUME UNCHANGED <<world, upval>>, NEW o \in Objects \ Threads, ~IsOpen(o),
           o \in Tables => fields'[o] = fields[o],
           o \in Udatas \cup Closures => env'[o] = env[o],
           o \in UpVals => closed'[o] = closed[o] /\ open'[o] = open[o]
    PROVE  Children(o)' = Children(o)
<1>1. o \in UpVals => UpValue(o)' = UpValue(o)
  BY DEF UpValue, IsOpen
<1>2. mode' = mode
  BY DEF mode
<1> QED BY <1>1, <1>2, KindsDiffer DEF Children

(* Setting a field preserves the invariant, with the barrier of            *)
(* luaC_barriert.                                                          *)
LEMMA SetFieldStep ==
    ASSUME IInv, NEW t \in HeldObjects \cap Tables, NEW k \in HeldObjects \cup {Num}, NEW x \in HeldObjects,
           SetField(t, k, x)
    PROVE  IInv'
<1> DEFINE key == IF fields[t] = {} THEN k ELSE Num
           T0 == BarrierBack(Marking, t, key, x)
<1>1. PICK T : T = T0
  OBVIOUS
<1>0. /\ TypeOK /\ Adopt(T) /\ fields' = [fields EXCEPT ![t] = {<<k, x>>}]
      /\ fields[t] = {} \/ \E e \in fields[t] : e[1] = k
      /\ UNCHANGED <<Fixed, doomed, upval, open, running, resumed>>
      /\ UNCHANGED <<env, closed, stack, world, upval, open>>
  BY <1>1 DEF IInv, SetField, Fixed
<1>2. /\ t \in Tables /\ Live(t) /\ x \in Values /\ x \in Objects /\ Live(x) /\ k \in Values \cup {Num} /\ Kept(k)
      /\ x # Nil /\ x # Num
  BY HeldLives, KindsDiffer DEF Kept
<1>3. /\ Repainted(T)
      /\ T.mark[t] = "black" => \A y \in {key, x} \cap Objects : T.mark[y] \notin Whites
  BY <1>1, <1>2, BarrierBackEffect
<1>4. fields'[t] = {<<k, x>>} /\ \A q \in Tables : q # t => fields'[q] = fields[q]
  BY <1>0, <1>2 DEF TypeOK
<1> HIDE DEF T0
<1>5. Written
  <2>1. /\ fields' \in [Tables -> SUBSET ((Values \cup {Num}) \X Values)]
        /\ env' \in [Udatas \cup Closures -> Tables \cup {Nil}]
        /\ closed' \in [UpVals -> Values \cup {Nil}]
        /\ stack' \in [Threads -> [Slots -> Values \cup {Nil}]]
    BY <1>0, <1>2 DEF TypeOK
  <2>2. ASSUME NEW q \in Tables, NEW e \in fields'[q]
        PROVE  e \in fields[q] \/ (mark[q] # "free" /\ Kept(e[1]) /\ Kept(e[2]))
    <3>1. CASE q # t
      BY <3>1, <2>2, <1>4
    <3>2. CASE q = t
      <4>1. e = <<k, x>> /\ mark[t] # "free" /\ Kept(x)
        BY <3>2, <2>2, <1>2, <1>4 DEF Live, Kept
      <4> QED BY <3>2, <4>1, <1>2
    <3> QED BY <3>1, <3>2
  <2> QED BY <1>0, <2>1, <2>2 DEF Written
<1>6. ASSUME NEW o \in Objects, T.mark[o] = "black", NEW y \in Children(o)'
      PROVE  y \in Children(o) \/ T.mark[y] \notin Whites
  <2>1. ~IsWeak(o) /\ o \notin Threads /\ ~IsOpen(o)
    BY <1>6, <1>3, BlackStaysOut
  <2>2. CASE o # t
    <3>1. Children(o)' = Children(o)
      BY <2>1, <2>2, <1>0, <1>4, ChildrenUnwritten
    <3> QED BY <3>1, <1>6
  <2>3. CASE o = t
    <3>1. mode'[t] = {} /\ mode[t] = {}
      BY <2>1, <2>3, <1>0, <1>2 DEF IsWeak, mode
    <3>2. Children(t)' = ({e[1] : e \in IF "k" \in mode'[t] THEN {} ELSE fields'[t]}
                          \cup {e[2] : e \in IF "v" \in mode'[t] THEN {} ELSE fields'[t]}) \ {Nil, Num}
      BY <1>2, KindsDiffer DEF Children
    <3>3. y \in {k, x} /\ y # Num
      <4>1. Children(t)' = ({e[1] : e \in {<<k, x>>}} \cup {e[2] : e \in {<<k, x>>}}) \ {Nil, Num}
        BY <3>1, <3>2, <1>4
      <4> QED BY <4>1, <1>6, <2>3
    <3>4. y \in Objects
      BY <3>3, <1>2 DEF Values
    <3>5. CASE y = x \/ fields[t] = {}
      BY <3>3, <3>4, <3>5, <1>3, <1>6, <2>3
    <3>6. CASE y = k /\ fields[t] # {}
      <4>1. \E e \in fields[t] : e[1] = y
        BY <3>6, <1>0
      <4>2. y \in Children(t)
        BY <4>1, <3>1, <3>3, <1>0, <1>2, ReferencesOf
      <4> QED BY <4>2, <2>3
    <3> QED BY <3>3, <3>5, <3>6
  <2> QED BY <2>2, <2>3
<1> QED BY <1>0, <1>3, <1>5, <1>6, WriteStep

(* lua_setfenv and lua_setmetatable preserve the invariant, with the       *)
(* barrier of luaC_objbarrier.                                             *)
LEMMA SetEnvStep ==
    ASSUME IInv, NEW o \in HeldObjects \cap (Udatas \cup Closures),
           NEW t \in (HeldObjects \cap Tables) \cup {Globals}, SetEnv(o, t)
    PROVE  IInv'
<1>1. PICK T : T = BarrierForward(Marking, o, t)
  OBVIOUS
<1>0. /\ TypeOK /\ Adopt(T) /\ env' = [env EXCEPT ![o] = t]
      /\ UNCHANGED <<Fixed, doomed, upval, open, running, resumed>>
      /\ UNCHANGED <<fields, closed, stack, world, upval, open>>
  BY <1>1 DEF IInv, SetEnv, Fixed
<1>2. /\ o \in Objects /\ o \in Udatas \cup Closures /\ Live(o) /\ t \in Tables /\ t \in Objects /\ Live(t)
  <2>1. Globals \in Tables /\ Live(Globals)
    BY RootAssumption DEF IInv, HeapInv, Roots
  <2> QED BY <2>1, HeldLives DEF Objects
<1>3. /\ Repainted(T)
      /\ gcstate = "propagate" /\ T.mark[o] = "black" => T.mark[t] \notin Whites
  BY <1>1, <1>2, BarrierForwardEffect
<1>4. env'[o] = t /\ \A q \in Udatas \cup Closures : q # o => env'[q] = env[q]
  BY <1>0, <1>2 DEF TypeOK
<1>5. Written
  <2>1. /\ fields' \in [Tables -> SUBSET ((Values \cup {Num}) \X Values)]
        /\ env' \in [Udatas \cup Closures -> Tables \cup {Nil}]
        /\ closed' \in [UpVals -> Values \cup {Nil}]
        /\ stack' \in [Threads -> [Slots -> Values \cup {Nil}]]
    BY <1>0, <1>2 DEF TypeOK
  <2>2. Kept(env'[o]) /\ mark[o] # "free"
    BY <1>2, <1>4 DEF Kept, Live
  <2> QED BY <1>0, <1>4, <2>1, <2>2 DEF Written
<1>6. ASSUME gcstate = "propagate", NEW q \in Objects, T.mark[q] = "black", NEW y \in Children(q)'
      PROVE  y \in Children(q) \/ T.mark[y] \notin Whites
  <2>1. ~IsWeak(q) /\ q \notin Threads /\ ~IsOpen(q)
    BY <1>6, <1>3, BlackStaysOut
  <2>2. CASE q # o
    <3>1. Children(q)' = Children(q)
      BY <2>1, <2>2, <1>0, <1>4, ChildrenUnwritten
    <3> QED BY <3>1, <1>6
  <2>3. CASE q = o
    <3>1. Children(o)' = (IF o \in Udatas THEN {env'[o]} ELSE {env'[o], upval'[o]}) \ {Nil, Num}
      BY <1>2, KindsDiffer DEF Children
    <3>2. y = t \/ (o \in Closures /\ y = upval[o] /\ y # Nil)
      BY <3>1, <1>0, <1>2, <1>4, <1>6, <2>3
    <3>3. CASE y = t
      BY <3>3, <1>3, <1>6, <2>3
    <3>4. CASE o \in Closures /\ y = upval[o] /\ y # Nil
      BY <3>4, <2>3, <1>0, ReferencesOf
    <3> QED BY <3>2, <3>3, <3>4
  <2> QED BY <2>2, <2>3
<1> QED BY <1>0, <1>3, <1>5, <1>6, WriteStep

(* OP_SETUPVAL preserves the invariant, with the barrier of luaC_barrier;  *)
(* an open upvalue needs none.                                             *)
LEMMA SetUpvalStep ==
    ASSUME IInv, NEW c \in HeldObjects \cap Closures, NEW x \in HeldObjects, SetUpval(c, x)
    PROVE  IInv'
<1>1. PICK v : v = upval[c]
  OBVIOUS
<1>2. PICK T : T = BarrierForward(Marking, v, x)
  OBVIOUS
<1>0. /\ TypeOK /\ HeapInv /\ Adopt(T)
      /\ IF open[v] = <<>> THEN closed' = [closed EXCEPT ![v] = x] /\ UNCHANGED stack
         ELSE stack' = [stack EXCEPT ![open[v][1]][open[v][2]] = x] /\ UNCHANGED closed
      /\ UNCHANGED <<Fixed, doomed, upval, open, running, resumed>>
      /\ UNCHANGED <<fields, env, world, upval, open>>
  BY <1>1, <1>2 DEF IInv, SetUpval, Fixed
<1>3. c \in Closures /\ Live(c) /\ x \in Values /\ x \in Objects /\ Live(x) /\ Kept(x)
  BY HeldLives DEF Kept
<1>4. v \in UpVals /\ v \in Objects /\ Live(v)
  <2>1. v # Nil /\ v \in UpVals \cup {Nil} /\ Kept(v)
    BY <1>0, <1>1, <1>3 DEF HeapInv, HasUpval, Sound, Live, TypeOK
  <2> QED BY <2>1, KindsDiffer DEF Kept, Objects
<1>5. /\ Repainted(T)
      /\ gcstate = "propagate" /\ T.mark[v] = "black" => T.mark[x] \notin Whites
  BY <1>2, <1>3, <1>4, BarrierForwardEffect
<1>6. CASE open[v] = <<>>
  <2>1. closed'[v] = x /\ stack' = stack /\ \A w \in UpVals : w # v => closed'[w] = closed[w]
    BY <1>0, <1>4, <1>6 DEF TypeOK
  <2>2. Written
    <3>1. /\ fields' \in [Tables -> SUBSET ((Values \cup {Num}) \X Values)]
          /\ env' \in [Udatas \cup Closures -> Tables \cup {Nil}]
          /\ closed' \in [UpVals -> Values \cup {Nil}]
          /\ stack' \in [Threads -> [Slots -> Values \cup {Nil}]]
      BY <1>0, <1>3, <1>4, <1>6 DEF TypeOK
    <3>2. Kept(closed'[v]) /\ mark[v] # "free"
      BY <1>3, <1>4, <2>1 DEF Live
    <3> QED BY <1>0, <1>6, <2>1, <3>1, <3>2 DEF Written
  <2>3. ASSUME gcstate = "propagate", NEW q \in Objects, T.mark[q] = "black", NEW y \in Children(q)'
        PROVE  y \in Children(q) \/ T.mark[y] \notin Whites
    <3>1. ~IsWeak(q) /\ q \notin Threads /\ ~IsOpen(q)
      BY <2>3, <1>5, BlackStaysOut
    <3>2. CASE q # v
      <4>1. Children(q)' = Children(q)
        BY <3>1, <3>2, <1>0, <2>1, ChildrenUnwritten
      <4> QED BY <4>1, <2>3
    <3>3. CASE q = v
      <4>1. UpValue(v)' = x
        BY <1>0, <1>6, <2>1 DEF UpValue
      <4>2. Children(v)' = {UpValue(v)'} \ {Nil, Num}
        BY <1>4, KindsDiffer DEF Children
      <4>3. y = x
        BY <4>1, <4>2, <2>3, <3>3
      <4> QED BY <4>3, <1>5, <2>3, <3>3
    <3> QED BY <3>2, <3>3
  <2> QED BY <1>0, <1>5, <2>2, <2>3, WriteStep
<1>7. CASE open[v] # <<>>
  <2>0. PICK th \in Threads, s \in Slots : open[v] = <<th, s>>
    BY <1>0, <1>4, <1>7 DEF TypeOK
  <2>1. /\ stack' \in [Threads -> [Slots -> Values \cup {Nil}]] /\ closed' = closed
        /\ \A q \in Threads : \A n \in Slots : stack'[q][n] = stack[q][n] \/ (q = th /\ stack'[q][n] = x)
    <3>1. stack' = [stack EXCEPT ![th][s] = x] /\ closed' = closed
      BY <1>0, <1>7, <2>0
    <3> QED BY <3>1, <1>0, <1>3 DEF TypeOK
  <2>2. Written
    <3>1. /\ fields' \in [Tables -> SUBSET ((Values \cup {Num}) \X Values)]
          /\ env' \in [Udatas \cup Closures -> Tables \cup {Nil}]
          /\ closed' \in [UpVals -> Values \cup {Nil}]
      BY <1>0, <2>1 DEF TypeOK
    <3>2. mark[th] # "free"
      BY <1>0, <1>4, <1>7, <2>0 DEF HeapInv, Opened
    <3> QED BY <1>0, <1>3, <2>1, <3>1, <3>2 DEF Written
  <2>3. ASSUME NEW q \in Objects, T.mark[q] = "black", NEW y \in Children(q)'
        PROVE  y \in Children(q) \/ T.mark[y] \notin Whites
    <3>1. ~IsWeak(q) /\ q \notin Threads /\ ~IsOpen(q)
      BY <2>3, <1>5, BlackStaysOut
    <3>2. Children(q)' = Children(q)
      BY <3>1, <1>0, <2>1, ChildrenUnwritten
    <3> QED BY <3>2, <2>3
  <2> QED BY <1>0, <1>5, <2>2, <2>3, WriteStep
<1> QED BY <1>6, <1>7

-----------------------------------------------------------------------------
(* A finalizer is called. *)

(* What is in a queue is its head or in its tail.                          *)
LEMMA HeadAndTail ==
    ASSUME NEW s \in Seq(Udatas), s # <<>>
    PROVE  /\ Head(s) \in Range(s) /\ Tail(s) \in Seq(Udatas)
           /\ Range(Tail(s)) \subseteq Range(s) /\ Range(s) \subseteq {Head(s)} \cup Range(Tail(s))
<1>0. Range(s) = {s[i] : i \in 1..Len(s)} /\ Head(s) = s[1] /\ Len(s) \in Nat \ {0}
  BY DEF Range
<1>1. /\ Tail(s) \in Seq(Udatas) /\ Len(Tail(s)) = Len(s) - 1
      /\ \A i \in 1..(Len(s) - 1) : Tail(s)[i] = s[i + 1]
  BY <1>0
<1>2. Range(Tail(s)) = {Tail(s)[i] : i \in 1..(Len(s) - 1)}
  <2>1. PICK t \in Seq(Udatas) : t = Tail(s)
    BY <1>1
  <2>2. DOMAIN t = 1..(Len(s) - 1)
    BY <2>1, <1>1
  <2>3. Range(t) = {t[i] : i \in 1..(Len(s) - 1)}
    BY <2>2 DEF Range
  <2> QED BY <2>1, <2>3
<1>3. \A i \in 1..Len(s) : i = 1 \/ (i - 1 \in 1..(Len(s) - 1) /\ s[i] = Tail(s)[i - 1])
  BY <1>0, <1>1
<1>4. Range(Tail(s)) \subseteq Range(s)
  BY <1>0, <1>1, <1>2
<1>5. Head(s) \in Range(s)
  BY <1>0
<1>6. Range(s) \subseteq {Head(s)} \cup Range(Tail(s))
  <2>1. ASSUME NEW i \in 1..Len(s) PROVE s[i] = Head(s) \/ s[i] \in Range(Tail(s))
    <3>1. CASE i = 1
      BY <3>1, <1>0
    <3>2. CASE i # 1
      <4>1. i - 1 \in 1..(Len(s) - 1) /\ s[i] = Tail(s)[i - 1]
        BY <3>2, <1>3
      <4> QED BY <4>1, <1>2
    <3> QED BY <3>1, <3>2
  <2> QED BY <2>1, <1>0
<1> QED BY <1>1, <1>4, <1>5, <1>6

(* GCTM preserves the invariant: the userdata becomes white and is on the  *)
(* stack of its finalizer.                                                 *)
LEMMA CallGCTMStep ==
    ASSUME IInv, CallGCTM
    PROVE  IInv'
<1>1. PICK u : u = Head(tmudata)
  OBVIOUS
<1>0. /\ TypeOK /\ HeapInv /\ ColourInv /\ Sound /\ Roots /\ FreeEmpty /\ Opened /\ HasUpval /\ Chain
      /\ gcstate = "finalize" /\ tmudata # <<>> /\ tmudata' = Tail(tmudata)
      /\ mark' = [mark EXCEPT ![u] = white]
      /\ calls' = [calls EXCEPT ![u] = @ + 1]
      /\ (\E s \in NextSlot : Hold(s, u)) \/ UNCHANGED stack
      /\ UNCHANGED <<world, gcstate, white, gray, grayagain, weak, finalized, toSweep,
                     fields, env, upval, open, closed, running, resumed, doomed>>
  BY <1>1 DEF IInv, HeapInv, CallGCTM
<1>2. /\ u \in Range(tmudata) /\ tmudata' \in Seq(Udatas)
      /\ Range(tmudata)' \subseteq Range(tmudata) /\ Range(tmudata) \subseteq {u} \cup Range(tmudata)'
  BY <1>0, <1>1, HeadAndTail DEF TypeOK
<1>3. Range(tmudata) \subseteq Udatas
  BY <1>0 DEF TypeOK, Range
<1>4. u \in Udatas /\ u \in Objects /\ u \in Values /\ Live(u)
  BY <1>0, <1>2, <1>3, KindsDiffer DEF Roots, Objects, Values
<1>5. /\ Tables \subseteq Objects /\ Udatas \cup Closures \subseteq Objects /\ UpVals \subseteq Objects
      /\ Closures \subseteq Objects /\ Threads \subseteq Objects /\ Strings \subseteq Objects
      /\ running \in Threads /\ Main \in Threads /\ Globals \in Tables
  BY <1>0, RootAssumption DEF Objects, TypeOK
<1>6. /\ mark'[u] = white /\ \A o \in Objects : o # u => mark'[o] = mark[o]
      /\ OtherWhite' = OtherWhite /\ white # OtherWhite /\ white # "free" /\ white # "gray" /\ white # "black"
  BY <1>0, <1>4, TwoWhites DEF TypeOK, OtherWhite
<1>7. \A o \in Objects : (Live(o)' <=> Live(o)) /\ (mark'[o] = "free" <=> mark[o] = "free")
  BY <1>4, <1>6 DEF Live, IsDead
<1>8. /\ stack' \in [Threads -> [Slots -> Values \cup {Nil}]]
      /\ \A th \in Threads : \A r \in Slots :
            stack'[th][r] = stack[th][r] \/ (th = running /\ stack'[th][r] = u)
  <2>1. CASE \E s \in NextSlot : Hold(s, u)
    <3>1. PICK s \in Slots : stack' = [stack EXCEPT ![running][s] = u]
      BY <2>1 DEF NextSlot, Hold
    <3>2. TypeOK /\ u \in Values \cup {Nil}
      BY <1>0, <1>4
    <3> QED BY <3>1, <3>2, HoldTypes
  <2>2. CASE UNCHANGED stack
    BY <2>2, <1>0 DEF TypeOK
  <2> QED BY <2>1, <2>2, <1>0
<1>9. TypeOK'
  <2>1. mark' \in [Objects -> Whites \cup {"free", "gray", "black"}]
    BY <1>0 DEF TypeOK
  <2>2. Allocated' = Allocated
    BY <1>7 DEF Allocated
  <2>3. calls' \in [Udatas -> Nat]
    <3>1. calls \in [Udatas -> Nat] /\ calls[u] + 1 \in Nat
      BY <1>0, <1>4 DEF TypeOK
    <3>2. calls' = [calls EXCEPT ![u] = calls[u] + 1]
      BY <1>0
    <3> QED BY <3>1, <3>2
  <2> QED BY <2>1, <2>2, <2>3, <1>0, <1>2, <1>8 DEF TypeOK
<1>10. Kept(u)'
  BY <1>4, <1>7 DEF Kept
<1>11. Sound'
  <2>1. \A th \in Threads : \A r \in Slots : stack'[th][r] = stack[th][r] \/ Kept(stack[th][r])'
    BY <1>8, <1>10 DEF Kept, Live, IsDead
  <2>2. ASSUME NEW v \in UpVals PROVE UpValue(v)' = UpValue(v) \/ Kept(UpValue(v))'
    <3>1. CASE open[v] = <<>>
      BY <3>1, <1>0 DEF UpValue
    <3>2. CASE open[v] # <<>>
      <4>1. PICK th \in Threads, s \in Slots : open[v] = <<th, s>>
        BY <3>2, <1>0 DEF TypeOK
      <4>0. open' = open
        BY <1>0
      <4>2. UpValue(v) = stack[th][s] /\ UpValue(v)' = stack'[th][s]
        BY <3>2, <4>0, <4>1 DEF UpValue
      <4> QED BY <4>2, <1>8, <1>10 DEF Kept, Live, IsDead
    <3> QED BY <3>1, <3>2
  <2>3. \A o \in Objects : Live(o)' <=> Live(o)
    BY <1>7
  <2> QED BY <1>0, <1>5, <2>1, <2>2, <2>3, SoundAgain
<1>12. Roots'
  <2>1. \A o \in Range(tmudata) \cup gray \cup grayagain \cup weak \cup {Main, Globals, running} : o \in Objects /\ Live(o)
    BY <1>0, <1>3, <1>5 DEF TypeOK, Roots
  <2>2. \A o \in Range(tmudata) \cup gray \cup grayagain \cup weak \cup {Main, Globals, running} : Live(o)'
    BY <2>1, <1>7
  <2>3. \A th \in Threads : resumed[th] # Nil => Live(th)'
    BY <1>0, <1>5, <1>7 DEF Roots
  <2> QED BY <2>2, <2>3, <1>0, <1>2 DEF Roots, Live, IsDead
<1>13. FreeEmpty'
  <2> SUFFICES ASSUME NEW o \in Objects, mark'[o] = "free"
        PROVE  /\ o \in Tables => fields'[o] = {}
               /\ o \in Udatas \cup Closures => env'[o] = Nil
               /\ o \in Closures => upval'[o] = Nil
               /\ o \in UpVals => open'[o] = <<>> /\ closed'[o] = Nil
               /\ o \in Threads => resumed'[o] = Nil /\ \A r \in Slots : stack'[o][r] = Nil
    BY DEF FreeEmpty
  <2>1. mark[o] = "free" /\ o # running
    BY <1>0, <1>7 DEF Roots, Live
  <2> QED BY <2>1, <1>0, <1>8 DEF FreeEmpty
<1>14. Opened' /\ HasUpval' /\ Chain'
  <2>1. \A v \in UpVals : open[v] # <<>> => open[v][1] \in Objects
    BY <1>0, <1>5 DEF TypeOK
  <2>2. Opened'
    BY <2>1, <1>0, <1>7 DEF Opened
  <2> QED BY <2>2, <1>0, <1>5, <1>7 DEF HasUpval, Chain
<1>15. Coloured'
  <2>1. \A o \in Objects : StaysGray(o)' = StaysGray(o) /\ IsOpen(o)' = IsOpen(o)
    BY <1>0 DEF StaysGray, IsWeak, mode, IsOpen
  <2> QED BY <2>1, <1>0, <1>6 DEF ColourInv, Coloured
<1>16. TriColour'
  BY <1>0 DEF TriColour
<1>17. Swept'
  BY <1>0, <1>2, <1>6 DEF ColourInv, Swept, Unswept
<1> QED BY <1>9, <1>11, <1>12, <1>13, <1>14, <1>15, <1>16, <1>17 DEF IInv, HeapInv, ColourInv

-----------------------------------------------------------------------------
(* A block ends. *)

(* Marking values never comes to an upvalue but through a closure.         *)
LEMMA MarkedValues ==
    ASSUME TypeOK, NEW S \in Markings, NEW X \in SUBSET Values, NEW T, T = Marked(S, X)
    PROVE  /\ T \in Markings /\ T.grayagain = S.grayagain /\ T.weak = S.weak /\ S.gray \subseteq T.gray
           /\ \A o \in Objects : T.mark[o] # S.mark[o] =>
                 /\ S.mark[o] \in Whites /\ T.mark[o] \in Shades /\ o \notin UpVals
                 /\ T.mark[o] = "gray" => o \in Strings \cup T.gray
                 /\ T.mark[o] = "black" => ~StaysGray(o) /\ \A x \in Children(o) : T.mark[x] \notin Whites
                 /\ o \in Udatas => T.mark[o] # "gray"
           /\ \A o \in X : T.mark[o] \notin Whites
           /\ \A o \in T.gray \ S.gray : o \in Objects /\ T.mark[o] # S.mark[o]
<1> DEFINE C == Objects \ UpVals
<1>0. X \in SUBSET Objects
  BY DEF Values
<1>1. /\ T \in Markings /\ T.grayagain = S.grayagain /\ T.weak = S.weak /\ S.gray \subseteq T.gray
      /\ \A o \in Objects : T.mark[o] # S.mark[o] =>
            /\ S.mark[o] \in Whites /\ Turned(S, T, o)
            /\ T.mark[o] = "gray" => o \in Strings \cup T.gray \/ IsOpen(o)
            /\ o \in Tables \cup Closures \cup Threads => T.mark[o] = "gray" /\ o \in T.gray
            /\ o \in Udatas \cup UpVals => \A x \in Children(o) : T.mark[x] \notin Whites
      /\ \A o \in X : T.mark[o] \notin Whites
      /\ \A o \in T.gray \ S.gray : T.mark[o] # S.mark[o]
  BY <1>0, MarkedEffect
<1>2. C \in SUBSET Objects /\ \A o \in X : S.mark[o] \in Whites => o \in C
  BY DEF Values
<1>3. \A o \in C \cap (Udatas \cup UpVals) : \A x \in Children(o) : S.mark[x] \in Whites => x \in C
  <2>1. \A o \in Udatas : Children(o) \subseteq Tables
    BY ReferencesOf DEF TypeOK
  <2> QED BY <2>1, KindsDiffer DEF Objects
<1>4. \A o \in Objects \ C : T.mark[o] = S.mark[o]
  <2> HIDE DEF C
  <2> QED BY <1>0, <1>2, <1>3, MarkedEffect
<1>5. \A v \in UpVals : T.mark[v] = S.mark[v]
  BY <1>4 DEF Objects
<1>6. ASSUME NEW o \in Objects, T.mark[o] # S.mark[o]
      PROVE  /\ S.mark[o] \in Whites /\ T.mark[o] \in Shades /\ o \notin UpVals
             /\ T.mark[o] = "gray" => o \in Strings \cup T.gray
             /\ T.mark[o] = "black" => ~StaysGray(o) /\ \A x \in Children(o) : T.mark[x] \notin Whites
             /\ o \in Udatas => T.mark[o] # "gray"
  <2>1. Turned(S, T, o) /\ S.mark[o] \in Whites /\ o \notin UpVals
    BY <1>1, <1>5, <1>6
  <2>2. T.mark[o] = "black" => o \in Udatas
    BY <1>1, <1>6, <2>1 DEF Turned, Objects
  <2>3. T.mark[o] = "gray" => o \in Strings \cup T.gray
    BY <1>1, <1>6, <2>1 DEF IsOpen
  <2> QED BY <1>1, <1>6, <2>1, <2>2, <2>3 DEF Turned, Shades
<1>7. \A o \in T.gray : o \in Objects
  BY <1>1 DEF Markings, Objects
<1> QED BY <1>1, <1>6, <1>7

(* What closing does to the colours: dead upvalues are freed; gray ones    *)
(* turn black, and what they refer to is marked, or white in a sweep.      *)
Closing(dead, linked, S, T) ==
    /\ S = [Marking EXCEPT !.mark = [v \in Objects |->
               IF v \in dead THEN "free"
               ELSE IF v \in linked THEN IF gcstate = "propagate" THEN "black" ELSE white ELSE mark[v]]]
    /\ T = IF gcstate = "propagate" THEN Marked(S, {UpValue(v) : v \in linked} \ {Nil}) ELSE S

After(dead, linked, T) ==
    /\ T \in Markings /\ T.grayagain = grayagain /\ T.weak = weak /\ gray \subseteq T.gray
    /\ \A o \in dead : T.mark[o] = "free"
    /\ \A o \in linked : o \notin dead /\ T.mark[o] = IF gcstate = "propagate" THEN "black" ELSE white
    /\ \A o \in Objects \ (dead \cup linked) : T.mark[o] # mark[o] =>
          /\ gcstate = "propagate" /\ mark[o] = white /\ T.mark[o] \in Shades /\ o \notin UpVals
          /\ T.mark[o] = "gray" => o \in Strings \cup T.gray
          /\ T.mark[o] = "black" => ~StaysGray(o) /\ \A x \in Children(o) : T.mark[x] \notin Whites
          /\ o \in Udatas => T.mark[o] # "gray"
    /\ \A o \in T.gray \ gray : o \in Objects \ (dead \cup linked) /\ T.mark[o] # mark[o]
    /\ gcstate = "propagate" =>
          /\ dead = {}
          /\ \A v \in linked : UpValue(v) = Nil \/ T.mark[UpValue(v)] \notin Whites

(* The colours after closing.                                              *)
LEMMA ClosedColours ==
    ASSUME IInv, NEW dead \in SUBSET UpVals, NEW linked \in SUBSET UpVals, NEW S, NEW T,
           \A v \in dead : mark[v] = OtherWhite /\ open[v] # <<>>,
           \A v \in linked : mark[v] = "gray" /\ open[v] # <<>>,
           Closing(dead, linked, S, T)
    PROVE  After(dead, linked, T)
<1> DEFINE X == {UpValue(v) : v \in linked} \ {Nil}
<1>0. /\ TypeOK /\ ColourInv /\ Marking \in Markings
      /\ Marking.mark = mark /\ Marking.gray = gray /\ Marking.grayagain = grayagain /\ Marking.weak = weak
      /\ UpVals \subseteq Objects
  BY MarkingType DEF IInv, Objects
<1>1. /\ "gray" \notin Whites /\ "black" \notin Whites /\ "free" \notin Whites
      /\ Whites = {white, OtherWhite} /\ white # OtherWhite
  BY <1>0, TwoWhites
<1>2. \A v \in linked : v \notin dead
  BY <1>1
<1>3. /\ S.gray = gray /\ S.grayagain = grayagain /\ S.weak = weak
      /\ \A o \in dead : S.mark[o] = "free"
      /\ \A o \in linked : S.mark[o] = IF gcstate = "propagate" THEN "black" ELSE white
      /\ \A o \in Objects \ (dead \cup linked) : S.mark[o] = mark[o]
      /\ S \in Markings
  <2>1. S = [mark |-> [v \in Objects |->
                   IF v \in dead THEN "free"
                   ELSE IF v \in linked THEN IF gcstate = "propagate" THEN "black" ELSE white ELSE mark[v]],
             gray |-> gray, grayagain |-> grayagain, weak |-> weak]
    BY DEF Marking, Closing
  <2>2. /\ S.gray = gray /\ S.grayagain = grayagain /\ S.weak = weak
        /\ \A o \in dead : S.mark[o] = "free"
        /\ \A o \in linked : S.mark[o] = IF gcstate = "propagate" THEN "black" ELSE white
        /\ \A o \in Objects \ (dead \cup linked) : S.mark[o] = mark[o]
    BY <2>1, <1>0, <1>2
  <2>3. S.mark \in [Objects -> Whites \cup Shades \cup {"free"}]
    BY <2>1, <1>0, <1>1 DEF TypeOK, Shades
  <2>4. gray \in SUBSET (Tables \cup Closures \cup Threads) /\ grayagain \in SUBSET (Tables \cup Threads)
        /\ weak \in SUBSET Tables
    BY <1>0 DEF TypeOK
  <2> QED BY <2>1, <2>2, <2>3, <2>4 DEF Markings
<1>4. CASE gcstate # "propagate"
  <2>1. T = S
    BY <1>4 DEF Closing
  <2> QED BY <2>1, <1>2, <1>3, <1>4 DEF After
<1>5. CASE gcstate = "propagate"
  <2>0. \A o \in Objects : mark[o] # OtherWhite
    BY <1>0, <1>5 DEF ColourInv, TriColour
  <2>1. dead = {}
    BY <2>0, <1>0
  <2>2. \A v \in linked : UpValue(v) \in Values \cup {Nil}
    BY <1>0, UpValueType
  <2>3. TypeOK /\ S \in Markings /\ X \in SUBSET Values /\ T = Marked(S, X)
    BY <1>0, <1>3, <1>5, <2>2 DEF Closing
  <2>4. \A v \in linked : UpValue(v) = Nil \/ UpValue(v) \in X
    OBVIOUS
  <2> HIDE DEF X
  <2>5. /\ T \in Markings /\ T.grayagain = S.grayagain /\ T.weak = S.weak /\ S.gray \subseteq T.gray
        /\ \A o \in Objects : T.mark[o] # S.mark[o] =>
              /\ S.mark[o] \in Whites /\ T.mark[o] \in Shades /\ o \notin UpVals
              /\ T.mark[o] = "gray" => o \in Strings \cup T.gray
              /\ T.mark[o] = "black" => ~StaysGray(o) /\ \A x \in Children(o) : T.mark[x] \notin Whites
              /\ o \in Udatas => T.mark[o] # "gray"
        /\ \A o \in X : T.mark[o] \notin Whites
        /\ \A o \in T.gray \ S.gray : o \in Objects /\ T.mark[o] # S.mark[o]
    BY <2>3, MarkedValues
  <2>6. \A o \in linked : T.mark[o] = "black"
    BY <2>5, <1>0, <1>1, <1>3, <1>5
  <2>7. ASSUME NEW o \in Objects \ (dead \cup linked), T.mark[o] # mark[o]
        PROVE  T.mark[o] # S.mark[o] /\ mark[o] = white
    BY <2>7, <2>0, <2>5, <1>1, <1>3
  <2>8. \A o \in T.gray \ gray : o \in Objects \ (dead \cup linked) /\ T.mark[o] # mark[o]
    <3>1. \A o \in T.gray \ gray : o \in Objects /\ T.mark[o] # S.mark[o] /\ o \notin UpVals
      BY <2>5, <1>3
    <3> QED BY <3>1, <1>3
  <2> QED BY <2>1, <2>4, <2>5, <2>6, <2>7, <2>8, <1>2, <1>3, <1>5 DEF After
<1> QED BY <1>4, <1>5

(* luaF_close preserves the invariant.                                     *)
LEMMA CloseUpvalsStep ==
    ASSUME IInv, NEW level \in Slots, CloseUpvals(level)
    PROVE  IInv'
<1>1. PICK leaving : leaving = {v \in UpVals : open[v] # <<>> /\ open[v][1] = running /\ open[v][2] >= level}
  OBVIOUS
<1>2. PICK dead : dead = {v \in leaving : IsDead(v)}
  OBVIOUS
<1>3. PICK linked : linked = {v \in leaving : mark[v] = "gray"}
  OBVIOUS
<1>4. PICK S, T : /\ Closing(dead, linked, S, T) /\ Adopt(T)
                  /\ open' = [v \in UpVals |-> IF v \in leaving THEN <<>> ELSE open[v]]
                  /\ closed' = [v \in UpVals |-> IF v \in leaving \ dead THEN UpValue(v) ELSE closed[v]]
                  /\ stack' = [stack EXCEPT ![running] = [s \in Slots |-> IF s >= level THEN Nil ELSE Held(s)]]
                  /\ doomed' = doomed \ dead
                  /\ UNCHANGED <<Fixed, fields, env, upval, running, resumed>>
  <2>1. PICK S : S = [Marking EXCEPT !.mark = [v \in Objects |->
               IF v \in dead THEN "free"
               ELSE IF v \in linked THEN IF gcstate = "propagate" THEN "black" ELSE white ELSE mark[v]]]
    OBVIOUS
  <2>2. PICK T : T = IF gcstate = "propagate" THEN Marked(S, {UpValue(v) : v \in linked} \ {Nil}) ELSE S
    OBVIOUS
  <2>3. Closing(dead, linked, S, T)
    BY <2>1, <2>2 DEF Closing
  <2>4. Adopt(T)
    BY <1>1, <1>2, <1>3, <2>1, <2>2 DEF CloseUpvals
  <2> QED BY <1>1, <1>2, <2>3, <2>4 DEF CloseUpvals
<1>0. /\ TypeOK /\ HeapInv /\ ColourInv /\ Sound /\ Roots /\ FreeEmpty /\ Opened /\ HasUpval /\ Chain
      /\ UNCHANGED <<world, gcstate, white, tmudata, finalized, toSweep, calls, fields, env, upval, running, resumed>>
      /\ doomed' \subseteq doomed
  BY <1>4 DEF IInv, HeapInv, Fixed
<1>5. /\ Tables \subseteq Objects /\ Udatas \cup Closures \subseteq Objects /\ UpVals \subseteq Objects
      /\ Closures \subseteq Objects /\ Threads \subseteq Objects /\ Strings \subseteq Objects
      /\ running \in Threads /\ Main \in Threads /\ Globals \in Tables
  BY <1>0, RootAssumption DEF Objects, TypeOK
<1>6. /\ Whites = {white, OtherWhite} /\ white # OtherWhite /\ OtherWhite' = OtherWhite /\ white' = white
      /\ "gray" \notin Whites /\ "black" \notin Whites /\ "free" \notin Whites
      /\ \A o \in Objects : Live(o) <=> mark[o] = white \/ mark[o] \in Shades
  BY <1>0, TwoWhites DEF OtherWhite
<1>7. /\ dead \in SUBSET UpVals /\ linked \in SUBSET UpVals /\ leaving \in SUBSET UpVals
      /\ dead \subseteq leaving /\ linked \subseteq leaving
      /\ \A v \in leaving : open[v] # <<>> /\ open[v][1] = running
      /\ \A v \in leaving : (v \in dead <=> mark[v] = OtherWhite) /\ (v \in linked <=> mark[v] = "gray")
  BY <1>1, <1>2, <1>3 DEF IsDead
<1>8. /\ T \in Markings /\ T.grayagain = grayagain /\ T.weak = weak /\ gray \subseteq T.gray
      /\ \A o \in dead : T.mark[o] = "free"
      /\ \A o \in linked : o \notin dead /\ T.mark[o] = IF gcstate = "propagate" THEN "black" ELSE white
      /\ \A o \in Objects \ (dead \cup linked) : T.mark[o] # mark[o] =>
            /\ gcstate = "propagate" /\ mark[o] = white /\ T.mark[o] \in Shades /\ o \notin UpVals
            /\ T.mark[o] = "gray" => o \in Strings \cup T.gray
            /\ T.mark[o] = "black" => ~StaysGray(o) /\ \A x \in Children(o) : T.mark[x] \notin Whites
            /\ o \in Udatas => T.mark[o] # "gray"
      /\ \A o \in T.gray \ gray : o \in Objects \ (dead \cup linked) /\ T.mark[o] # mark[o]
      /\ gcstate = "propagate" =>
            /\ dead = {}
            /\ \A v \in linked : UpValue(v) = Nil \/ T.mark[UpValue(v)] \notin Whites
  <2>1. \A v \in dead : mark[v] = OtherWhite /\ open[v] # <<>>
    BY <1>7
  <2>2. \A v \in linked : mark[v] = "gray" /\ open[v] # <<>>
    BY <1>7
  <2>3. dead \in SUBSET UpVals /\ linked \in SUBSET UpVals /\ Closing(dead, linked, S, T)
    BY <1>4, <1>7
  <2>4. After(dead, linked, T)
    BY <2>1, <2>2, <2>3, ClosedColours
  <2> QED BY <2>4 DEF After
<1>9. /\ mark' = T.mark /\ gray' = T.gray /\ grayagain' = grayagain /\ weak' = weak
  BY <1>4, <1>8 DEF Adopt
<1>10. \A o \in Objects : /\ mark'[o] = "free" <=> mark[o] = "free" \/ o \in dead
                          /\ Live(o)' <=> Live(o)
  <2> SUFFICES ASSUME NEW o \in Objects
               PROVE  /\ mark'[o] = "free" <=> mark[o] = "free" \/ o \in dead
                      /\ Live(o)' <=> Live(o)
    OBVIOUS
  <2>1. CASE o \in dead
    BY <2>1, <1>6, <1>7, <1>8, <1>9 DEF Live, IsDead
  <2>2. CASE o \in linked
    BY <2>2, <1>6, <1>7, <1>8, <1>9 DEF Live, IsDead
  <2>3. CASE o \in Objects \ (dead \cup linked)
    BY <2>3, <1>6, <1>8, <1>9 DEF Live, IsDead, Shades
  <2> QED BY <2>1, <2>2, <2>3
<1>11. Allocated' = Allocated \ dead
  BY <1>7, <1>5, <1>10 DEF Allocated
<1>12. /\ \A v \in UpVals : open'[v] = IF v \in leaving THEN <<>> ELSE open[v]
       /\ \A v \in UpVals : closed'[v] = IF v \in leaving /\ v \notin dead THEN UpValue(v) ELSE closed[v]
       /\ open' \in [UpVals -> (Threads \X Slots) \cup {<<>>}] /\ closed' \in [UpVals -> Values \cup {Nil}]
  <2>1. \A v \in UpVals : UpValue(v) \in Values \cup {Nil}
    BY <1>0, UpValueType
  <2>2. open \in [UpVals -> (Threads \X Slots) \cup {<<>>}] /\ closed \in [UpVals -> Values \cup {Nil}]
    BY <1>0 DEF TypeOK
  <2> QED BY <2>1, <2>2, <1>4
<1>13. /\ stack' \in [Threads -> [Slots -> Values \cup {Nil}]]
       /\ \A th \in Threads : \A s \in Slots :
             stack'[th][s] = IF th = running /\ s >= level THEN Nil ELSE stack[th][s]
  BY <1>0, <1>4 DEF TypeOK, Held
<1>14. \A o \in gray' \cup grayagain' \cup weak' : o \in Objects /\ Live(o) /\ (gcstate = "propagate" => T.mark[o] \in Shades)
  <2> SUFFICES ASSUME NEW o \in gray' \cup grayagain' \cup weak'
               PROVE  o \in Objects /\ Live(o) /\ (gcstate = "propagate" => T.mark[o] \in Shades)
    OBVIOUS
  <2>1. CASE o \in gray \cup grayagain \cup weak
    <3>1. o \in Objects /\ Live(o) /\ (gcstate = "propagate" => mark[o] \in Shades) /\ o \notin dead
      <4>1. o \in Objects /\ Live(o)
        BY <2>1, <1>0 DEF TypeOK, Objects, Roots
      <4> QED BY <4>1, <2>1, <1>0, <1>7 DEF ColourInv, TriColour, Live, IsDead
    <3>2. o \in linked /\ gcstate = "propagate" => T.mark[o] \in Shades
      BY <1>8 DEF Shades
    <3> QED BY <3>1, <3>2, <1>8
  <2>2. CASE o \in T.gray \ gray
    BY <2>2, <1>6, <1>8
  <2> QED BY <2>1, <2>2, <1>9
<1>15. TypeOK'
  <2>1. mark' \in [Objects -> Whites \cup {"free", "gray", "black"}] /\ gray' \subseteq Tables \cup Closures \cup Threads
    BY <1>8, <1>9 DEF Markings, Shades
  <2>2. gray' \cup grayagain' \cup weak' \subseteq Allocated'
    <3>1. \A o \in gray' \cup grayagain' \cup weak' : o \notin dead
      BY <1>7, <1>14 DEF Live, IsDead
    <3> QED BY <3>1, <1>11, <1>14 DEF Live, Allocated
  <2>3. toSweep' \subseteq Allocated'
    <3>1. \A v \in dead : v \notin toSweep
      BY <1>0, <1>7 DEF Opened
    <3> QED BY <3>1, <1>0, <1>11 DEF TypeOK
  <2> QED BY <2>1, <2>2, <2>3, <1>0, <1>9, <1>12, <1>13 DEF TypeOK
<1>16. \A v \in UpVals \ dead : UpValue(v)' = UpValue(v)
  <2> SUFFICES ASSUME NEW v \in UpVals \ dead PROVE UpValue(v)' = UpValue(v)
    OBVIOUS
  <2>1. CASE v \in leaving
    BY <2>1, <1>12 DEF UpValue
  <2>2. CASE v \notin leaving /\ open[v] = <<>>
    BY <2>2, <1>12 DEF UpValue
  <2>3. CASE v \notin leaving /\ open[v] # <<>>
    <3>1. PICK th \in Threads, s \in Slots : open[v] = <<th, s>>
      BY <2>3, <1>0 DEF TypeOK
    <3>2. ~(th = running /\ s >= level)
      BY <2>3, <3>1, <1>1
    <3>3. stack'[th][s] = stack[th][s]
      BY <3>2, <1>13
    <3>4. UpValue(v) = stack[th][s] /\ UpValue(v)' = stack'[th][s]
      BY <2>3, <3>1, <1>12 DEF UpValue
    <3> QED BY <3>3, <3>4
  <2> QED BY <2>1, <2>2, <2>3
<1>17. Sound'
  <2>1. \A th \in Threads : \A s \in Slots : stack'[th][s] = stack[th][s] \/ Kept(stack[th][s])'
    BY <1>13 DEF Kept
  <2>2. \A v \in UpVals : Live(v)' => UpValue(v)' = UpValue(v)
    BY <1>5, <1>7, <1>10, <1>16 DEF Live, IsDead
  <2>3. \A o \in Objects : Live(o)' <=> Live(o)
    BY <1>10
  <2> QED BY <1>0, <1>5, <2>1, <2>2, <2>3, SoundAgain
<1>18. Roots'
  <2>1. \A o \in Range(tmudata) \cup {Main, Globals, running} : o \in Objects /\ Live(o)
    BY <1>0, <1>5 DEF TypeOK, Range, Roots
  <2>2. \A o \in Range(tmudata) \cup {Main, Globals, running} : Live(o)'
    BY <2>1, <1>10
  <2>3. \A th \in Threads : resumed[th] # Nil => Live(th)'
    BY <1>0, <1>5, <1>10 DEF Roots
  <2>4. \A o \in gray' \cup grayagain' \cup weak' : Live(o)'
    BY <1>10, <1>14
  <2>5. Range(tmudata)' = Range(tmudata) /\ running' = running /\ resumed' = resumed
    BY <1>0
  <2> QED BY <2>2, <2>3, <2>4, <2>5 DEF Roots, Live, IsDead
<1>19. FreeEmpty'
  <2> SUFFICES ASSUME NEW o \in Objects, mark'[o] = "free"
        PROVE  /\ o \in Tables => fields'[o] = {}
               /\ o \in Udatas \cup Closures => env'[o] = Nil
               /\ o \in Closures => upval'[o] = Nil
               /\ o \in UpVals => open'[o] = <<>> /\ closed'[o] = Nil
               /\ o \in Threads => resumed'[o] = Nil /\ \A r \in Slots : stack'[o][r] = Nil
    BY DEF FreeEmpty
  <2>1. CASE o \in dead
    <3>1. o \in UpVals /\ open'[o] = <<>> /\ closed'[o] = Nil
      BY <2>1, <1>0, <1>7, <1>12 DEF Opened
    <3> QED BY <3>1, KindsDiffer
  <2>2. CASE mark[o] = "free"
    <3>1. o \in UpVals => o \notin leaving
      BY <2>2, <1>0, <1>7 DEF FreeEmpty
    <3> QED BY <2>2, <3>1, <1>0, <1>12, <1>13 DEF FreeEmpty
  <2> QED BY <2>1, <2>2, <1>10
<1>20. Opened'
  <2> SUFFICES ASSUME NEW v \in UpVals, open'[v] # <<>>
               PROVE  closed'[v] = Nil /\ v \notin toSweep' /\ mark'[open'[v][1]] # "free"
    BY DEF Opened
  <2>1. v \notin leaving /\ open'[v] = open[v] /\ closed'[v] = closed[v]
    BY <1>12
  <2>2. open[v][1] \in Threads /\ open[v][1] \notin dead
    BY <2>1, <1>0, <1>7, KindsDiffer DEF TypeOK
  <2> QED BY <2>1, <2>2, <1>0, <1>5, <1>10 DEF Opened
<1>21. HasUpval' /\ Chain'
  BY <1>0, <1>5, <1>7, <1>10, KindsDiffer DEF HasUpval, Chain
<1>22. \A o \in Objects : StaysGray(o)' = StaysGray(o) /\ (IsOpen(o)' <=> IsOpen(o) /\ o \notin leaving)
  BY <1>0, <1>7, <1>12 DEF StaysGray, IsWeak, mode, IsOpen
<1>23. Coloured'
  <2> SUFFICES ASSUME NEW o \in Objects
               PROVE  /\ mark'[o] = "black" => ~StaysGray(o) /\ ~(IsOpen(o) /\ o \notin leaving)
                      /\ o \in Udatas => mark'[o] # "gray"
    BY <1>22 DEF Coloured
  <2>1. CASE o \in dead \cup linked
    BY <2>1, <1>6, <1>7, <1>8, <1>9, KindsDiffer DEF StaysGray, IsWeak
  <2>2. CASE o \notin dead \cup linked
    BY <2>2, <1>0, <1>8, <1>9 DEF ColourInv, Coloured, IsOpen
  <2> QED BY <2>1, <2>2
<1>24. TriColour'
  <2> SUFFICES ASSUME gcstate = "propagate" PROVE TriColour'
    BY <1>0 DEF TriColour
  <2>0. dead = {} /\ \A o \in Objects : mark[o] # OtherWhite
    BY <1>0, <1>8 DEF ColourInv, TriColour
  <2>1. \A o \in Objects : T.mark[o] # mark[o] => T.mark[o] \in Shades
    BY <2>0, <1>8 DEF Shades
  <2>2. \A o \in Objects : mark'[o] # OtherWhite'
    BY <2>0, <2>1, <1>6, <1>9 DEF Shades
  <2>3. ASSUME NEW o \in Objects, mark'[o] = "gray"
        PROVE  o \in Strings \cup gray' \cup grayagain' \cup weak' \/ IsOpen(o)'
    <3>1. o \notin linked
      BY <2>3, <1>8, <1>9
    <3>2. CASE T.mark[o] # mark[o]
      BY <2>0, <2>3, <3>1, <3>2, <1>8, <1>9
    <3>3. CASE mark[o] = "gray"
      <4>1. o \in Strings \cup gray \cup grayagain \cup weak \/ IsOpen(o)
        BY <3>3, <1>0 DEF ColourInv, TriColour
      <4>2. o \notin leaving
        BY <3>1, <3>3, <1>7
      <4> QED BY <4>1, <4>2, <1>8, <1>9, <1>22
    <3> QED BY <2>3, <3>2, <3>3, <1>9
  <2>4. ASSUME NEW o \in Objects, mark'[o] = "black", o \notin Range(tmudata)', NEW x \in Children(o)'
        PROVE  mark'[x] \notin Whites
    <3>1. CASE o \in linked
      <4>1. o \in UpVals /\ UpValue(o)' = UpValue(o)
        BY <2>0, <3>1, <1>7, <1>16
      <4>2. Children(o)' = {UpValue(o)'} \ {Nil, Num}
        BY <4>1, KindsDiffer DEF Children
      <4>3. x = UpValue(o) /\ x # Nil
        BY <2>4, <4>1, <4>2
      <4> QED BY <3>1, <4>3, <1>8, <1>9
    <3>2. CASE o \notin linked
      <4>1. o \notin leaving /\ ~StaysGray(o) /\ ~IsOpen(o)
        <5>1. o \in leaving => mark[o] = "black" /\ o \in UpVals
          BY <2>0, <2>4, <3>2, <1>7, <1>8, <1>9
        <5>2. o \notin leaving
          BY <5>1, <1>0, <1>7 DEF ColourInv, Coloured, IsOpen
        <5> QED BY <5>2, <2>4, <1>22, <1>23 DEF Coloured
      <4>2. Children(o)' = Children(o)
        <5>1. o \in UpVals => closed'[o] = closed[o] /\ open'[o] = open[o]
          BY <4>1, <1>12
        <5>2. o \in Objects \ Threads
          BY <4>1 DEF StaysGray
        <5> QED BY <4>1, <5>1, <5>2, <1>0, ChildrenUnwritten
      <4>3. CASE T.mark[o] # mark[o]
        BY <2>0, <2>4, <3>2, <4>2, <4>3, <1>8, <1>9
      <4>4. CASE T.mark[o] = mark[o]
        <5>1. mark[x] \notin Whites /\ x \in Objects
          BY <2>4, <4>2, <4>4, <1>0, <1>9, ChildrenType DEF ColourInv, TriColour
        <5> QED BY <5>1, <2>1, <1>6, <1>9 DEF Shades
      <4> QED BY <4>3, <4>4
    <3> QED BY <3>1, <3>2
  <2>5. \A o \in gray' \cup grayagain' \cup weak' : mark'[o] \in Shades
    BY <1>9, <1>14
  <2>6. mark'[Main] \notin Whites /\ mark'[Globals] \notin Whites
    <3>1. mark[Main] \notin Whites /\ mark[Globals] \notin Whites
      BY <1>0 DEF ColourInv, TriColour
    <3> QED BY <3>1, <2>1, <1>5, <1>6, <1>9 DEF Shades
  <2> QED BY <2>2, <2>3, <2>4, <2>5, <2>6 DEF TriColour
<1>25. Swept'
  <2>1. ASSUME gcstate # "propagate", NEW o \in Objects
        PROVE  mark'[o] \in {"free", white'} \/ o \in Range(tmudata)' \/ Unswept(o)'
    <3>1. CASE o \in leaving
      <4>1. mark[o] # "black"
        BY <3>1, <1>0, <1>5, <1>7 DEF ColourInv, Coloured, IsOpen
      <4>2. mark[o] \in {"free", white, OtherWhite, "gray"}
        BY <4>1, <1>0, <1>6 DEF TypeOK
      <4> QED BY <2>1, <3>1, <4>2, <1>0, <1>7, <1>8, <1>9
    <3>2. CASE o \notin leaving
      <4>1. mark'[o] = mark[o]
        BY <2>1, <3>2, <1>7, <1>8, <1>9
      <4>2. Unswept(o) => Unswept(o)'
        BY <3>2, <1>0, <1>12 DEF Unswept
      <4> QED BY <2>1, <4>1, <4>2, <1>0 DEF ColourInv, Swept
    <3> QED BY <3>1, <3>2
  <2> QED BY <2>1, <1>0 DEF ColourInv, Swept
<1> QED BY <1>15, <1>17, <1>18, <1>19, <1>20, <1>21, <1>23, <1>24, <1>25 DEF IInv, HeapInv, ColourInv

-----------------------------------------------------------------------------
(* The atomic step, stage by stage. *)

(* A marking on the way to the end of the mark phase. *)
Good(S) ==
    /\ S \in Markings
    /\ \A o \in Objects :
           /\ S.mark[o] = "free" <=> mark[o] = "free"
           /\ S.mark[o] # OtherWhite
           /\ S.mark[o] = "black" => ~StaysGray(o) /\ ~IsOpen(o)
           /\ o \in Udatas => S.mark[o] # "gray"
    /\ \A o \in S.gray \cup S.grayagain \cup S.weak : S.mark[o] \in Shades

Shaded(S, o) == S.mark[o] \in Shades

(* What is shaded, but for P, has been traversed or is to be; of the weak  *)
(* tables among it, but for W, the list is kept.                           *)
Traced(S, P) == \A o \in Objects : Shaded(S, o) /\ o \notin S.gray \cup P =>
    \A x \in Children(o) : S.mark[x] \notin Whites
WeakKnown(S, W) == \A o \in Objects : Shaded(S, o) /\ IsWeak(o) => o \in S.gray \cup S.weak \cup W
Stage(S, P, W) == Good(S) /\ Traced(S, P) /\ WeakKnown(S, W)

Grown(S, T) ==
    /\ \A o \in Objects : Shaded(S, o) => Shaded(T, o)
    /\ S.grayagain \subseteq T.grayagain /\ S.weak \subseteq T.weak

(* Marking, where the white children of what is to be left out of P are    *)
(* marked.                                                                 *)
LEMMA MarkedStage ==
    ASSUME TypeOK, NEW S, NEW P, NEW W, Stage(S, P, W), NEW Q, NEW X \in SUBSET Objects,
           \A o \in (P \ Q) \cap Objects : Shaded(S, o) =>
               \A x \in Children(o) : S.mark[x] \in Whites => x \in X,
           NEW T, T = Marked(S, X)
    PROVE  /\ Stage(T, Q, W) /\ Grown(S, T)
           /\ \A o \in X : mark[o] # "free" => Shaded(T, o)
<1>0. S \in Markings /\ Good(S) /\ Traced(S, P) /\ WeakKnown(S, W)
  BY DEF Stage, Good
<1>1. /\ T \in Markings /\ T.grayagain = S.grayagain /\ T.weak = S.weak /\ S.gray \subseteq T.gray
      /\ \A o \in Objects : T.mark[o] # S.mark[o] =>
            /\ S.mark[o] \in Whites /\ Turned(S, T, o)
            /\ T.mark[o] = "gray" => o \in Strings \cup T.gray \/ IsOpen(o)
            /\ o \in Tables \cup Closures \cup Threads => T.mark[o] = "gray" /\ o \in T.gray
            /\ o \in Udatas \cup UpVals => \A x \in Children(o) : T.mark[x] \notin Whites
      /\ \A o \in X : T.mark[o] \notin Whites
      /\ \A o \in T.gray \ S.gray : T.mark[o] # S.mark[o]
  BY <1>0, MarkedEffect
<1>2. /\ Whites = {white, OtherWhite} /\ white # OtherWhite
      /\ "gray" \notin Whites /\ "black" \notin Whites /\ "free" \notin Whites
  BY TwoWhites
<1>3. \A o \in Objects : S.mark[o] \notin Whites => T.mark[o] = S.mark[o]
  BY <1>1
<1>4. Grown(S, T)
  BY <1>1, <1>2, <1>3 DEF Grown, Shaded, Shades
<1>5. \A o \in T.gray \cup T.grayagain \cup T.weak : o \in Objects
  BY <1>1 DEF Markings, Objects
<1>6. Good(T)
  <2>1. ASSUME NEW o \in Objects
        PROVE  /\ T.mark[o] = "free" <=> mark[o] = "free"
               /\ T.mark[o] # OtherWhite
               /\ T.mark[o] = "black" => ~StaysGray(o) /\ ~IsOpen(o)
               /\ o \in Udatas => T.mark[o] # "gray"
    <3>1. CASE T.mark[o] = S.mark[o]
      BY <3>1, <1>0 DEF Good
    <3>2. CASE T.mark[o] # S.mark[o]
      BY <3>2, <1>0, <1>1, <1>2 DEF Good, Turned, Shades
    <3> QED BY <3>1, <3>2
  <2>2. ASSUME NEW o \in T.gray \cup T.grayagain \cup T.weak PROVE T.mark[o] \in Shades
    <3>1. CASE o \in S.gray \cup S.grayagain \cup S.weak
      BY <3>1, <1>0, <1>4, <1>5 DEF Good, Grown, Shaded
    <3>2. CASE o \in T.gray \ S.gray
      BY <3>2, <1>1, <1>5 DEF Turned
    <3> QED BY <3>1, <3>2, <1>1
  <2> QED BY <2>1, <2>2, <1>1 DEF Good
<1>7. Traced(T, Q)
  <2> SUFFICES ASSUME NEW o \in Objects, Shaded(T, o), o \notin T.gray \cup Q, NEW x \in Children(o)
               PROVE  T.mark[x] \notin Whites
    BY DEF Traced
  <2>0. x \in Objects
    BY ChildrenType
  <2>1. CASE T.mark[o] # S.mark[o]
    <3>1. o \notin Tables \cup Closures \cup Threads
      BY <2>1, <1>1
    <3>2. o \notin Strings
      BY ReferencesOf
    <3> QED BY <2>1, <3>1, <3>2, <1>1 DEF Objects
  <2>2. CASE T.mark[o] = S.mark[o]
    <3>1. Shaded(S, o) /\ o \notin S.gray
      BY <2>2, <1>1 DEF Shaded
    <3>2. CASE S.mark[x] \notin Whites
      BY <3>2, <2>0, <1>3
    <3>3. CASE S.mark[x] \in Whites
      <4>1. o \in P
        BY <3>1, <3>3, <1>0 DEF Traced
      <4>2. x \in X
        BY <3>1, <3>3, <4>1
      <4> QED BY <4>2, <1>1
    <3> QED BY <3>2, <3>3
  <2> QED BY <2>1, <2>2
<1>8. WeakKnown(T, W)
  <2> SUFFICES ASSUME NEW o \in Objects, Shaded(T, o), IsWeak(o)
               PROVE  o \in T.gray \cup T.weak \cup W
    BY DEF WeakKnown
  <2>1. CASE T.mark[o] # S.mark[o]
    BY <2>1, <1>1 DEF IsWeak
  <2>2. CASE T.mark[o] = S.mark[o]
    BY <2>2, <1>0, <1>1 DEF WeakKnown, Shaded
  <2> QED BY <2>1, <2>2
<1>9. \A o \in X : mark[o] # "free" => Shaded(T, o)
  <2> SUFFICES ASSUME NEW o \in X, mark[o] # "free" PROVE T.mark[o] \in Shades
    BY DEF Shaded
  <2>1. o \in Objects /\ T.mark[o] \notin Whites /\ T.mark[o] # "free"
    BY <1>1, <1>6 DEF Good
  <2> QED BY <2>1, <1>1 DEF Markings
<1> QED BY <1>4, <1>6, <1>7, <1>8, <1>9 DEF Stage

(* propagateall traverses all that is gray.                                *)
LEMMA PropagatedStage ==
    ASSUME TypeOK, NEW S, NEW P, NEW W, Stage(S, P, W), NEW T, T = PropagatedAll(S)
    PROVE  Stage(T, P, W) /\ Grown(S, T) /\ T.gray = {}
<1>0. S \in Markings /\ Good(S) /\ Traced(S, P) /\ WeakKnown(S, W)
  BY DEF Stage, Good
<1>1. /\ T \in Markings /\ T.gray = {}
      /\ S.grayagain \subseteq T.grayagain /\ S.weak \subseteq T.weak
      /\ \A o \in Objects : o \in S.gray \/ T.mark[o] # S.mark[o] =>
            /\ o \in S.gray \/ S.mark[o] \in Whites
            /\ Turned(S, T, o) /\ \A x \in Children(o) : T.mark[x] \notin Whites
            /\ IsWeak(o) => o \in T.weak
      /\ \A o \in (T.grayagain \cup T.weak) \ (S.grayagain \cup S.weak) : T.mark[o] \in Shades
  BY <1>0, PropagatedAllEffect
<1>2. /\ Whites = {white, OtherWhite} /\ white # OtherWhite
      /\ "gray" \notin Whites /\ "black" \notin Whites /\ "free" \notin Whites
  BY TwoWhites
<1>3. \A o \in Objects : S.mark[o] \in Shades => T.mark[o] \in Shades
  BY <1>1 DEF Turned
<1>4. \A o \in Objects : S.mark[o] \notin Whites => T.mark[o] \notin Whites
  BY <1>1, <1>2 DEF Turned, Shades
<1>5. \A o \in S.gray \cup T.gray \cup T.grayagain \cup T.weak : o \in Objects
  BY <1>0, <1>1 DEF Markings, Objects
<1>6. Good(T)
  <2>1. ASSUME NEW o \in Objects
        PROVE  /\ T.mark[o] = "free" <=> mark[o] = "free"
               /\ T.mark[o] # OtherWhite
               /\ T.mark[o] = "black" => ~StaysGray(o) /\ ~IsOpen(o)
               /\ o \in Udatas => T.mark[o] # "gray"
    <3>1. CASE T.mark[o] = S.mark[o]
      BY <3>1, <1>0 DEF Good
    <3>2. CASE T.mark[o] # S.mark[o]
      <4>1. S.mark[o] # "free"
        BY <3>2, <1>0, <1>1, <1>2 DEF Good, Shades
      <4> QED BY <3>2, <4>1, <1>0, <1>1, <1>2 DEF Good, Turned, Shades
    <3> QED BY <3>1, <3>2
  <2>2. ASSUME NEW o \in T.gray \cup T.grayagain \cup T.weak PROVE T.mark[o] \in Shades
    <3>1. CASE o \in S.grayagain \cup S.weak
      BY <3>1, <1>0, <1>1, <1>3, <1>5 DEF Good
    <3> QED BY <3>1, <1>1
  <2> QED BY <2>1, <2>2, <1>1 DEF Good
<1>7. Traced(T, P)
  <2> SUFFICES ASSUME NEW o \in Objects, Shaded(T, o), o \notin T.gray \cup P, NEW x \in Children(o)
               PROVE  T.mark[x] \notin Whites
    BY DEF Traced
  <2>1. CASE o \in S.gray \/ T.mark[o] # S.mark[o]
    BY <2>1, <1>1
  <2>2. CASE o \notin S.gray /\ T.mark[o] = S.mark[o]
    <3>1. S.mark[x] \notin Whites
      BY <2>2, <1>0 DEF Traced, Shaded
    <3> QED BY <3>1, <1>4, ChildrenType
  <2> QED BY <2>1, <2>2
<1>8. WeakKnown(T, W)
  BY <1>0, <1>1 DEF WeakKnown, Shaded
<1> QED BY <1>1, <1>3, <1>6, <1>7, <1>8 DEF Stage, Grown, Shaded

(* The weak tables, or what the barriers caught, are to be traversed again.*)
LEMMA AgainStage ==
    ASSUME NEW S, NEW P, NEW W, Stage(S, P, W), S.gray = {}
    PROVE  /\ Stage(WeakAgain(S), P \ S.weak, W)
           /\ WeakAgain(S).mark = S.mark /\ WeakAgain(S).grayagain = S.grayagain
           /\ Stage(CaughtAgain(S), P \ S.grayagain, W \ S.grayagain)
           /\ CaughtAgain(S).mark = S.mark /\ CaughtAgain(S).weak = S.weak
<1>0. S \in Markings /\ Good(S) /\ Traced(S, P) /\ WeakKnown(S, W)
  BY DEF Stage, Good
<1>1. PICK V : V = WeakAgain(S)
  OBVIOUS
<1>2. PICK C : C = CaughtAgain(S)
  OBVIOUS
<1>3. /\ V = [mark |-> S.mark, gray |-> S.weak, grayagain |-> S.grayagain, weak |-> {}]
      /\ C = [mark |-> S.mark, gray |-> S.grayagain, grayagain |-> {}, weak |-> S.weak]
  BY <1>0, <1>1, <1>2 DEF WeakAgain, CaughtAgain, Markings
<1>4. V \in Markings /\ C \in Markings
  BY <1>0, <1>3 DEF Markings
<1>5. Good(V) /\ Good(C)
  BY <1>0, <1>3, <1>4 DEF Good
<1>6. Traced(V, P \ S.weak) /\ Traced(C, P \ S.grayagain)
  BY <1>0, <1>3 DEF Traced, Shaded
<1>7. WeakKnown(V, W) /\ WeakKnown(C, W \ S.grayagain)
  BY <1>0, <1>3 DEF WeakKnown, Shaded
<1> QED BY <1>1, <1>2, <1>3, <1>5, <1>6, <1>7 DEF Stage

(* marktmu: what is to be finalized is marked with what it refers to, and  *)
(* then everything that is shaded has been traversed.                      *)
LEMMA MarkedForStage ==
    ASSUME TypeOK, NEW S, NEW P, Stage(S, P, {}), S.gray = {},
           NEW U \in SUBSET Udatas, P \subseteq U, \A u \in U : mark[u] # "free",
           NEW T, T = MarkedFor(S, U)
    PROVE  Stage(T, {}, {}) /\ Grown(S, T) /\ T.gray = {} /\ \A u \in U : Shaded(T, u)
<1>0. S \in Markings /\ Good(S) /\ Traced(S, P) /\ WeakKnown(S, {})
  BY DEF Stage, Good
<1>1. PICK R : R = [S EXCEPT !.mark = [o \in Objects |-> IF o \in U THEN white ELSE @[o]]]
  OBVIOUS
<1>2. R = [mark |-> [o \in Objects |-> IF o \in U THEN white ELSE S.mark[o]],
           gray |-> S.gray, grayagain |-> S.grayagain, weak |-> S.weak]
  BY <1>0, <1>1 DEF Markings
<1>3. /\ Whites = {white, OtherWhite} /\ white # OtherWhite
      /\ "gray" \notin Whites /\ "black" \notin Whites /\ "free" \notin Whites
  BY TwoWhites
<1>4. U \in SUBSET Objects /\ \A o \in S.grayagain \cup S.weak : o \in Objects \ U
  BY <1>0, KindsDiffer DEF Markings, Objects
<1>5. R \in Markings
  BY <1>0, <1>2, <1>3 DEF Markings
<1>6. Good(R)
  <2>1. ASSUME NEW o \in Objects
        PROVE  /\ R.mark[o] = "free" <=> mark[o] = "free"
               /\ R.mark[o] # OtherWhite
               /\ R.mark[o] = "black" => ~StaysGray(o) /\ ~IsOpen(o)
               /\ o \in Udatas => R.mark[o] # "gray"
    <3>1. CASE o \in U
      BY <1>2, <1>3, <3>1
    <3>2. CASE o \notin U
      BY <1>0, <1>2, <3>2 DEF Good
    <3> QED BY <3>1, <3>2
  <2>2. \A o \in R.gray \cup R.grayagain \cup R.weak : R.mark[o] \in Shades
    BY <1>0, <1>2, <1>4 DEF Good
  <2> QED BY <1>5, <2>1, <2>2 DEF Good
<1>7. Stage(R, Objects, {})
  <2>1. Traced(R, Objects)
    BY DEF Traced
  <2>2. WeakKnown(R, {})
    <3>1. \A o \in Objects : IsWeak(o) => o \notin U
      BY KindsDiffer DEF IsWeak
    <3> QED BY <1>0, <1>2, <3>1 DEF WeakKnown, Shaded
  <2> QED BY <1>6, <2>1, <2>2 DEF Stage
<1>8. PICK M : M = Marked(R, U)
  OBVIOUS
<1>9. T = PropagatedAll(M)
  BY <1>1, <1>8 DEF MarkedFor
<1>10. ASSUME NEW o \in (Objects \ {}) \cap Objects, Shaded(R, o), NEW x \in Children(o), R.mark[x] \in Whites
       PROVE  x \in U
  <2>1. x \in Objects
    BY ChildrenType
  <2>2. o \notin U /\ Shaded(S, o)
    BY <1>2, <1>3, <1>10 DEF Shaded, Shades
  <2>3. S.mark[x] \notin Whites
    BY <1>0, <2>2 DEF Traced
  <2> QED BY <1>2, <1>10, <2>1, <2>3
<1>11. Stage(M, {}, {}) /\ Grown(R, M) /\ \A u \in U : mark[u] # "free" => Shaded(M, u)
  BY <1>4, <1>7, <1>8, <1>10, MarkedStage
<1>12. Stage(T, {}, {}) /\ Grown(M, T) /\ T.gray = {}
  BY <1>9, <1>11, PropagatedStage
<1>13. \A u \in U : Shaded(T, u)
  BY <1>4, <1>11, <1>12 DEF Grown
<1>14. Grown(S, T)
  <2>1. ASSUME NEW o \in Objects, Shaded(S, o) PROVE Shaded(T, o)
    <3>1. CASE o \in U
      BY <3>1, <1>13
    <3>2. CASE o \notin U
      <4>1. Shaded(R, o)
        BY <1>2, <2>1, <3>2 DEF Shaded
      <4> QED BY <4>1, <1>11, <1>12 DEF Grown
    <3> QED BY <3>1, <3>2
  <2>2. S.grayagain \subseteq T.grayagain /\ S.weak \subseteq T.weak
    BY <1>2, <1>11, <1>12 DEF Grown
  <2> QED BY <2>1, <2>2 DEF Grown
<1> QED BY <1>12, <1>13, <1>14

(* The userdata to be finalized, put in some order, are queued.            *)
LEMMA Queued ==
    ASSUME NEW D \in SUBSET Udatas, NEW q \in Seq(Udatas), NEW r, r = q \o SetToSeq(D)
    PROVE  r \in Seq(Udatas) /\ Range(r) = Range(q) \cup D
<1>1. IsFiniteSet(D)
  <2>1. D \subseteq Objects
    BY DEF Objects
  <2> QED BY <2>1, SizeAssumption, FS_Subset
<1>2. PICK n : n = Cardinality(D)
  OBVIOUS
<1>3. n \in Nat /\ ExistsBijection(1..n, D)
  BY <1>1, <1>2, FS_CardinalityType
<1>4. PICK f \in [1..n -> D] : IsInjective(f)
  <2>1. PICK f : f \in Bijection(1..n, D)
    BY <1>3 DEF ExistsBijection
  <2> QED BY <2>1 DEF Bijection, Injection
<1>5. PICK d : d = SetToSeq(D)
  OBVIOUS
<1>6. d \in [1..n -> D] /\ IsInjective(d)
  BY <1>2, <1>4, <1>5 DEF SetToSeq
<1>7. d \in Surjection(1..n, D)
  <2>1. d \in Injection(1..n, D)
    BY <1>6 DEF Injection
  <2>2. IsFiniteSet(1..n) /\ Cardinality(1..n) = n
    BY <1>3, FS_Interval
  <2> QED BY <1>1, <1>2, <2>1, <2>2, FS_Injection
<1>8. d \in Seq(Udatas) /\ Len(d) = n
  BY <1>3, <1>6
<1>9. r = q \o d /\ r \in Seq(Udatas) /\ Len(r) = Len(q) + n
  BY <1>5, <1>8
<1>10. \A x \in D : \E i \in 1..n : d[i] = x
  BY <1>7 DEF Surjection
<1>11. \A i \in 1..Len(q) : r[i] = q[i]
  BY <1>3, <1>8, <1>9
<1>12. \A i \in 1..n : r[Len(q) + i] = d[i] /\ Len(q) + i \in 1..Len(r)
  BY <1>3, <1>8, <1>9
<1>13. \A i \in 1..Len(r) : (i \in 1..Len(q) /\ r[i] = q[i]) \/ (i - Len(q) \in 1..n /\ r[i] = d[i - Len(q)])
  BY <1>3, <1>8, <1>9
<1>r. /\ DOMAIN r = 1..Len(r) /\ DOMAIN q = 1..Len(q)
      /\ \A i \in 1..Len(q) : i \in 1..Len(r)
  BY <1>3, <1>9
<1>14. Range(r) \subseteq Range(q) \cup D
  BY <1>6, <1>9, <1>13 DEF Range
<1>15. Range(q) \subseteq Range(r)
  <2> SUFFICES ASSUME NEW i \in 1..Len(q) PROVE q[i] \in Range(r)
    BY <1>r DEF Range
  <2>1. r[i] = q[i] /\ i \in DOMAIN r
    BY <1>11, <1>r
  <2> QED BY <2>1 DEF Range
<1>16. D \subseteq Range(r)
  <2> SUFFICES ASSUME NEW x \in D PROVE x \in Range(r)
    OBVIOUS
  <2>1. PICK i \in 1..n : d[i] = x
    BY <1>10
  <2>2. r[Len(q) + i] = x /\ Len(q) + i \in DOMAIN r
    BY <1>12, <1>r, <2>1
  <2> QED BY <2>2 DEF Range
<1> QED BY <1>9, <1>14, <1>15, <1>16

(* What is left out may grow. *)
LEMMA StageWeaker ==
    ASSUME NEW S, NEW P, NEW W, Stage(S, P, W), NEW Q, NEW V, P \subseteq Q, W \subseteq V
    PROVE  Stage(S, Q, V)
BY DEF Stage, Traced, WeakKnown

(* The first half of atomic: in the end all that is shaded has been        *)
(* traversed, but for the userdata that wait for their finalizer, and the  *)
(* running thread is shaded, with what the roots are.                      *)
LEMMA MarkedAgainStage ==
    ASSUME IInv, gcstate = "propagate", gray = {}, NEW T, T = MarkedAgain
    PROVE  /\ Stage(T, Range(tmudata), {}) /\ T.gray = {}
           /\ Shaded(T, Main) /\ Shaded(T, Globals) /\ Shaded(T, running)
<1>0. /\ TypeOK /\ Roots /\ Coloured
      /\ \A o \in Objects : mark[o] # OtherWhite
      /\ \A o \in Objects : mark[o] = "gray" => o \in Strings \cup gray \cup grayagain \cup weak \/ IsOpen(o)
      /\ \A o \in Objects : mark[o] = "black" /\ o \notin Range(tmudata) =>
            \A x \in Children(o) : mark[x] \notin Whites
      /\ \A o \in gray \cup grayagain \cup weak : mark[o] \in Shades
      /\ mark[Main] \notin Whites /\ mark[Globals] \notin Whites
  BY DEF IInv, HeapInv, ColourInv, TriColour
<1>1. PICK S : S = Marking
  OBVIOUS
<1>2. S.mark = mark /\ S.gray = {} /\ S.grayagain = grayagain /\ S.weak = weak
  BY <1>1 DEF Marking
<1>3. S \in Markings
  BY <1>0, <1>1, <1>2 DEF Marking, Markings, TypeOK, Shades
<1> DEFINE q == Range(tmudata)
           opens == {v \in UpVals : IsOpen(v)}
           X == {UpValue(v) : v \in GrayUpvals} \ {Nil}
           P0 == opens \cup grayagain \cup weak \cup q
           P1 == grayagain \cup weak \cup q
           P2 == grayagain \cup q
<1>4. Stage(S, P0, grayagain)
  <2>1. Good(S)
    BY <1>0, <1>2, <1>3 DEF Good, Coloured
  <2>2. Traced(S, P0)
    <3> SUFFICES ASSUME NEW o \in Objects, Shaded(S, o), o \notin P0, NEW x \in Children(o)
                 PROVE  mark[x] \notin Whites
      BY <1>2 DEF Traced
    <3>1. CASE mark[o] = "black"
      BY <1>0, <3>1
    <3>2. CASE mark[o] = "gray"
      <4>1. o \in Strings
        BY <1>0, <3>2 DEF IsOpen
      <4> QED BY <1>0, <4>1, ReferencesOf
    <3> QED BY <1>2, <3>1, <3>2 DEF Shaded, Shades
  <2>3. WeakKnown(S, grayagain)
    <3> SUFFICES ASSUME NEW o \in Objects, Shaded(S, o), IsWeak(o)
                 PROVE  o \in weak \cup grayagain
      BY <1>2 DEF WeakKnown
    <3>1. mark[o] = "gray"
      BY <1>0, <1>2 DEF Shaded, Shades, Coloured, StaysGray
    <3> QED BY <1>0, <3>1, KindsDiffer DEF IsWeak, IsOpen
  <2> QED BY <2>1, <2>2, <2>3 DEF Stage
<1>5. X \in SUBSET Objects
  BY <1>0, UpValueType DEF GrayUpvals, Values
<1>6. PICK m1 : m1 = Marked(S, X)
  OBVIOUS
<1>7. PICK s1 : s1 = PropagatedAll(m1)
  OBVIOUS
<1>8. PICK w : w = WeakAgain(s1)
  OBVIOUS
<1>9. PICK m2 : m2 = Marked(w, {running})
  OBVIOUS
<1>10. PICK s2 : s2 = PropagatedAll(m2)
  OBVIOUS
<1>11. PICK c : c = CaughtAgain(s2)
  OBVIOUS
<1>12. T = PropagatedAll(c)
  BY <1>1, <1>6, <1>7, <1>8, <1>9, <1>10, <1>11 DEF MarkedAgain
<1>13. Stage(m1, P1, grayagain) /\ Grown(S, m1)
  <2>1. ASSUME NEW o \in (P0 \ P1) \cap Objects, Shaded(S, o), NEW x \in Children(o)
        PROVE  x \in X
    <3>1. o \in UpVals /\ IsOpen(o)
      BY <2>1
    <3>2. mark[o] = "gray"
      BY <1>0, <1>2, <2>1, <3>1 DEF Shaded, Shades, Coloured
    <3>3. x = UpValue(o) /\ x # Nil
      BY <1>0, <2>1, <3>1, ReferencesOf
    <3> QED BY <3>1, <3>2, <3>3 DEF GrayUpvals, IsOpen
  <2> HIDE DEF X, P0, P1
  <2> QED BY <1>0, <1>4, <1>5, <1>6, <2>1, MarkedStage
<1>14. Stage(s1, P1, grayagain) /\ Grown(m1, s1) /\ s1.gray = {}
  BY <1>0, <1>7, <1>13, PropagatedStage
<1>15. weak \subseteq s1.weak /\ grayagain \subseteq s1.grayagain
  BY <1>2, <1>13, <1>14 DEF Grown
<1>16. Stage(w, P1 \ s1.weak, grayagain) /\ w.mark = s1.mark /\ w.grayagain = s1.grayagain
  BY <1>8, <1>14, AgainStage
<1>17. Stage(w, P2, grayagain)
  <2>1. P1 \ s1.weak \subseteq P2
    BY <1>15
  <2> QED BY <1>16, <2>1, StageWeaker
<1>18. running \in Objects /\ mark[running] # "free"
  BY <1>0 DEF TypeOK, Objects, Roots, Live
<1>19. Stage(m2, P2, grayagain) /\ Grown(w, m2) /\ Shaded(m2, running)
  <2>1. \A o \in (P2 \ P2) \cap Objects : Shaded(w, o) =>
            \A x \in Children(o) : w.mark[x] \in Whites => x \in {running}
    OBVIOUS
  <2>2. {running} \in SUBSET Objects
    BY <1>18
  <2> HIDE DEF P2
  <2> QED BY <1>0, <1>9, <1>17, <1>18, <2>1, <2>2, MarkedStage
<1>20. Stage(s2, P2, grayagain) /\ Grown(m2, s2) /\ s2.gray = {}
  BY <1>0, <1>10, <1>19, PropagatedStage
<1>21. grayagain \subseteq s2.grayagain
  BY <1>15, <1>16, <1>19, <1>20 DEF Grown
<1>22. /\ Stage(c, P2 \ s2.grayagain, grayagain \ s2.grayagain)
       /\ c.mark = s2.mark
  BY <1>11, <1>20, AgainStage
<1>23. Stage(c, q, {})
  <2>1. P2 \ s2.grayagain \subseteq q /\ grayagain \ s2.grayagain \subseteq {}
    BY <1>21
  <2> QED BY <1>22, <2>1, StageWeaker
<1>24. Stage(T, q, {}) /\ Grown(c, T) /\ T.gray = {}
  BY <1>0, <1>12, <1>23, PropagatedStage
<1>25. \A o \in Objects : Shaded(S, o) => Shaded(s1, o)
  BY <1>13, <1>14 DEF Grown
<1>26. \A o \in Objects : Shaded(w, o) => Shaded(s2, o)
  BY <1>19, <1>20 DEF Grown
<1>27. \A o \in Objects : Shaded(m2, o) => Shaded(T, o)
  BY <1>20, <1>22, <1>24 DEF Grown, Shaded
<1>28. \A o \in Objects : Shaded(S, o) => Shaded(T, o)
  BY <1>16, <1>19, <1>25, <1>27 DEF Grown, Shaded
<1>29. /\ Main \in Objects /\ Globals \in Objects
       /\ Shaded(S, Main) /\ Shaded(S, Globals)
  <2>1. Main \in Objects /\ Globals \in Objects
    BY RootAssumption DEF Objects
  <2>2. mark[Main] # "free" /\ mark[Globals] # "free"
    BY <1>0 DEF Roots, Live
  <2> QED BY <1>0, <1>2, <2>1, <2>2 DEF TypeOK, Shaded, Shades
<1> QED BY <1>18, <1>19, <1>24, <1>27, <1>28, <1>29

(* The end of the mark phase: S is the marking, U the userdata that wait   *)
(* for their finalizer.                                                    *)
Ended(S, U) ==
    /\ Stage(S, {}, {}) /\ S.gray = {}
    /\ U \subseteq Udatas /\ \A u \in U : Shaded(S, u)
    /\ Shaded(S, Main) /\ Shaded(S, Globals) /\ Shaded(S, running)

(* The marking of the atomic step, for the constants of its LETs.          *)
LEMMA AtomicMarking ==
    ASSUME IInv, gcstate = "propagate", gray = {},
           NEW R, R = MarkedAgain, NEW D, D = Separated(R),
           NEW tmu, tmu = tmudata \o SetToSeq(D), NEW S, S = MarkedFor(R, Range(tmu))
    PROVE  /\ D \subseteq Udatas /\ tmu \in Seq(Udatas) /\ Ended(S, Range(tmu))
           /\ Good(R) /\ Grown(R, S) /\ Range(tmu) = Range(tmudata) \cup D
<1>0. TypeOK /\ Roots
  BY DEF IInv, HeapInv
<1>1. /\ Stage(R, Range(tmudata), {}) /\ R.gray = {}
      /\ Shaded(R, Main) /\ Shaded(R, Globals) /\ Shaded(R, running)
  BY MarkedAgainStage
<1>2. D \in SUBSET Udatas /\ \A u \in D : mark[u] # "free"
  BY DEF Separated, Allocated
<1>3. tmudata \in Seq(Udatas)
  BY <1>0 DEF TypeOK
<1>4. tmu \in Seq(Udatas) /\ Range(tmu) = Range(tmudata) \cup D
  BY <1>2, <1>3, Queued
<1>5. Range(tmu) \in SUBSET Udatas
  BY <1>2, <1>3, <1>4 DEF Range
<1>6. \A u \in Range(tmu) : mark[u] # "free"
  BY <1>0, <1>2, <1>4 DEF Roots, Live
<1>7. Range(tmudata) \subseteq Range(tmu)
  BY <1>4
<1>8. /\ Stage(S, {}, {}) /\ Grown(R, S) /\ S.gray = {} /\ \A u \in Range(tmu) : Shaded(S, u)
  <2> DEFINE U == Range(tmu)
             P == Range(tmudata)
  <2>1. S = MarkedFor(R, U) /\ U \in SUBSET Udatas /\ P \subseteq U /\ \A u \in U : mark[u] # "free"
    BY <1>5, <1>6, <1>7
  <2>2. Stage(R, P, {}) /\ R.gray = {}
    BY <1>1
  <2> HIDE DEF U, P
  <2>3. /\ Stage(S, {}, {}) /\ Grown(R, S) /\ S.gray = {} /\ \A u \in U : Shaded(S, u)
    BY <1>0, <2>1, <2>2, MarkedForStage
  <2> QED BY <2>3 DEF U
<1>9. Main \in Objects /\ Globals \in Objects /\ running \in Objects
  BY <1>0, RootAssumption DEF TypeOK, Objects
<1>10. Good(R)
  BY <1>1 DEF Stage
<1>11. Ended(S, Range(tmu))
  BY <1>1, <1>5, <1>8, <1>9 DEF Ended, Grown
<1> QED BY <1>2, <1>4, <1>8, <1>10, <1>11

(* What lives after the mark phase is what is shaded; it refers, but for   *)
(* the entries of weak tables in the list, to what is shaded; threads that *)
(* have resumed others are among it.                                       *)
LEMMA EndedFacts ==
    ASSUME IInv, gcstate = "propagate", NEW S, NEW U, Ended(S, U)
    PROVE  /\ \A o \in Objects : S.mark[o] \in {"free", white} \cup Shades
           /\ \A o \in Objects : S.mark[o] = "free" <=> mark[o] = "free"
           /\ \A o \in Objects : Shaded(S, o) => Live(o)
           /\ \A o \in Objects : Live(o) => Shaded(S, o) \/ S.mark[o] \in Whites
           /\ \A o \in Objects : Shaded(S, o) => \A x \in Children(o) : x \in Objects /\ Shaded(S, x)
           /\ \A t \in Tables : Shaded(S, t) /\ t \notin S.weak => ~IsWeak(t)
           /\ \A th \in Threads : resumed[th] # Nil => Shaded(S, th)
           /\ \A o \in S.grayagain \cup S.weak : o \in Objects /\ Shaded(S, o)
<1>0. /\ TypeOK /\ Sound /\ Chain /\ \A o \in Objects : mark[o] # OtherWhite
  BY DEF IInv, HeapInv, ColourInv, TriColour
<1>1. S \in Markings /\ Good(S) /\ Traced(S, {}) /\ WeakKnown(S, {}) /\ S.gray = {}
  BY DEF Ended, Stage, Good
<1>2. /\ Whites = {white, OtherWhite} /\ white # OtherWhite
      /\ "gray" \notin Whites /\ "black" \notin Whites /\ "free" \notin Whites
  BY <1>0, TwoWhites
<1>3. \A o \in Objects : S.mark[o] \in {"free", white} \cup Shades
  BY <1>1, <1>2 DEF Markings, Good
<1>4. \A o \in Objects : S.mark[o] = "free" <=> mark[o] = "free"
  BY <1>1 DEF Good
<1>5. \A o \in Objects : Shaded(S, o) => Live(o)
  BY <1>0, <1>4 DEF Live, IsDead, Shaded, Shades
<1>6. \A o \in Objects : Live(o) => Shaded(S, o) \/ S.mark[o] \in Whites
  BY <1>2, <1>3, <1>4 DEF Live, Shaded
<1>7. ASSUME NEW o \in Objects, Shaded(S, o), NEW x \in Children(o)
      PROVE  x \in Objects /\ Shaded(S, x)
  <2>1. x \in References(o) /\ x \in Objects
    BY <1>0, ChildrenType
  <2>2. Live(x)
    BY <1>0, <1>5, <1>7, <2>1, SoundReferences
  <2>3. S.mark[x] \notin Whites
    BY <1>1, <1>7 DEF Traced
  <2> QED BY <1>6, <2>1, <2>2, <2>3
<1>8. \A t \in Tables : Shaded(S, t) /\ t \notin S.weak => ~IsWeak(t)
  BY <1>1 DEF WeakKnown, Objects
<1>9. \A th \in Threads : resumed[th] # Nil => Shaded(S, th)
  <2> DEFINE W == {th \in Threads : resumed[th] # Nil /\ ~Shaded(S, th)}
  <2>1. ASSUME NEW th \in W PROVE \E r \in W : resumed[r] = th
    <3>1. th # Main
      BY <2>1 DEF Ended
    <3>2. PICK r \in Threads : resumed[r] = th
      BY <1>0, <2>1, <3>1 DEF Chain
    <3>3. th \in Objects /\ r \in Objects /\ th # Nil
      BY KindsDiffer DEF Objects
    <3>4. th \in Children(r)
      BY <1>0, <3>2, <3>3, ReferencesOf
    <3>5. ~Shaded(S, r)
      BY <1>7, <2>1, <3>3, <3>4
    <3> QED BY <3>2, <3>3, <3>5
  <2>2. W = {}
    <3> HIDE DEF W
    <3>1. W \in SUBSET Threads
      BY DEF W
    <3> QED BY <1>0, <2>1, <3>1 DEF Chain
  <2> QED BY <2>2
<1>10. \A o \in S.grayagain \cup S.weak : o \in Objects /\ Shaded(S, o)
  BY <1>1 DEF Good, Markings, Objects, Shaded
<1> QED BY <1>3, <1>4, <1>5, <1>6, <1>7, <1>8, <1>9, <1>10

(* Weak tables are cleared and the whites are switched. *)
Switched(S, U, fin) ==
    /\ mark' = [o \in Objects |-> IF o \in Strings \cap InFields(S, fin) THEN "gray" ELSE S.mark[o]]
    /\ gray' = {} /\ grayagain' = S.grayagain /\ weak' = S.weak
    /\ fields' = [t \in Tables |-> IF t \in S.weak THEN EntriesKept(S, fin, t) ELSE fields[t]]
    /\ white' = OtherWhite
    /\ tmudata' \in Seq(Udatas) /\ Range(tmudata') = U /\ finalized' \subseteq Udatas
    /\ toSweep' = {o \in Allocated : o \in UpVals => open[o] = <<>>} \ U
    /\ gcstate' = "sweepstring" /\ doomed' \subseteq Objects
    /\ UNCHANGED <<world, env, upval, open, closed, stack, running, resumed, calls>>

(* What lives then is what was shaded, with the strings of weak tables.    *)
LEMMA SwitchedColours ==
    ASSUME IInv, gcstate = "propagate", NEW S, NEW U, Ended(S, U), NEW fin, Switched(S, U, fin)
    PROVE  /\ TypeOK'
           /\ \A o \in Objects : Live(o)' <=> mark'[o] \in Shades
           /\ \A o \in Objects : Shaded(S, o) => Live(o)'
           /\ \A o \in Objects \ Strings : Live(o)' => Shaded(S, o)
           /\ \A o \in Objects : mark'[o] = "free" <=> mark[o] = "free"
           /\ \A o \in Strings \cap InFields(S, fin) : Live(o)'
<1>0. TypeOK /\ Sound
  BY DEF IInv, HeapInv
<1>1. /\ \A o \in Objects : S.mark[o] \in {"free", white} \cup Shades
      /\ \A o \in Objects : S.mark[o] = "free" <=> mark[o] = "free"
      /\ \A o \in Objects : Shaded(S, o) => Live(o)
      /\ \A o \in S.grayagain \cup S.weak : o \in Objects /\ Shaded(S, o)
  BY EndedFacts
<1>2. S \in Markings
  BY DEF Ended, Stage, Good
<1>3. /\ Whites = {white, OtherWhite} /\ white # OtherWhite
      /\ "gray" \notin Whites /\ "black" \notin Whites /\ "free" \notin Whites
  BY <1>0, TwoWhites
<1>4. white' \in Whites /\ OtherWhite' = white /\ Whites' = Whites
  BY <1>0 DEF Switched, TypeOK, Whites, OtherWhite
<1>5. ASSUME NEW o \in Strings \cap InFields(S, fin) PROVE mark[o] # "free" /\ o \in Objects /\ mark'[o] = "gray"
  <2>1. PICK t \in S.weak : \E e \in fields[t] : o = e[1] \/ o = e[2]
    BY <1>5 DEF InFields
  <2>2. t \in Tables /\ Live(t)
    BY <1>1, <1>2, <2>1 DEF Markings
  <2>3. o \in Objects /\ o # Nil /\ o # Num
    BY KindsDiffer DEF Objects
  <2>4. Kept(o)
    BY <1>0, <2>1, <2>2 DEF Sound
  <2> QED BY <1>5, <2>3, <2>4 DEF Kept, Live, Switched
<1>6. \A o \in Objects : o \notin Strings \cap InFields(S, fin) => mark'[o] = S.mark[o]
  BY DEF Switched
<1>7. ASSUME NEW o \in Objects PROVE Live(o)' <=> mark'[o] \in Shades
  <2>1. mark'[o] \in {"free", white} \cup Shades
    BY <1>1, <1>5, <1>6 DEF Shades
  <2> QED BY <1>3, <1>4, <2>1 DEF Live, IsDead, Shades
<1>8. \A o \in Objects : Shaded(S, o) => Live(o)'
  BY <1>5, <1>6, <1>7 DEF Shaded, Shades
<1>9. \A o \in Objects \ Strings : Live(o)' => Shaded(S, o)
  BY <1>6, <1>7 DEF Shaded
<1>10. \A o \in Objects : mark'[o] = "free" <=> mark[o] = "free"
  BY <1>1, <1>5, <1>6
<1>11. TypeOK'
  <2>1. mark' \in [Objects -> Whites' \cup {"free", "gray", "black"}]
    BY <1>2, <1>4 DEF Switched, Markings, Shades
  <2>2. /\ gray' \subseteq Tables \cup Closures \cup Threads
        /\ grayagain' \subseteq Tables \cup Threads /\ weak' \subseteq Tables
    BY <1>2 DEF Switched, Markings
  <2>3. Allocated' = Allocated
    BY <1>10 DEF Allocated
  <2>4. gray' \cup grayagain' \cup weak' \cup toSweep' \subseteq Allocated'
    BY <1>1, <2>3 DEF Switched, Allocated, Live
  <2>5. fields' \in [Tables -> SUBSET ((Values \cup {Num}) \X Values)]
    BY <1>0 DEF TypeOK, Switched, EntriesKept
  <2> QED BY <1>0, <1>4, <2>1, <2>2, <2>4, <2>5 DEF TypeOK, Switched
<1>12. \A o \in Strings \cap InFields(S, fin) : Live(o)'
  BY <1>5, <1>7 DEF Shades
<1> QED BY <1>7, <1>8, <1>9, <1>10, <1>11, <1>12

(* The heap is sound after the mark phase.                                 *)
LEMMA SwitchedHeap ==
    ASSUME IInv, gcstate = "propagate", NEW S, NEW U, Ended(S, U), NEW fin, Switched(S, U, fin)
    PROVE  HeapInv'
<1>0. TypeOK /\ Sound /\ Roots /\ FreeEmpty /\ Opened /\ HasUpval /\ Chain
  BY DEF IInv, HeapInv
<1>1. /\ \A o \in Objects : Shaded(S, o) => Live(o)
      /\ \A o \in Objects : Live(o) => Shaded(S, o) \/ S.mark[o] \in Whites
      /\ \A o \in Objects : Shaded(S, o) => \A x \in Children(o) : x \in Objects /\ Shaded(S, x)
      /\ \A t \in Tables : Shaded(S, t) /\ t \notin S.weak => ~IsWeak(t)
      /\ \A th \in Threads : resumed[th] # Nil => Shaded(S, th)
      /\ \A o \in S.grayagain \cup S.weak : o \in Objects /\ Shaded(S, o)
  BY EndedFacts
<1>2. /\ TypeOK'
      /\ \A o \in Objects : Shaded(S, o) => Live(o)'
      /\ \A o \in Objects \ Strings : Live(o)' => Shaded(S, o)
      /\ \A o \in Objects : mark'[o] = "free" <=> mark[o] = "free"
      /\ \A o \in Strings \cap InFields(S, fin) : Live(o)'
  BY SwitchedColours
<1>3. /\ UNCHANGED <<world, env, upval, open, closed, stack, running, resumed>>
      /\ gray' = {} /\ grayagain' = S.grayagain /\ weak' = S.weak
      /\ Range(tmudata') = U
      /\ \A t \in Tables : fields'[t] = IF t \in S.weak THEN EntriesKept(S, fin, t) ELSE fields[t]
  BY DEF Switched
<1>4. ASSUME NEW o \in Objects, Live(o)', o \notin Strings, NEW x, x = Nil \/ x \in Children(o)
      PROVE  Kept(x)'
  <2>1. CASE x = Nil
    BY <2>1 DEF Kept
  <2>2. CASE x \in Children(o)
    BY <1>1, <1>2, <1>4, <2>2 DEF Kept
  <2> QED BY <1>4, <2>1, <2>2
<1>5. Sound'
  <2>1. ASSUME NEW t \in Tables, Live(t)', NEW e \in fields'[t] PROVE Kept(e[1])' /\ Kept(e[2])'
    <3>0. t \in Objects /\ t \notin Strings /\ Shaded(S, t) /\ Live(t)
      BY <1>1, <1>2, <2>1, KindsDiffer DEF Objects
    <3>1. CASE t \in S.weak
      <4>1. /\ e \in fields[t] /\ ~Cleared(S, fin, e[1], TRUE) /\ ~Cleared(S, fin, e[2], FALSE)
        BY <1>3, <2>1, <3>1 DEF EntriesKept
      <4>2. Kept(e[1]) /\ Kept(e[2])
        BY <1>0, <3>0, <4>1 DEF Sound
      <4>3. e[1] \in Objects \cup {Num} /\ e[2] \in Objects
        BY <1>0, <4>1 DEF TypeOK, Values
      <4>4. e[1] \in InFields(S, fin) /\ e[2] \in InFields(S, fin)
        <5>1. e \in UNION {fields[x] : x \in S.weak}
          BY <3>1, <4>1
        <5>2. {e[1]} \cup (IF Cleared(S, fin, e[1], TRUE) THEN {} ELSE {e[2]}) \subseteq InFields(S, fin)
          BY <5>1 DEF InFields
        <5> QED BY <4>1, <5>2
      <4>5. e[1] # Nil /\ e[2] # Nil /\ e[2] # Num
        BY <4>3, KindsDiffer
      <4>6. e[1] = Num \/ Live(e[1])'
        <5>1. CASE e[1] \in Strings
          BY <1>2, <4>4, <5>1
        <5>2. CASE e[1] \notin Strings \cup {Num}
          <6>1. Shaded(S, e[1])
            BY <1>1, <4>1, <4>2, <4>3, <4>5, <5>2 DEF Cleared, Kept
          <6> QED BY <1>2, <4>3, <5>2, <6>1
        <5> QED BY <5>1, <5>2
      <4>7. Live(e[2])'
        <5>1. CASE e[2] \in Strings
          BY <1>2, <4>4, <5>1
        <5>2. CASE e[2] \notin Strings
          <6>1. Shaded(S, e[2])
            BY <1>1, <4>1, <4>2, <4>3, <4>5, <5>2 DEF Cleared, Kept
          <6> QED BY <1>2, <4>3, <6>1
        <5> QED BY <5>1, <5>2
      <4> QED BY <4>6, <4>7 DEF Kept
    <3>2. CASE t \notin S.weak
      <4>1. e \in fields[t] /\ mode[t] = {}
        BY <1>1, <1>3, <2>1, <3>0, <3>2 DEF IsWeak
      <4>2. (e[1] = Num \/ e[1] \in Children(t)) /\ (e[2] = Num \/ e[2] \in Children(t))
        BY <1>0, <4>1, ReferencesOf
      <4>3. \A x : x \in Children(t) => Live(x)'
        BY <1>1, <1>2, <3>0
      <4> QED BY <4>2, <4>3 DEF Kept
    <3> QED BY <3>1, <3>2
  <2>2. \A o \in Udatas \cup Closures : Live(o)' => Kept(env[o])'
    <3> SUFFICES ASSUME NEW o \in Udatas \cup Closures, Live(o)' PROVE Kept(env[o])'
      OBVIOUS
    <3>1. o \in Objects /\ o \notin Strings
      BY KindsDiffer DEF Objects
    <3>2. env[o] = Nil \/ env[o] \in Children(o)
      BY <1>0, <3>1, ReferencesOf
    <3>3. \A x : x = env[o] => Kept(x)'
      BY <1>4, <3>1, <3>2
    <3> QED BY <1>3, <3>3 DEF Kept, Live, IsDead
  <2>3. \A c \in Closures : Live(c)' => Kept(upval[c])'
    <3> SUFFICES ASSUME NEW c \in Closures, Live(c)' PROVE Kept(upval[c])'
      OBVIOUS
    <3>1. c \in Objects /\ c \notin Strings
      BY KindsDiffer DEF Objects
    <3>2. upval[c] = Nil \/ upval[c] \in Children(c)
      BY <1>0, <3>1, ReferencesOf
    <3>3. \A x : x = upval[c] => Kept(x)'
      BY <1>4, <3>1, <3>2
    <3> QED BY <1>3, <3>3 DEF Kept, Live, IsDead
  <2>4. \A v \in UpVals : Live(v)' => Kept(UpValue(v))'
    <3> SUFFICES ASSUME NEW v \in UpVals, Live(v)' PROVE Kept(UpValue(v))'
      OBVIOUS
    <3>1. v \in Objects /\ v \notin Strings
      BY KindsDiffer DEF Objects
    <3>2. UpValue(v) = Nil \/ UpValue(v) \in Children(v)
      BY <1>0, <3>1, ReferencesOf
    <3>3. \A x : x = UpValue(v) => Kept(x)'
      BY <1>4, <3>1, <3>2
    <3>4. UpValue(v)' = UpValue(v)
      BY <1>3 DEF UpValue
    <3> QED BY <3>3, <3>4 DEF Kept, Live, IsDead
  <2>5. \A th \in Threads : Live(th)' => Kept(resumed[th])' /\ \A s \in Slots : Kept(stack[th][s])'
    <3> SUFFICES ASSUME NEW th \in Threads, Live(th)'
                 PROVE  Kept(resumed[th])' /\ \A s \in Slots : Kept(stack[th][s])'
      OBVIOUS
    <3>1. th \in Objects /\ th \notin Strings
      BY KindsDiffer DEF Objects
    <3>2. resumed[th] = Nil \/ resumed[th] \in Children(th)
      BY <1>0, <3>1, ReferencesOf
    <3>3. \A x : x = resumed[th] => Kept(x)'
      BY <1>4, <3>1, <3>2
    <3>4. ASSUME NEW s \in Slots PROVE Kept(stack[th][s])'
      <4>1. stack[th][s] = Nil \/ stack[th][s] \in Children(th)
        BY <1>0, <3>1, ReferencesOf
      <4>2. \A x : x = stack[th][s] => Kept(x)'
        BY <1>4, <3>1, <4>1
      <4> QED BY <1>3, <4>2 DEF Kept, Live, IsDead
    <3>5. Kept(resumed[th])'
      BY <1>3, <3>3 DEF Kept, Live, IsDead
    <3> QED BY <3>4, <3>5
  <2> QED BY <2>1, <2>2, <2>3, <2>4, <2>5 DEF Sound
<1>6. Roots'
  <2>1. Main \in Objects /\ Globals \in Objects /\ running \in Objects /\ U \subseteq Objects
    BY <1>0, RootAssumption DEF TypeOK, Objects, Ended
  <2>2. Live(Main)' /\ Live(Globals)' /\ Live(running)'
    <3>1. \A o : o \in {Main, Globals, running} => Live(o)'
      BY <1>2, <2>1 DEF Ended
    <3>2. running' = running
      BY <1>3
    <3> QED BY <3>1, <3>2 DEF Live, IsDead
  <2>3. \A u \in Range(tmudata') : Live(u)'
    BY <1>2, <1>3, <2>1 DEF Ended
  <2>4. \A th \in Threads : resumed'[th] # Nil => Live(th)'
    BY <1>1, <1>2, <1>3 DEF Objects
  <2>5. \A o \in gray' \cup grayagain' \cup weak' : Live(o)'
    BY <1>1, <1>2, <1>3
  <2> QED BY <2>2, <2>3, <2>4, <2>5 DEF Roots
<1>7. FreeEmpty'
  <2>1. \A t \in Tables : fields[t] = {} => fields'[t] = {}
    BY <1>3 DEF EntriesKept
  <2> QED BY <1>0, <1>2, <1>3, <2>1 DEF FreeEmpty
<1>8. Opened'
  <2> SUFFICES ASSUME NEW v \in UpVals, open[v] # <<>>
               PROVE  closed[v] = Nil /\ v \notin toSweep' /\ mark'[open[v][1]] # "free"
    BY <1>3 DEF Opened
  <2>1. closed[v] = Nil /\ mark[open[v][1]] # "free"
    BY <1>0 DEF Opened
  <2>2. open[v][1] \in Objects
    BY <1>0 DEF TypeOK, Objects
  <2> QED BY <1>2, <2>1, <2>2 DEF Switched
<1>9. HasUpval' /\ Chain'
  <2>1. HasUpval'
    BY <1>0, <1>2, <1>3 DEF HasUpval, Objects
  <2>2. Chain'
    BY <1>0, <1>3 DEF Chain
  <2> QED BY <2>1, <2>2
<1> QED BY <1>5, <1>6, <1>7, <1>8, <1>9 DEF HeapInv

(* The atomic step. *)
LEMMA AtomicStep == IInv /\ Atomic => IInv'
<1> SUFFICES ASSUME IInv, Atomic PROVE IInv'
  OBVIOUS
<1>0. /\ TypeOK /\ Opened /\ gcstate = "propagate" /\ gray = {}
  BY DEF IInv, HeapInv, Atomic
<1>1. PICK R : R = MarkedAgain
  OBVIOUS
<1>2. PICK D : D = Separated(R)
  OBVIOUS
<1>3. PICK tmu : tmu = tmudata \o SetToSeq(D)
  OBVIOUS
<1>4. PICK S : S = MarkedFor(R, Range(tmu))
  OBVIOUS
<1>5. PICK fin : fin = finalized \cup D
  OBVIOUS
<1>6. PICK U : U = Range(tmu)
  OBVIOUS
<1>7. D \subseteq Udatas /\ tmu \in Seq(Udatas) /\ Ended(S, U)
  BY <1>0, <1>1, <1>2, <1>3, <1>4, <1>6, AtomicMarking
<1>8. S \in Markings /\ Good(S) /\ S.gray = {}
  BY <1>7 DEF Ended, Stage, Good
<1>9. /\ finalized' = fin /\ tmudata' = tmu
      /\ Adopt([S EXCEPT !.mark = [o \in Objects |-> IF o \in Strings \cap InFields(S, fin) THEN "gray" ELSE @[o]]])
      /\ fields' = [t \in Tables |-> IF t \in S.weak THEN EntriesKept(S, fin, t) ELSE fields[t]]
      /\ white' = OtherWhite
      /\ toSweep' = {o \in Allocated : o \in UpVals => open[o] = <<>>} \ U
      /\ gcstate' = "sweepstring"
      /\ doomed' \subseteq doomed
      /\ UNCHANGED <<world, env, upval, open, closed, stack, running, resumed, calls>>
  BY <1>1, <1>2, <1>3, <1>4, <1>5, <1>6 DEF Atomic
<1>10. Switched(S, U, fin)
  <2>1. /\ mark' = [o \in Objects |-> IF o \in Strings \cap InFields(S, fin) THEN "gray" ELSE S.mark[o]]
        /\ gray' = {} /\ grayagain' = S.grayagain /\ weak' = S.weak
    BY <1>8, <1>9 DEF Adopt, Markings
  <2>2. finalized' \subseteq Udatas /\ doomed' \subseteq Objects
    BY <1>0, <1>5, <1>7, <1>9 DEF TypeOK
  <2>3. tmudata' \in Seq(Udatas) /\ Range(tmudata') = U
    BY <1>6, <1>7, <1>9
  <2> QED BY <1>9, <2>1, <2>2, <2>3 DEF Switched
<1>11. /\ TypeOK'
       /\ \A o \in Objects : mark'[o] = "free" <=> mark[o] = "free"
  BY <1>0, <1>7, <1>10, SwitchedColours
<1>12. HeapInv'
  BY <1>0, <1>7, <1>10, SwitchedHeap
<1>13. ColourInv'
  <2>0. /\ gcstate' = "sweepstring" /\ Range(tmudata') = U
        /\ toSweep' = {o \in Allocated : o \in UpVals => open[o] = <<>>} \ U
        /\ open' = open /\ world' = world
    BY <1>10 DEF Switched
  <2>1. Coloured'
    <3>1. \A o : StaysGray(o)' = StaysGray(o) /\ IsOpen(o)' = IsOpen(o)
      BY <2>0 DEF StaysGray, IsWeak, IsOpen, mode
    <3>2. ASSUME NEW o \in Objects
          PROVE  /\ mark'[o] = "black" => ~StaysGray(o) /\ ~IsOpen(o)
                 /\ o \in Udatas => mark'[o] # "gray"
      <4>1. CASE o \in Strings \cap InFields(S, fin)
        BY <1>10, <4>1, KindsDiffer DEF Switched
      <4>2. CASE o \notin Strings \cap InFields(S, fin)
        BY <1>8, <1>10, <4>2 DEF Switched, Good
      <4> QED BY <4>1, <4>2
    <3> QED BY <3>1, <3>2 DEF Coloured
  <2>2. TriColour'
    BY <2>0 DEF TriColour
  <2>3. Swept'
    <3>1. ASSUME NEW o \in Objects
          PROVE  mark'[o] \in {"free", white'} \/ o \in U \/ Unswept(o)'
      <4>1. CASE mark[o] = "free"
        BY <1>11, <4>1
      <4>2. CASE mark[o] # "free" /\ o \notin U /\ o \in UpVals /\ open[o] # <<>>
        <5>1. open[o][1] \in Threads /\ mark[open[o][1]] # "free"
          BY <1>0, <4>2 DEF Opened, TypeOK
        <5>2. open[o][1] \in Objects /\ open[o][1] \notin U /\ open[o][1] \notin UpVals
          BY <1>7, <5>1, KindsDiffer DEF Ended, Objects
        <5>3. open[o][1] \in toSweep'
          BY <2>0, <5>1, <5>2 DEF Allocated
        <5> QED BY <2>0, <4>2, <5>3 DEF Unswept
      <4>3. CASE mark[o] # "free" /\ o \notin U /\ (o \in UpVals => open[o] = <<>>)
        BY <2>0, <4>3 DEF Unswept, Allocated
      <4> QED BY <4>1, <4>2, <4>3
    <3> QED BY <2>0, <3>1 DEF Swept
  <2> QED BY <2>1, <2>2, <2>3 DEF ColourInv
<1> QED BY <1>11, <1>12, <1>13 DEF IInv

-----------------------------------------------------------------------------
(* Every step preserves the invariant. *)

(* Every step of the program preserves the invariant.                      *)
LEMMA ProgramStep ==
    ASSUME IInv, Program
    PROVE  IInv'
<1>0. /\ NextSlot \subseteq Slots
      /\ \A th \in Threads : \A s \in Slots : stack[th][s] \in Values \cup {Nil}
      /\ running \in Threads
  BY DEF NextSlot, IInv, TypeOK
<1>1. ASSUME NEW s \in NextSlot, NEW o \in Creatable \cap (Tables \cup Udatas \cup Threads), New(o, s)
      PROVE  IInv'
  BY <1>0, <1>1, NewStep
<1>2. ASSUME NEW s \in NextSlot, NEW o \in Creatable \cap Strings, Intern(o, s) PROVE IInv'
  BY <1>0, <1>2, InternStep
<1>3. ASSUME NEW s \in NextSlot, NEW c \in Creatable \cap Closures, NEW r \in Slots, NewClosure(c, s, r)
      PROVE  IInv'
  BY <1>0, <1>3, NewClosureStep
<1>4. ASSUME NEW s \in NextSlot, NEW o \in HeldObjects, NEW x \in Readable(o), Read(s, x) PROVE IInv'
  BY <1>0, <1>4, ReadStep
<1>5. ASSUME NEW s \in Slots, NEW r \in Slots, Resume(s, r) PROVE IInv'
  BY <1>5, ResumeStep
<1>6. ASSUME NEW s \in Slots, Drop(s) \/ Yield(s) \/ CloseUpvals(s) PROVE IInv'
  BY <1>6, DropStep, YieldStep, CloseUpvalsStep
<1>7. ASSUME NEW t \in HeldObjects \cap Tables, ClearField(t) PROVE IInv'
  BY <1>7, ClearFieldStep
<1>8. ASSUME NEW t \in HeldObjects \cap Tables, NEW k \in (HeldObjects \cup {Num}) \cap world.keys,
             NEW x \in HeldObjects, SetField(t, k, x)
      PROVE  IInv'
  BY <1>8, SetFieldStep
<1>9. ASSUME NEW o \in HeldObjects \cap (Udatas \cup Closures),
             NEW t \in (HeldObjects \cap Tables) \cup {Globals}, SetEnv(o, t)
      PROVE  IInv'
  BY <1>9, SetEnvStep
<1>10. ASSUME NEW c \in HeldObjects \cap Closures, NEW x \in HeldObjects, SetUpval(c, x) PROVE IInv'
  BY <1>10, SetUpvalStep
<1> QED BY <1>1, <1>2, <1>3, <1>4, <1>5, <1>6, <1>7, <1>8, <1>9, <1>10 DEF Program

(* A step that changes nothing preserves the invariant.                    *)
LEMMA StutterStep ==
    ASSUME IInv, UNCHANGED vars
    PROVE  IInv'
<1>1. UNCHANGED <<world, gcstate, white, mark, gray, grayagain, weak, tmudata, finalized, toSweep,
                  fields, env, upval, open, closed, stack, running, resumed, calls, doomed>>
  BY DEF vars, lists, heap
<1>2. /\ OtherWhite' = OtherWhite /\ Allocated' = Allocated /\ mode' = mode
  BY <1>1 DEF OtherWhite, Allocated, mode
<1>3. /\ \A o : Live(o)' = Live(o) /\ Kept(o)' = Kept(o) /\ UpValue(o)' = UpValue(o)
      /\ \A o : Children(o)' = Children(o) /\ Unswept(o)' = Unswept(o)
      /\ \A o : StaysGray(o)' = StaysGray(o) /\ IsOpen(o)' = IsOpen(o)
  BY <1>1, <1>2 DEF Live, IsDead, Kept, UpValue, Children, Unswept, StaysGray, IsWeak, IsOpen
<1>4. TypeOK'
  BY <1>1, <1>2 DEF IInv, TypeOK
<1>5. Sound' /\ Roots' /\ FreeEmpty' /\ Opened' /\ HasUpval' /\ Chain'
  BY <1>1, <1>3 DEF IInv, HeapInv, Sound, Roots, FreeEmpty, Opened, HasUpval, Chain, Kept, Live, IsDead
<1>6. Coloured' /\ TriColour' /\ Swept'
  BY <1>1, <1>2, <1>3 DEF IInv, ColourInv, Coloured, TriColour, Swept
<1> QED BY <1>4, <1>5, <1>6 DEF IInv, HeapInv, ColourInv

(* The invariant holds in every state of every behaviour.                  *)
THEOREM Invariance == Spec => []IInv
<1>1. Init => IInv
  BY InitInv
<1>2. IInv /\ [Next]_vars => IInv'
  <2> SUFFICES ASSUME IInv, [Next]_vars PROVE IInv'
    OBVIOUS
  <2>1. CASE GCStep
    BY <2>1, MarkRootStep, PropagateMarkStep, AtomicStep, SweepStringStep, SweepStepStep, CallGCTMStep,
       EndCycleStep DEF GCStep
  <2>2. CASE FullGC
    BY <2>2, FullGCStep
  <2>3. CASE Program
    BY <2>3, ProgramStep
  <2>4. CASE UNCHANGED vars
    BY <2>4, StutterStep
  <2> QED BY <2>1, <2>2, <2>3, <2>4 DEF Next
<1> QED BY <1>1, <1>2, PTL DEF Spec

(* Every variable keeps its type; what a list of the collector holds is    *)
(* not free.                                                               *)
THEOREM TypeCorrect == Spec => []TypeOK
<1>1. IInv => TypeOK
  BY DEF IInv
<1> QED BY <1>1, Invariance, PTL

(* What the program reaches, through weak tables too, is not free and not  *)
(* about to be freed, whatever it does between the steps of the collector. *)
THEOREM NeverDangling == Spec => []NoDangling
<1>1. IInv => NoDangling
  BY InvNoDangling
<1> QED BY <1>1, Invariance, PTL

(* During the mark phase nothing black refers to what is white, and        *)
(* between collections everything is of the current white, but for the     *)
(* userdata that wait for their finalizer.                                 *)
THEOREM ColoursAreRight == Spec => []ColoursTell
<1>1. IInv => ColoursTell
  BY InvColoursTell
<1> QED BY <1>1, Invariance, PTL

=============================================================================
