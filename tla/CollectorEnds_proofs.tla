----------------------- MODULE CollectorEnds_proofs ------------------------
(***************************************************************************)
(* What becomes of garbage: a userdata is finalized once and before it is  *)
(* freed, and what was garbage when a collection began is gone when it has *)
(* swept, for every finite set of objects, every world and every order of  *)
(* collector steps, barriers and program steps.                            *)
(***************************************************************************)
EXTENDS Collector_proofs

-----------------------------------------------------------------------------
(* Userdata are finalized once. *)

(* The finalizer of a userdata that has been separated is called unless it *)
(* still waits in tmudata, once; what is about to be freed has been        *)
(* finalized.                                                              *)
Finalizing ==
    /\ Range(tmudata) \subseteq finalized
    /\ \A u \in finalized : mark[u] # "free"
    /\ \A i, j \in 1..Len(tmudata) : tmudata[i] = tmudata[j] => i = j
    /\ \A u \in Udatas : calls[u] = IF u \in finalized \ Range(tmudata) THEN 1 ELSE 0
    /\ \A u \in Udatas : IsDead(u) => u \in finalized \ Range(tmudata)

(* What a step may do to the finalizers. *)
CallsOnce ==
    \A u \in Udatas :
        /\ calls'[u] <= 1
        /\ mark[u] # "free" /\ mark'[u] = "free" => calls[u] = 1

(* At the start no userdata is there, let alone finalized.                 *)
LEMMA InitFinalizing == Init => Finalizing
<1> SUFFICES ASSUME NEW w \in Worlds, StartIn(w) PROVE Finalizing
  BY DEF Init
<1>1. Range(tmudata) = {}
  BY DEF StartIn, Range
<1>2. \A u \in Udatas : ~IsDead(u)
  BY DEF StartIn, IsDead, OtherWhite, Objects
<1> QED BY <1>1, <1>2 DEF StartIn, Finalizing

(* As long as no userdata is freed or dies, and none is finalized, all     *)
(* stays as it is.                                                         *)
LEMMA NoneFinalized ==
    ASSUME TypeOK, Finalizing, UNCHANGED <<white, tmudata, finalized, calls>>,
           \A u \in Udatas : mark'[u] = mark[u] \/ mark'[u] \in {white} \cup Shades
    PROVE  Finalizing' /\ CallsOnce
<1>1. OtherWhite' = OtherWhite /\ Range(tmudata)' = Range(tmudata)
  BY DEF OtherWhite
<1>2. /\ Whites = {white, OtherWhite} /\ white # OtherWhite
      /\ "gray" \notin Whites /\ "black" \notin Whites /\ "free" \notin Whites
  BY TwoWhites
<1>3. \A u \in Udatas : (IsDead(u)' => IsDead(u)) /\ (mark[u] # "free" => mark'[u] # "free")
  BY <1>1, <1>2 DEF IsDead, Shades
<1>4. Finalizing'
  <2>1. finalized \subseteq Udatas
    BY DEF TypeOK
  <2> QED BY <1>1, <1>3, <2>1 DEF Finalizing
<1>5. CallsOnce
  BY <1>3 DEF CallsOnce, Finalizing
<1> QED BY <1>4, <1>5

(* Marking turns what is white gray or black.                              *)
LEMMA MarkedColours ==
    ASSUME TypeOK, NEW S \in Markings, NEW X \in SUBSET Objects, NEW T, T = Marked(S, X)
    PROVE  \A o \in Objects : T.mark[o] = S.mark[o] \/ T.mark[o] \in Shades
<1>1. \A o \in Objects : T.mark[o] # S.mark[o] => S.mark[o] \in Whites /\ Turned(S, T, o)
  BY MarkedEffect
<1> QED BY <1>1 DEF Turned

(* A sweep frees userdata that have been finalized.                        *)
LEMMA SweepFinalizing ==
    ASSUME IInv, Finalizing, NEW X, Sweep(X)
    PROVE  Finalizing' /\ CallsOnce
<1>1. PICK dead : dead = Dies(X)
  OBVIOUS
<1>2. /\ mark' = [o \in Objects |->
              IF o \in dead THEN "free" ELSE IF o \in Visited(X) THEN white ELSE mark[o]]
      /\ calls' = [u \in Udatas |-> IF u \in dead THEN 0 ELSE calls[u]]
      /\ finalized' = finalized \ dead
      /\ UNCHANGED <<white, tmudata>>
      /\ \A u \in dead : IsDead(u)
  BY <1>1 DEF Sweep, Dies
<1>3. TypeOK /\ OtherWhite' = OtherWhite /\ Range(tmudata)' = Range(tmudata) /\ Udatas \subseteq Objects
  BY <1>2 DEF IInv, OtherWhite, Objects
<1>4. white # OtherWhite /\ white # "free" /\ OtherWhite # "free" /\ finalized \subseteq Udatas
  BY <1>3, TwoWhites DEF TypeOK, Whites
<1>5. \A u \in dead \cap Udatas : u \in finalized /\ u \notin Range(tmudata) /\ calls[u] = 1
  BY <1>2 DEF Finalizing
<1>6. Range(tmudata) \subseteq Udatas
  BY <1>3 DEF TypeOK, Range
<1>7. \A u \in Udatas : IsDead(u)' => IsDead(u) /\ u \notin dead
  BY <1>2, <1>3, <1>4 DEF IsDead
<1>8. Finalizing'
  <2>1. Range(tmudata)' \subseteq finalized'
    BY <1>2, <1>3, <1>5, <1>6 DEF Finalizing
  <2>2. \A u \in finalized' : mark'[u] # "free"
    BY <1>2, <1>3, <1>4 DEF Finalizing
  <2>3. \A i, j \in 1..Len(tmudata') : tmudata'[i] = tmudata'[j] => i = j
    BY <1>2 DEF Finalizing
  <2>4. \A u \in Udatas : calls'[u] = IF u \in finalized' \ Range(tmudata)' THEN 1 ELSE 0
    BY <1>2, <1>3, <1>5 DEF Finalizing
  <2>5. \A u \in Udatas : IsDead(u)' => u \in finalized' \ Range(tmudata)'
    BY <1>2, <1>3, <1>7 DEF Finalizing
  <2> QED BY <2>1, <2>2, <2>3, <2>4, <2>5 DEF Finalizing
<1>9. CallsOnce
  <2> SUFFICES ASSUME NEW u \in Udatas
               PROVE  /\ calls'[u] <= 1
                      /\ mark[u] # "free" /\ mark'[u] = "free" => calls[u] = 1
    BY DEF CallsOnce
  <2>1. calls'[u] <= 1
    BY <1>2 DEF Finalizing
  <2>2. mark[u] # "free" /\ mark'[u] = "free" => u \in dead
    BY <1>2, <1>3, <1>4
  <2> QED BY <1>5, <2>1, <2>2
<1> QED BY <1>8, <1>9

(* The first userdata of the queue is finalized, and leaves it.            *)
LEMMA CallFinalizing ==
    ASSUME IInv, Finalizing, CallGCTM
    PROVE  Finalizing' /\ CallsOnce
<1>1. PICK u : u = Head(tmudata)
  OBVIOUS
<1>0. /\ TypeOK /\ Roots /\ tmudata # <<>> /\ tmudata' = Tail(tmudata)
      /\ mark' = [mark EXCEPT ![u] = white]
      /\ calls' = [calls EXCEPT ![u] = @ + 1]
      /\ UNCHANGED <<white, finalized>>
  BY <1>1 DEF IInv, HeapInv, CallGCTM
<1>2. /\ tmudata \in Seq(Udatas) /\ Len(tmudata) \in Nat \ {0} /\ u = tmudata[1]
      /\ tmudata' \in Seq(Udatas) /\ Len(tmudata') = Len(tmudata) - 1
      /\ \A i \in 1..Len(tmudata') : tmudata'[i] = tmudata[i + 1]
  BY <1>0, <1>1 DEF TypeOK
<1>3. u \in Range(tmudata) /\ Range(tmudata)' \subseteq Range(tmudata) /\ Range(tmudata) \subseteq {u} \cup Range(tmudata)'
  BY <1>0, <1>1, <1>2, HeadAndTail
<1>4. \A i, j \in 1..Len(tmudata) : tmudata[i] = tmudata[j] => i = j
  BY DEF Finalizing
<1>5. u \notin Range(tmudata)'
  <2> SUFFICES ASSUME NEW i \in 1..Len(tmudata'), tmudata'[i] = u PROVE FALSE
    BY <1>2 DEF Range
  <2>1. i + 1 \in 1..Len(tmudata) /\ 1 \in 1..Len(tmudata) /\ i + 1 # 1 /\ tmudata[i + 1] = tmudata[1]
    BY <1>2
  <2> QED BY <2>1, <1>4
<1>6. u \in Udatas /\ u \in Objects /\ u \in finalized /\ calls[u] = 0 /\ Udatas \subseteq Objects
  BY <1>0, <1>2, <1>3 DEF Finalizing, TypeOK, Objects
<1>7. white # OtherWhite /\ white # "free" /\ OtherWhite' = OtherWhite /\ finalized \subseteq Udatas
  BY <1>0, TwoWhites DEF OtherWhite, TypeOK, Whites
<1>8. /\ mark'[u] = white /\ \A x \in Objects : x # u => mark'[x] = mark[x]
      /\ calls'[u] = 1 /\ \A x \in Udatas : x # u => calls'[x] = calls[x]
  BY <1>0, <1>6 DEF TypeOK
<1>9. Finalizing'
  <2>1. Range(tmudata)' \subseteq finalized'
    BY <1>0, <1>3 DEF Finalizing
  <2>2. \A x \in finalized' : mark'[x] # "free"
    BY <1>0, <1>6, <1>7, <1>8 DEF Finalizing
  <2>3. \A i, j \in 1..Len(tmudata') : tmudata'[i] = tmudata'[j] => i = j
    <3> SUFFICES ASSUME NEW i \in 1..Len(tmudata'), NEW j \in 1..Len(tmudata'), tmudata'[i] = tmudata'[j]
                 PROVE  i = j
      OBVIOUS
    <3>1. i + 1 \in 1..Len(tmudata) /\ j + 1 \in 1..Len(tmudata) /\ tmudata[i + 1] = tmudata[j + 1]
      BY <1>2
    <3>2. i + 1 = j + 1
      BY <3>1, <1>4
    <3> QED BY <3>2
  <2>4. \A x \in Udatas : calls'[x] = IF x \in finalized' \ Range(tmudata)' THEN 1 ELSE 0
    BY <1>0, <1>3, <1>5, <1>6, <1>8 DEF Finalizing
  <2>5. \A x \in Udatas : IsDead(x)' => x \in finalized' \ Range(tmudata)'
    BY <1>0, <1>3, <1>6, <1>7, <1>8 DEF Finalizing, IsDead
  <2> QED BY <2>1, <2>2, <2>3, <2>4, <2>5 DEF Finalizing
<1>10. CallsOnce
  <2>1. \A x \in Udatas : calls'[x] <= 1
    BY <1>8 DEF Finalizing
  <2>2. \A x \in Udatas : mark[x] # "free" => mark'[x] # "free"
    BY <1>6, <1>7, <1>8
  <2> QED BY <2>1, <2>2 DEF CallsOnce
<1> QED BY <1>9, <1>10

(* A queue without repetitions, and a set of others put behind it.         *)
NoRepeats(q) == \A i, j \in 1..Len(q) : q[i] = q[j] => i = j
Behind(q, D) == q \o SetToSeq(D)

(* A set that is put behind a queue of others repeats nothing.             *)
LEMMA QueuedOnce ==
    ASSUME NEW D \in SUBSET Udatas, NEW q \in Seq(Udatas), NEW r, r = Behind(q, D),
           NoRepeats(q), Range(q) \cap D = {}
    PROVE  NoRepeats(r)
<1> USE DEF NoRepeats, Behind
<1>1. IsFiniteSet(D)
  <2>1. D \subseteq Objects
    BY DEF Objects
  <2> QED BY <2>1, SizeAssumption, FS_Subset
<1>2. PICK n : n = Cardinality(D)
  OBVIOUS
<1>3. n \in Nat /\ ExistsBijection(1..n, D)
  BY <1>1, <1>2, FS_CardinalityType
<1>4. PICK f \in [1..n -> D] : IsInjective(f)
  <2>1. PICK f : f \in Bijection(1..n, D)
    BY <1>3 DEF ExistsBijection
  <2> QED BY <2>1 DEF Bijection, Injection
<1>5. PICK d : d = SetToSeq(D)
  OBVIOUS
<1>6. d \in [1..n -> D] /\ IsInjective(d)
  BY <1>2, <1>4, <1>5 DEF SetToSeq
<1>7. d \in Seq(Udatas) /\ Len(d) = n
  BY <1>3, <1>6
<1>8. r = q \o d /\ Len(r) = Len(q) + n /\ Len(q) \in Nat
  BY <1>5, <1>7
<1>9. \A i \in 1..Len(r) : \/ i \in 1..Len(q) /\ r[i] = q[i]
                           \/ i - Len(q) \in 1..n /\ r[i] = d[i - Len(q)]
  BY <1>3, <1>7, <1>8
<1>10. \A i \in 1..Len(q) : q[i] \notin D
  BY DEF Range
<1>11. \A i, j \in 1..n : d[i] = d[j] => i = j
  BY <1>6 DEF IsInjective
<1> SUFFICES ASSUME NEW i \in 1..Len(r), NEW j \in 1..Len(r), r[i] = r[j] PROVE i = j
  OBVIOUS
<1>12. CASE i \in 1..Len(q) /\ r[i] = q[i]
  <2>1. j \in 1..Len(q) /\ r[j] = q[j]
    BY <1>6, <1>9, <1>10, <1>12
  <2> QED BY <1>12, <2>1
<1>13. CASE i - Len(q) \in 1..n /\ r[i] = d[i - Len(q)]
  <2>1. j - Len(q) \in 1..n /\ r[j] = d[j - Len(q)]
    BY <1>6, <1>9, <1>10, <1>13
  <2>2. i - Len(q) = j - Len(q)
    BY <1>11, <1>13, <2>1
  <2> QED BY <1>8, <2>2
<1> QED BY <1>9, <1>12, <1>13

(* The atomic step separates what died and has not been separated before;  *)
(* what it leaves to the sweep has been finalized.                         *)
LEMMA AtomicFinalizing ==
    ASSUME IInv, Finalizing, Atomic
    PROVE  Finalizing' /\ CallsOnce
<1>0. /\ TypeOK /\ gcstate = "propagate" /\ gray = {}
  BY DEF IInv, Atomic
<1>1. PICK R : R = MarkedAgain
  OBVIOUS
<1>2. PICK D : D = Separated(R)
  OBVIOUS
<1>3. PICK tmu : tmu = tmudata \o SetToSeq(D)
  OBVIOUS
<1>4. PICK S : S = MarkedFor(R, Range(tmu))
  OBVIOUS
<1>5. PICK fin : fin = finalized \cup D
  OBVIOUS
<1>6. /\ D \subseteq Udatas /\ tmu \in Seq(Udatas) /\ Ended(S, Range(tmu))
      /\ Good(R) /\ Grown(R, S) /\ Range(tmu) = Range(tmudata) \cup D
  BY <1>0, <1>1, <1>2, <1>3, <1>4, AtomicMarking
<1>7. S \in Markings
  BY <1>6 DEF Ended, Stage, Good
<1>8. /\ finalized' = fin /\ tmudata' = tmu /\ white' = OtherWhite /\ calls' = calls
      /\ Adopt([S EXCEPT !.mark = [o \in Objects |-> IF o \in Strings \cap InFields(S, fin) THEN "gray" ELSE @[o]]])
  BY <1>1, <1>2, <1>3, <1>4, <1>5 DEF Atomic
<1>9. \A u \in Udatas : u \in Objects /\ mark'[u] = S.mark[u]
  <2>1. mark' = [o \in Objects |-> IF o \in Strings \cap InFields(S, fin) THEN "gray" ELSE S.mark[o]]
    BY <1>7, <1>8 DEF Adopt, Markings
  <2> QED BY <2>1, KindsDiffer DEF Objects
<1>10. /\ \A o \in Objects : S.mark[o] \in {"free", white} \cup Shades
       /\ \A o \in Objects : S.mark[o] = "free" <=> mark[o] = "free"
  BY <1>0, <1>6, EndedFacts
<1>11. /\ Whites = {white, OtherWhite} /\ white # OtherWhite /\ "free" \notin Whites
       /\ "gray" \notin Whites /\ "black" \notin Whites /\ OtherWhite' = white
  BY <1>0, <1>8, TwoWhites DEF OtherWhite, TypeOK, Whites
<1>12. D \cap finalized = {} /\ \A u \in D : mark[u] # "free"
  BY <1>2 DEF Separated, Allocated
<1>13. Range(tmudata) \subseteq finalized /\ finalized \subseteq Udatas
  BY <1>0 DEF Finalizing, TypeOK
<1>14. ASSUME NEW u \in Udatas, IsDead(u)' PROVE u \in fin \ Range(tmu)
  <2>1. u \in Objects /\ S.mark[u] = white
    BY <1>9, <1>11, <1>14 DEF IsDead
  <2>2. ~Shaded(S, u)
    BY <1>11, <2>1 DEF Shaded, Shades
  <2>3. u \notin Range(tmu) /\ ~Shaded(R, u)
    BY <1>6, <2>1, <2>2 DEF Ended, Grown
  <2>4. mark[u] # "free"
    BY <1>10, <1>11, <2>1
  <2>5. R.mark[u] \in Whites
    BY <1>6, <2>1, <2>3, <2>4 DEF Good, Markings, Shaded
  <2>6. u \in finalized \/ u \in D
    BY <1>2, <2>1, <2>4, <2>5 DEF Separated, Allocated
  <2> QED BY <1>5, <2>3, <2>6
<1>15. Finalizing'
  <2>1. Range(tmudata)' \subseteq finalized'
    BY <1>5, <1>6, <1>8, <1>13
  <2>2. \A u \in finalized' : mark'[u] # "free"
    BY <1>5, <1>6, <1>8, <1>9, <1>10, <1>12, <1>13 DEF Finalizing
  <2>3. \A i, j \in 1..Len(tmudata') : tmudata'[i] = tmudata'[j] => i = j
    <3>0. PICK q : q = tmudata
      OBVIOUS
    <3>1. q \in Seq(Udatas) /\ D \in SUBSET Udatas /\ Range(q) \cap D = {} /\ tmu = Behind(q, D)
      BY <1>0, <1>3, <1>6, <1>12, <1>13, <3>0 DEF TypeOK, Behind
    <3>2. NoRepeats(q)
      BY <3>0 DEF Finalizing, NoRepeats
    <3>3. NoRepeats(tmu)
      BY <3>1, <3>2, QueuedOnce
    <3> QED BY <1>8, <3>3 DEF NoRepeats
  <2>4. \A u \in Udatas : calls'[u] = IF u \in finalized' \ Range(tmudata)' THEN 1 ELSE 0
    BY <1>5, <1>6, <1>8, <1>12, <1>13 DEF Finalizing
  <2>5. \A u \in Udatas : IsDead(u)' => u \in finalized' \ Range(tmudata)'
    BY <1>8, <1>14
  <2> QED BY <2>1, <2>2, <2>3, <2>4, <2>5 DEF Finalizing
<1>16. CallsOnce
  BY <1>8, <1>9, <1>10 DEF CallsOnce, Finalizing
<1> QED BY <1>15, <1>16

(* The steps that leave the queue and the flags alone.                     *)
LEMMA MarkRootFinalizing ==
    ASSUME IInv, Finalizing, MarkRoot \/ PropagateMark \/ EndCycle
    PROVE  Finalizing' /\ CallsOnce
<1>0. TypeOK /\ UNCHANGED <<white, tmudata, finalized, calls>> /\ Udatas \subseteq Objects
  BY DEF IInv, MarkRoot, PropagateMark, EndCycle, Objects
<1>1. CASE MarkRoot
  <2>1. PICK S : S = [Marking EXCEPT !.gray = {}, !.grayagain = {}, !.weak = {}]
    OBVIOUS
  <2>2. PICK T : T = Marked(S, {Main, Globals})
    OBVIOUS
  <2>3. S \in Markings /\ S.mark = mark
    BY <1>0, <2>1 DEF Marking, Markings, TypeOK, Shades
  <2>4. {Main, Globals} \in SUBSET Objects
    BY RootAssumption DEF Objects
  <2>5. mark' = T.mark
    BY <1>1, <2>1, <2>2 DEF MarkRoot, Adopt
  <2>6. \A o \in Objects : T.mark[o] = S.mark[o] \/ T.mark[o] \in Shades
    BY <1>0, <2>2, <2>3, <2>4, MarkedColours
  <2> QED BY <1>0, <2>3, <2>5, <2>6, NoneFinalized
<1>2. CASE PropagateMark
  <2>1. PICK o \in gray : Adopt(Propagated(Marking, o))
    BY <1>2 DEF PropagateMark
  <2>2. PICK S : S = [mark |-> [mark EXCEPT ![o] = IF StaysGray(o) THEN "gray" ELSE "black"],
                      gray |-> gray \ {o},
                      grayagain |-> grayagain \cup ({o} \cap Threads),
                      weak |-> weak \cup WeakIn({o})]
    OBVIOUS
  <2>3. PICK T : T = Marked(S, Children(o))
    OBVIOUS
  <2>4. o \in Objects /\ Children(o) \in SUBSET Objects
    BY <1>0, ChildrenType DEF TypeOK, Objects
  <2>5. S \in Markings /\ S.mark = [mark EXCEPT ![o] = IF StaysGray(o) THEN "gray" ELSE "black"]
    <3>1. [mark EXCEPT ![o] = IF StaysGray(o) THEN "gray" ELSE "black"] \in [Objects -> Whites \cup Shades \cup {"free"}]
      BY <1>0 DEF TypeOK, Shades
    <3> QED BY <2>2, <3>1, <1>0 DEF Markings, WeakIn, IsWeak, TypeOK
  <2>6. mark' = T.mark
    BY <2>1, <2>2, <2>3 DEF Propagated, Marking, Adopt
  <2>7. \A x \in Objects : T.mark[x] = S.mark[x] \/ T.mark[x] \in Shades
    BY <1>0, <2>3, <2>4, <2>5, MarkedColours
  <2>8. \A x \in Objects : S.mark[x] = mark[x] \/ S.mark[x] \in Shades
    BY <1>0, <2>4, <2>5 DEF TypeOK, Shades
  <2> QED BY <1>0, <2>6, <2>7, <2>8, NoneFinalized
<1>3. CASE EndCycle
  BY <1>0, <1>3, NoneFinalized DEF EndCycle
<1> QED BY <1>1, <1>2, <1>3

(* What luaF_close does: dead upvalues of the level are freed, gray ones    *)
(* linked, and those that stay keep their value.                           *)
Closes(leaving, dead, linked, S, T, level) ==
    /\ leaving = {v \in UpVals : open[v] # <<>> /\ open[v][1] = running /\ open[v][2] >= level}
    /\ dead = {v \in leaving : IsDead(v)}
    /\ linked = {v \in leaving : mark[v] = "gray"}
    /\ Closing(dead, linked, S, T) /\ After(dead, linked, T) /\ Adopt(T)
    /\ open' = [v \in UpVals |-> IF v \in leaving THEN <<>> ELSE open[v]]
    /\ closed' = [v \in UpVals |-> IF v \in leaving \ dead THEN UpValue(v) ELSE closed[v]]
    /\ stack' = [stack EXCEPT ![running] = [s \in Slots |-> IF s >= level THEN Nil ELSE Held(s)]]
    /\ doomed' = doomed \ dead
    /\ UNCHANGED <<Fixed, fields, env, upval, running, resumed>>

(* The operation that the model has does so.                               *)
LEMMA CloseUpvalsCloses ==
    ASSUME IInv, NEW level \in Slots, CloseUpvals(level)
    PROVE  \E leaving, dead, linked, S, T : Closes(leaving, dead, linked, S, T, level)
<1>1. PICK leaving : leaving = {v \in UpVals : open[v] # <<>> /\ open[v][1] = running /\ open[v][2] >= level}
  OBVIOUS
<1>2. PICK dead : dead = {v \in leaving : IsDead(v)}
  OBVIOUS
<1>3. PICK linked : linked = {v \in leaving : mark[v] = "gray"}
  OBVIOUS
<1>4. PICK S : S = [Marking EXCEPT !.mark = [v \in Objects |->
               IF v \in dead THEN "free"
               ELSE IF v \in linked THEN IF gcstate = "propagate" THEN "black" ELSE white ELSE mark[v]]]
  OBVIOUS
<1>5. PICK T : T = IF gcstate = "propagate" THEN Marked(S, {UpValue(v) : v \in linked} \ {Nil}) ELSE S
  OBVIOUS
<1>6. dead \in SUBSET UpVals /\ linked \in SUBSET UpVals
  BY <1>1, <1>2, <1>3
<1>7. Closing(dead, linked, S, T)
  BY <1>4, <1>5 DEF Closing
<1>8. \A v \in dead : mark[v] = OtherWhite /\ open[v] # <<>>
  BY <1>1, <1>2 DEF IsDead
<1>9. \A v \in linked : mark[v] = "gray" /\ open[v] # <<>>
  BY <1>1, <1>3
<1>10. After(dead, linked, T)
  BY <1>6, <1>7, <1>8, <1>9, ClosedColours
<1>11. Adopt(T)
  BY <1>1, <1>2, <1>3, <1>4, <1>5 DEF CloseUpvals
<1>12. /\ open' = [v \in UpVals |-> IF v \in leaving THEN <<>> ELSE open[v]]
       /\ closed' = [v \in UpVals |-> IF v \in leaving \ dead THEN UpValue(v) ELSE closed[v]]
       /\ stack' = [stack EXCEPT ![running] = [s \in Slots |-> IF s >= level THEN Nil ELSE Held(s)]]
       /\ doomed' = doomed \ dead
       /\ UNCHANGED <<Fixed, fields, env, upval, running, resumed>>
  BY <1>1, <1>2 DEF CloseUpvals
<1>13. Closes(leaving, dead, linked, S, T, level)
  BY <1>1, <1>2, <1>3, <1>7, <1>10, <1>11, <1>12 DEF Closes
<1> QED BY <1>13

(* A closure on the stack has an upvalue, which lives.                     *)
LEMMA UpvalThere ==
    ASSUME IInv, NEW c \in HeldObjects \cap Closures
    PROVE  upval[c] \in UpVals /\ upval[c] \in Objects /\ Live(upval[c])
<1>1. Live(c) /\ TypeOK /\ HeapInv
  BY HeldLives DEF IInv
<1>2. upval[c] # Nil /\ upval[c] \in UpVals \cup {Nil} /\ Kept(upval[c])
  BY <1>1 DEF HeapInv, HasUpval, Sound, Live, TypeOK
<1> QED BY <1>2, KindsDiffer DEF Kept, Objects

(* A write barrier recolours what lives to the current white, gray or      *)
(* black.                                                                  *)
LEMMA BarrierColours ==
    ASSUME IInv, NEW T, Adopt(T), Repainted(T)
    PROVE  \A u \in Udatas : mark'[u] = mark[u] \/ mark'[u] \in {white} \cup Shades
BY DEF Adopt, Repainted, Objects

(* The program recolours to the current white, gray or black.              *)
LEMMA ProgramFinalizing ==
    ASSUME IInv, Finalizing, Program
    PROVE  Finalizing' /\ CallsOnce
<1>0. TypeOK /\ UNCHANGED <<white, tmudata, finalized, calls>> /\ Udatas \subseteq Objects
  <2>1. UNCHANGED Fixed
    BY DEF Program, New, Intern, NewClosure, Read, Resume, Drop, Yield, CloseUpvals, ClearField, SetField,
           SetEnv, SetUpval
  <2> QED BY <2>1 DEF IInv, Fixed, Objects
<1> DEFINE Painted == \A u \in Udatas : mark'[u] = mark[u] \/ mark'[u] \in {white} \cup Shades
<1>m. mark \in [Objects -> Whites \cup {"free", "gray", "black"}]
  BY <1>0 DEF TypeOK
<1>h. HeldObjects \in SUBSET Objects
  BY <1>0, HeldLives DEF Objects
<1>1. ASSUME NEW s \in NextSlot, NEW o \in Creatable \cap (Tables \cup Udatas \cup Threads), New(o, s)
      PROVE  Painted
  BY <1>0, <1>1, <1>m DEF New
<1>2. ASSUME NEW s \in NextSlot, NEW o \in Creatable \cap Strings, Intern(o, s) PROVE Painted
  BY <1>0, <1>2, <1>m DEF Intern
<1>3. ASSUME NEW s \in NextSlot, NEW c \in Creatable \cap Closures, NEW r \in Slots, NewClosure(c, s, r)
      PROVE  Painted
  BY <1>0, <1>3, <1>m DEF NewClosure
<1>4. ASSUME NEW s \in NextSlot, NEW o \in HeldObjects, NEW x \in Readable(o), Read(s, x) PROVE Painted
  BY <1>4 DEF Read, Colours
<1>5. ASSUME NEW s \in Slots, NEW r \in Slots, Resume(s, r) \/ Drop(s) \/ Yield(s) PROVE Painted
  BY <1>5 DEF Resume, Drop, Yield, Colours
<1>6. ASSUME NEW s \in Slots, CloseUpvals(s) PROVE Painted
  <2>1. PICK leaving, dead, linked, S, T : Closes(leaving, dead, linked, S, T, s)
    BY <1>6, CloseUpvalsCloses
  <2>2. mark' = T.mark /\ \A u \in Udatas : u \in Objects /\ u \notin dead \cup linked
    BY <2>1, KindsDiffer DEF Closes, Adopt, Objects
  <2> QED BY <2>1, <2>2 DEF Closes, After
<1>7. ASSUME NEW t \in HeldObjects \cap Tables, ClearField(t) PROVE Painted
  BY <1>7 DEF ClearField, Colours
<1>8. ASSUME NEW t \in HeldObjects \cap Tables, NEW k \in (HeldObjects \cup {Num}) \cap world.keys,
             NEW x \in HeldObjects, SetField(t, k, x)
      PROVE  Painted
  <2>1. PICK key : key = IF fields[t] = {} THEN k ELSE Num
    OBVIOUS
  <2>2. PICK T : T = BarrierBack(Marking, t, key, x)
    OBVIOUS
  <2>3. Adopt(T)
    BY <1>8, <2>1, <2>2 DEF SetField
  <2>4. Repainted(T)
    BY <2>2, BarrierBackEffect
  <2> QED BY <2>3, <2>4, BarrierColours
<1>9. ASSUME NEW o \in HeldObjects \cap (Udatas \cup Closures),
             NEW t \in (HeldObjects \cap Tables) \cup {Globals}, SetEnv(o, t)
      PROVE  Painted
  <2>1. PICK T : T = BarrierForward(Marking, o, t)
    OBVIOUS
  <2>2. Adopt(T)
    BY <1>9, <2>1 DEF SetEnv
  <2>3. o \in Objects /\ t \in Objects /\ Live(t)
    <3>1. Globals \in Tables /\ Live(Globals)
      BY RootAssumption DEF IInv, HeapInv, Roots
    <3> QED BY <3>1, HeldLives DEF Objects
  <2>4. Repainted(T)
    BY <2>1, <2>3, BarrierForwardEffect
  <2> QED BY <2>2, <2>4, BarrierColours
<1>10. ASSUME NEW c \in HeldObjects \cap Closures, NEW x \in HeldObjects, SetUpval(c, x) PROVE Painted
  <2>1. PICK v : v = upval[c]
    OBVIOUS
  <2>2. PICK T : T = BarrierForward(Marking, v, x)
    OBVIOUS
  <2>3. Adopt(T)
    BY <1>10, <2>1, <2>2 DEF SetUpval
  <2>4. v \in Objects /\ x \in Objects /\ Live(x)
    BY <2>1, UpvalThere, HeldLives
  <2>5. Repainted(T)
    BY <2>2, <2>4, BarrierForwardEffect
  <2> QED BY <2>3, <2>5, BarrierColours
<1>11. Painted
  BY <1>1, <1>2, <1>3, <1>4, <1>5, <1>6, <1>7, <1>8, <1>9, <1>10 DEF Program
<1> QED BY <1>0, <1>11, NoneFinalized


(* A userdata is finalized once, and not freed before.                     *)
THEOREM FinalizersOnce == Spec => FinalizedOnce
<1>1. Init => IInv /\ Finalizing
  BY InitInv, InitFinalizing
<1>2. IInv /\ Finalizing /\ [Next]_vars => Finalizing' /\ CallsOnce
  <2> SUFFICES ASSUME IInv, Finalizing, [Next]_vars PROVE Finalizing' /\ CallsOnce
    OBVIOUS
  <2>1. CASE MarkRoot \/ PropagateMark \/ EndCycle
    BY <2>1, MarkRootFinalizing
  <2>2. CASE Atomic
    BY <2>2, AtomicFinalizing
  <2>3. CASE SweepString \/ SweepStep \/ FullGC
    <3>1. \E X : Sweep(X)
      BY <2>3 DEF SweepString, SweepStep, FullGC
    <3> QED BY <3>1, SweepFinalizing
  <2>4. CASE CallGCTM
    BY <2>4, CallFinalizing
  <2>5. CASE Program
    BY <2>5, ProgramFinalizing
  <2>6. CASE UNCHANGED vars
    <3>1. UNCHANGED <<white, tmudata, finalized, calls, mark>> /\ TypeOK
      BY <2>6 DEF vars, lists, IInv
    <3> QED BY <3>1, NoneFinalized
  <2> QED BY <2>1, <2>2, <2>3, <2>4, <2>5, <2>6 DEF Next, GCStep
<1>3. CallsOnce => \A u \in Udatas :
          /\ calls'[u] <= 1
          /\ mark[u] # "free" /\ mark'[u] = "free" => calls[u] = 1
  BY DEF CallsOnce
<1>4. IInv /\ Finalizing /\ [Next]_vars =>
          [\A u \in Udatas :
              /\ calls'[u] <= 1
              /\ mark[u] # "free" /\ mark'[u] = "free" => calls[u] = 1]_vars
  BY <1>2, <1>3
<1>5. Finalizing /\ IInv /\ [Next]_vars => Finalizing'
  BY <1>2
<1> QED BY <1>1, <1>4, <1>5, Invariance, PTL DEF Spec, FinalizedOnce

-----------------------------------------------------------------------------
(* What is garbage when a collection begins is not marked. *)

(* A set of objects that refer to none outside of it, and a marking that   *)
(* has come to none outside of it.                                         *)
Shut(C) == \A o \in C : References(o) \subseteq C
Confined(S, C) ==
    /\ S.gray \cup S.grayagain \cup S.weak \subseteq C
    /\ \A o \in Objects \ C : S.mark[o] = white

(* Marking inside a shut set stays in it.                                  *)
LEMMA MarkedConfined ==
    ASSUME TypeOK, NEW C \in SUBSET Objects, Shut(C), NEW S \in Markings, Confined(S, C),
           NEW X \in SUBSET C, NEW T, T = Marked(S, X)
    PROVE  T \in Markings /\ Confined(T, C)
<1>0. \A o \in C : Children(o) \subseteq C
  BY ChildrenType DEF Shut
<1>1. X \in SUBSET Objects
  OBVIOUS
<1>2. /\ T \in Markings /\ T.grayagain = S.grayagain /\ T.weak = S.weak
      /\ \A o \in T.gray \ S.gray : T.mark[o] # S.mark[o]
      /\ (/\ \A o \in X : S.mark[o] \in Whites => o \in C
          /\ \A o \in C \cap (Udatas \cup UpVals) : \A x \in Children(o) : S.mark[x] \in Whites => x \in C)
         => \A o \in Objects \ C : T.mark[o] = S.mark[o]
  BY <1>1, MarkedEffect
<1>3. \A o \in Objects \ C : T.mark[o] = S.mark[o]
  BY <1>0, <1>2
<1>4. \A o \in T.gray : o \in Objects
  BY <1>2 DEF Markings, Objects
<1> QED BY <1>2, <1>3, <1>4 DEF Confined

(* So does going on from what is gray in it.                               *)
LEMMA PropagatedConfined ==
    ASSUME TypeOK, NEW C \in SUBSET Objects, Shut(C), NEW S \in Markings, Confined(S, C),
           NEW T, T = PropagatedAll(S)
    PROVE  T \in Markings /\ Confined(T, C)
<1>0. \A o \in C : Children(o) \subseteq C
  BY ChildrenType DEF Shut
<1>1. S.gray \subseteq C
  BY DEF Confined
<1>2. /\ T \in Markings /\ T.gray = {}
      /\ \A o \in (T.grayagain \cup T.weak) \ (S.grayagain \cup S.weak) : T.mark[o] \in Shades
      /\ (/\ S.gray \subseteq C
          /\ \A o \in C : \A x \in Children(o) : S.mark[x] \in Whites => x \in C)
         => \A o \in Objects \ C : T.mark[o] = S.mark[o]
  BY PropagatedAllEffect
<1>3. \A o \in Objects \ C : T.mark[o] = S.mark[o]
  BY <1>0, <1>1, <1>2
<1>4. \A o \in T.grayagain \cup T.weak : o \in Objects
  BY <1>2 DEF Markings, Objects
<1>5. white \notin Shades
  BY TwoWhites DEF Shades, TypeOK, Whites
<1> QED BY <1>2, <1>3, <1>4, <1>5 DEF Confined

(* The collector reaches nothing outside a closed set with the roots.      *)
LEMMA ReachedShut ==
    ASSUME TypeOK, NEW U \in SUBSET Objects, NEW Q, Q = ReachableFrom(U)
    PROVE  Q \in SUBSET Objects /\ U \subseteq Q /\ Shut(Q)
<1> DEFINE next == [o \in Objects |-> References(o)]
<1>1. next \in [Objects -> SUBSET Objects] /\ Q = Closure(next, U)
  BY ChildrenType DEF ReachableFrom
<1>2. \A o \in Objects : next[o] = References(o)
  OBVIOUS
<1>3. Q \in SUBSET Objects /\ U \subseteq Q /\ \A o \in Q : next[o] \subseteq Q
  <2> HIDE DEF next
  <2> QED BY <1>1, ClosureProperties
<1> HIDE DEF next
<1> QED BY <1>2, <1>3 DEF Shut

(* What is not doomed refers to nothing that is, and neither do the roots. *)
Apart ==
    /\ \A t \in Tables : t \notin doomed => \A e \in fields[t] : e[1] \notin doomed /\ e[2] \notin doomed
    /\ \A o \in Udatas \cup Closures : o \notin doomed => env[o] \notin doomed
    /\ \A c \in Closures : c \notin doomed => upval[c] \notin doomed
    /\ \A v \in UpVals : v \notin doomed => UpValue(v) \notin doomed
    /\ \A th \in Threads : th \notin doomed =>
           resumed[th] \notin doomed /\ \A s \in Slots : stack[th][s] \notin doomed

Hidden ==
    /\ Apart
    /\ Main \notin doomed /\ Globals \notin doomed /\ running \notin doomed
    /\ Range(tmudata) \cap doomed = {}
    /\ \A th \in Threads : resumed[th] # Nil => th \notin doomed

(* What was garbage is white until the mark phase ends, then dead, and     *)
(* gone after the sweep.                                                   *)
Doomed ==
    /\ gcstate = "propagate" => Hidden /\ \A o \in doomed : mark[o] = white
    /\ gcstate \in {"sweepstring", "sweep"} => \A o \in doomed : IsDead(o)
    /\ gcstate = "finalize" => doomed = {}

(* What is not doomed is shut.                                             *)
LEMMA SparedShut ==
    ASSUME TypeOK, Apart
    PROVE  Objects \ doomed \in SUBSET Objects /\ Shut(Objects \ doomed)
<1> SUFFICES ASSUME NEW o \in Objects \ doomed, NEW x \in References(o) PROVE x \in Objects \ doomed
  BY DEF Shut
<1>1. x \in Objects /\ x # Num
  BY ChildrenType, KindsDiffer
<1>2. CASE o \in Tables
  BY <1>1, <1>2, ReferencesOf DEF Apart
<1>3. CASE o \notin Tables
  <2>1. x \in Children(o)
    BY <1>3, ReferencesOf
  <2> QED BY <1>1, <1>3, <2>1, ReferencesOf DEF Apart, Objects
<1> QED BY <1>2, <1>3

(* At the start no collection is under way.                                *)
LEMMA InitDoomed == Init => Doomed
BY DEF Init, StartIn, Doomed

(* What is not reached when a collection begins is doomed, and white.      *)
LEMMA MarkRootDoomed ==
    ASSUME IInv, MarkRoot
    PROVE  Doomed'
<1>0. /\ TypeOK /\ FreeEmpty /\ Chain /\ Swept /\ gcstate = "pause" /\ gcstate' = "propagate"
      /\ UNCHANGED <<white, tmudata, fields, env, upval, open, closed, stack, running, resumed>>
  BY DEF IInv, HeapInv, ColourInv, MarkRoot, heap
<1>1. PICK U : U = {Main, Globals, running} \cup Range(tmudata)
  OBVIOUS
<1>2. PICK Q : Q = ReachableFrom(U)
  OBVIOUS
<1>3. doomed' = Allocated \ Q
  BY <1>1, <1>2 DEF MarkRoot, Reachable
<1>4. U \in SUBSET Objects
  <2>1. Range(tmudata) \subseteq Udatas
    BY <1>0 DEF TypeOK, Range
  <2> QED BY <1>0, <1>1, <2>1, RootAssumption DEF TypeOK, Objects
<1>5. Q \in SUBSET Objects /\ U \subseteq Q /\ Shut(Q)
  BY <1>0, <1>2, <1>4, ReachedShut
<1>6. \A o \in Objects : o \notin doomed' <=> o \in Q \/ mark[o] = "free"
  BY <1>3 DEF Allocated
<1>7. Nil \notin doomed' /\ Num \notin doomed'
  BY <1>3, KindsDiffer DEF Allocated
<1>8. \A o \in Q : \A x \in References(o) : x \notin doomed'
  BY <1>3, <1>5 DEF Shut
<1>9. Apart'
  <2>1. ASSUME NEW t \in Tables, t \notin doomed', NEW e \in fields[t]
        PROVE  e[1] \notin doomed' /\ e[2] \notin doomed'
    <3>1. t \in Q
      BY <1>0, <1>6, <2>1 DEF FreeEmpty, Objects
    <3>2. \A x : x # Num /\ (x = e[1] \/ x = e[2]) => x \in References(t)
      BY <1>0, <2>1, ReferencesOf
    <3> QED BY <1>7, <1>8, <3>1, <3>2
  <2>2. ASSUME NEW o \in Udatas \cup Closures, o \notin doomed' PROVE env[o] \notin doomed'
    <3>1. CASE o \in Q
      <4>1. o \in Objects \ Tables
        BY KindsDiffer DEF Objects
      <4>2. env[o] = Nil \/ env[o] \in References(o)
        BY <1>0, <4>1, ReferencesOf
      <4> QED BY <1>7, <1>8, <3>1, <4>2
    <3>2. CASE mark[o] = "free"
      BY <1>0, <1>7, <3>2 DEF FreeEmpty, Objects
    <3> QED BY <1>6, <2>2, <3>1, <3>2 DEF Objects
  <2>3. ASSUME NEW c \in Closures, c \notin doomed' PROVE upval[c] \notin doomed'
    <3>1. CASE c \in Q
      <4>1. c \in Objects \ Tables
        BY KindsDiffer DEF Objects
      <4>2. upval[c] = Nil \/ upval[c] \in References(c)
        BY <1>0, <4>1, ReferencesOf
      <4> QED BY <1>7, <1>8, <3>1, <4>2
    <3>2. CASE mark[c] = "free"
      BY <1>0, <1>7, <3>2 DEF FreeEmpty, Objects
    <3> QED BY <1>6, <2>3, <3>1, <3>2 DEF Objects
  <2>4. ASSUME NEW v \in UpVals, v \notin doomed' PROVE UpValue(v)' \notin doomed'
    <3>0. UpValue(v)' = UpValue(v)
      BY <1>0 DEF UpValue
    <3>1. CASE v \in Q
      <4>1. v \in Objects \ Tables
        BY KindsDiffer DEF Objects
      <4>2. UpValue(v) = Nil \/ UpValue(v) \in References(v)
        BY <1>0, <4>1, ReferencesOf
      <4> QED BY <1>7, <1>8, <3>0, <3>1, <4>2
    <3>2. CASE mark[v] = "free"
      BY <1>0, <1>7, <3>0, <3>2 DEF FreeEmpty, Objects, UpValue
    <3> QED BY <1>6, <2>4, <3>1, <3>2 DEF Objects
  <2>5. ASSUME NEW th \in Threads, th \notin doomed'
        PROVE  resumed[th] \notin doomed' /\ \A s \in Slots : stack[th][s] \notin doomed'
    <3>1. CASE th \in Q
      <4>1. th \in Objects \ Tables
        BY KindsDiffer DEF Objects
      <4>2. /\ resumed[th] = Nil \/ resumed[th] \in References(th)
            /\ \A s \in Slots : stack[th][s] = Nil \/ stack[th][s] \in References(th)
        BY <1>0, <4>1, ReferencesOf
      <4> QED BY <1>7, <1>8, <3>1, <4>2
    <3>2. CASE mark[th] = "free"
      BY <1>0, <1>7, <3>2 DEF FreeEmpty, Objects
    <3> QED BY <1>6, <2>5, <3>1, <3>2 DEF Objects
  <2> QED BY <1>0, <2>1, <2>2, <2>3, <2>4, <2>5 DEF Apart
<1>10. \A th \in Threads : resumed[th] # Nil => th \in Q
  <2> DEFINE W == {th \in Threads : resumed[th] # Nil /\ th \notin Q}
  <2>1. ASSUME NEW th \in W PROVE \E r \in W : resumed[r] = th
    <3>1. th # Main
      BY <1>1, <1>5, <2>1
    <3>2. PICK r \in Threads : resumed[r] = th
      BY <1>0, <2>1, <3>1 DEF Chain
    <3>3. th # Nil /\ r \in Objects \ Tables
      BY KindsDiffer DEF Objects
    <3>4. th \in References(r)
      BY <1>0, <3>2, <3>3, ReferencesOf
    <3>5. r \notin Q
      BY <1>5, <2>1, <3>4 DEF Shut
    <3> QED BY <3>2, <3>3, <3>5
  <2> HIDE DEF W
  <2>2. W = {}
    <3>1. W \in SUBSET Threads
      BY DEF W
    <3> QED BY <1>0, <2>1, <3>1 DEF Chain
  <2> QED BY <2>2 DEF W
<1>11. Hidden'
  BY <1>0, <1>1, <1>3, <1>5, <1>9, <1>10 DEF Hidden
<1>12. \A o \in doomed' : mark'[o] = white
  <2>1. PICK S : S = [Marking EXCEPT !.gray = {}, !.grayagain = {}, !.weak = {}]
    OBVIOUS
  <2>3. PICK T : T = Marked(S, {Main, Globals})
    OBVIOUS
  <2>4. S \in Markings /\ S.mark = mark
    BY <1>0, <2>1 DEF Marking, Markings, TypeOK, Shades
  <2>5. {Main, Globals} \in SUBSET Objects /\ {Main, Globals} \subseteq Q /\ Q \subseteq Objects
    BY <1>1, <1>5, RootAssumption DEF Objects
  <2>6. \A o \in Q : Children(o) \subseteq Q
    BY <1>0, <1>5, ChildrenType DEF Shut
  <2>7. \A o \in Objects \ Q : T.mark[o] = S.mark[o]
    BY <1>0, <2>3, <2>4, <2>5, <2>6, MarkedEffect
  <2>8. mark' = T.mark
    BY <2>1, <2>3 DEF MarkRoot, Adopt
  <2>9. \A o \in Objects \ Q : mark[o] \in {"free", white}
    <3>1. \A o \in Objects : ~Unswept(o)
      BY <1>0 DEF Swept, Unswept
    <3> QED BY <1>0, <1>1, <1>5, <3>1 DEF Swept
  <2> QED BY <1>3, <2>4, <2>7, <2>8, <2>9 DEF Allocated
<1> QED BY <1>0, <1>11, <1>12 DEF Doomed

(* Going on from a gray object comes to nothing doomed.                    *)
LEMMA PropagateMarkDoomed ==
    ASSUME IInv, Doomed, PropagateMark
    PROVE  Doomed'
<1>0. /\ TypeOK /\ TriColour /\ gcstate = "propagate" /\ Hidden /\ \A x \in doomed : mark[x] = white
      /\ UNCHANGED <<gcstate, white, tmudata, fields, env, upval, open, closed, stack, running, resumed, doomed>>
  BY DEF IInv, ColourInv, PropagateMark, Doomed, heap
<1>1. PICK C : C = Objects \ doomed
  OBVIOUS
<1>2. C \in SUBSET Objects /\ Shut(C)
  BY <1>0, <1>1, SparedShut DEF Hidden
<1>3. PICK o \in gray : Adopt(Propagated(Marking, o))
  BY DEF PropagateMark
<1>4. PICK S : S = [mark |-> [mark EXCEPT ![o] = IF StaysGray(o) THEN "gray" ELSE "black"],
                    gray |-> gray \ {o},
                    grayagain |-> grayagain \cup ({o} \cap Threads),
                    weak |-> weak \cup WeakIn({o})]
  OBVIOUS
<1>5. PICK T : T = Marked(S, Children(o))
  OBVIOUS
<1>6. mark' = T.mark
  BY <1>3, <1>4, <1>5 DEF Propagated, Marking, Adopt
<1>7. S \in Markings /\ S.mark = [mark EXCEPT ![o] = IF StaysGray(o) THEN "gray" ELSE "black"]
  <2>1. [mark EXCEPT ![o] = IF StaysGray(o) THEN "gray" ELSE "black"] \in [Objects -> Whites \cup Shades \cup {"free"}]
    BY <1>0 DEF TypeOK, Shades
  <2> QED BY <1>4, <2>1, <1>0 DEF Markings, WeakIn, IsWeak, TypeOK
<1>8. white \notin Shades
  BY <1>0, TwoWhites DEF Shades, TypeOK, Whites
<1>9. \A x \in gray \cup grayagain \cup weak : x \in C
  <2>1. \A x \in gray \cup grayagain \cup weak : mark[x] \in Shades /\ x \in Objects
    BY <1>0 DEF TriColour, TypeOK, Objects
  <2> QED BY <1>0, <1>1, <1>8, <2>1
<1>10. Confined(S, C)
  <2>1. \A x \in Objects \ C : S.mark[x] = white
    BY <1>0, <1>1, <1>7, <1>9 DEF TypeOK
  <2>2. S.gray \cup S.grayagain \cup S.weak \subseteq C
    BY <1>3, <1>4, <1>9 DEF WeakIn
  <2> QED BY <2>1, <2>2 DEF Confined
<1>11. Children(o) \in SUBSET C
  <2>1. o \in C
    BY <1>3, <1>9
  <2> QED BY <1>0, <1>2, <2>1, ChildrenType DEF Shut
<1>12. Confined(T, C)
  BY <1>0, <1>2, <1>5, <1>7, <1>10, <1>11, MarkedConfined
<1>13. \A x \in doomed : x \in Objects \ C
  BY <1>0, <1>1 DEF TypeOK
<1>14. \A x \in doomed' : mark'[x] = white
  BY <1>0, <1>6, <1>12, <1>13 DEF Confined
<1>15. Hidden'
  BY <1>0 DEF Hidden, Apart, UpValue
<1> QED BY <1>0, <1>14, <1>15 DEF Doomed

(* The first half of atomic comes to nothing doomed.                       *)
LEMMA MarkedAgainConfined ==
    ASSUME IInv, gcstate = "propagate", gray = {}, Hidden, \A o \in doomed : mark[o] = white,
           NEW C, C = Objects \ doomed, NEW T, T = MarkedAgain
    PROVE  T \in Markings /\ Confined(T, C)
<1>0. TypeOK /\ TriColour /\ C \in SUBSET Objects /\ Shut(C)
  BY SparedShut DEF IInv, ColourInv, Hidden
<1>1. PICK S : S = Marking
  OBVIOUS
<1>2. S \in Markings /\ S.mark = mark /\ S.gray = {} /\ S.grayagain = grayagain /\ S.weak = weak
  BY <1>1, MarkingType
<1>3. white \notin Shades /\ white # "gray"
  BY <1>0, TwoWhites DEF Shades, TypeOK, Whites
<1>4. Confined(S, C)
  <2>1. \A x \in grayagain \cup weak : mark[x] \in Shades /\ x \in Objects
    BY <1>0 DEF TriColour, TypeOK, Objects
  <2> QED BY <1>0, <1>2, <1>3, <2>1 DEF Confined
<1>5. PICK X : X = {UpValue(v) : v \in GrayUpvals} \ {Nil}
  OBVIOUS
<1>6. X \in SUBSET C
  <2> SUFFICES ASSUME NEW v \in GrayUpvals, UpValue(v) # Nil PROVE UpValue(v) \in C
    BY <1>5
  <2>1. v \in UpVals /\ mark[v] = "gray" /\ v \notin doomed
    BY <1>3 DEF GrayUpvals
  <2>2. UpValue(v) \in Objects /\ UpValue(v) \notin doomed
    BY <1>0, <2>1, UpValueType DEF Hidden, Apart, Values
  <2> QED BY <2>2
<1>7. PICK m1 : m1 = Marked(S, X)
  OBVIOUS
<1>8. PICK s1 : s1 = PropagatedAll(m1)
  OBVIOUS
<1>9. PICK w : w = WeakAgain(s1)
  OBVIOUS
<1>10. PICK m2 : m2 = Marked(w, {running})
  OBVIOUS
<1>11. PICK s2 : s2 = PropagatedAll(m2)
  OBVIOUS
<1>12. PICK c : c = CaughtAgain(s2)
  OBVIOUS
<1>13. T = PropagatedAll(c)
  BY <1>1, <1>5, <1>7, <1>8, <1>9, <1>10, <1>11, <1>12 DEF MarkedAgain
<1>14. m1 \in Markings /\ Confined(m1, C)
  BY <1>0, <1>2, <1>4, <1>6, <1>7, MarkedConfined
<1>15. s1 \in Markings /\ Confined(s1, C)
  BY <1>0, <1>8, <1>14, PropagatedConfined
<1>16. w \in Markings /\ Confined(w, C)
  BY <1>9, <1>15 DEF WeakAgain, Markings, Confined
<1>17. {running} \in SUBSET C
  BY <1>0 DEF TypeOK, Objects, Hidden
<1>18. m2 \in Markings /\ Confined(m2, C)
  BY <1>0, <1>10, <1>16, <1>17, MarkedConfined
<1>19. s2 \in Markings /\ Confined(s2, C)
  BY <1>0, <1>11, <1>18, PropagatedConfined
<1>20. c \in Markings /\ Confined(c, C)
  BY <1>12, <1>19 DEF CaughtAgain, Markings, Confined
<1> QED BY <1>0, <1>13, <1>20, PropagatedConfined

(* Marking what is to be finalized comes only to what that refers to.      *)
LEMMA MarkedForConfined ==
    ASSUME TypeOK, NEW C \in SUBSET Objects, Shut(C), NEW R \in Markings, Confined(R, C),
           NEW U \in SUBSET C, NEW S, S = MarkedFor(R, U)
    PROVE  S \in Markings /\ Confined(S, C)
<1>1. PICK r : r = [R EXCEPT !.mark = [o \in Objects |-> IF o \in U THEN white ELSE @[o]]]
  OBVIOUS
<1>2. PICK m : m = Marked(r, U)
  OBVIOUS
<1>3. S = PropagatedAll(m)
  BY <1>1, <1>2 DEF MarkedFor
<1>4. r = [mark |-> [o \in Objects |-> IF o \in U THEN white ELSE R.mark[o]],
           gray |-> R.gray, grayagain |-> R.grayagain, weak |-> R.weak]
  BY <1>1 DEF Markings
<1>5. r \in Markings
  <2>1. white \in Whites
    BY DEF TypeOK
  <2>2. [o \in Objects |-> IF o \in U THEN white ELSE R.mark[o]] \in [Objects -> Whites \cup Shades \cup {"free"}]
    BY <2>1 DEF Markings
  <2> QED BY <1>4, <2>2 DEF Markings
<1>6. Confined(r, C)
  BY <1>4 DEF Confined
<1>7. m \in Markings /\ Confined(m, C)
  BY <1>2, <1>5, <1>6, MarkedConfined
<1> QED BY <1>3, <1>7, PropagatedConfined

(* After the mark phase what is doomed, and not needed by a finalizer, is  *)
(* dead.                                                                   *)
LEMMA AtomicDoomed ==
    ASSUME IInv, Doomed, Atomic
    PROVE  Doomed'
<1>0. /\ TypeOK /\ gcstate = "propagate" /\ gray = {} /\ Hidden /\ \A x \in doomed : mark[x] = white
  BY DEF IInv, Atomic, Doomed
<1>1. PICK R : R = MarkedAgain
  OBVIOUS
<1>2. PICK D : D = Separated(R)
  OBVIOUS
<1>3. PICK tmu : tmu = tmudata \o SetToSeq(D)
  OBVIOUS
<1>4. PICK U : U = Range(tmu)
  OBVIOUS
<1>5. PICK S : S = MarkedFor(R, U)
  OBVIOUS
<1>6. PICK fin : fin = finalized \cup D
  OBVIOUS
<1>7. PICK Q : Q = ReachableFrom(U)
  OBVIOUS
<1>8. PICK B : B = Objects \ doomed
  OBVIOUS
<1>9. PICK C : C = B \cup Q
  OBVIOUS
<1>10. D \subseteq Udatas /\ tmu \in Seq(Udatas)
  BY <1>0, <1>1, <1>2, <1>3, <1>4, <1>5, AtomicMarking
<1>11. U \in SUBSET Objects
  BY <1>4, <1>10 DEF Range, Objects
<1>12. B \in SUBSET Objects /\ Shut(B)
  BY <1>0, <1>8, SparedShut DEF Hidden
<1>13. Q \in SUBSET Objects /\ U \subseteq Q /\ Shut(Q)
  BY <1>0, <1>7, <1>11, ReachedShut
<1>14. C \in SUBSET Objects /\ Shut(C) /\ U \in SUBSET C
  BY <1>9, <1>12, <1>13 DEF Shut
<1>15. R \in Markings /\ Confined(R, B)
  BY <1>0, <1>1, <1>8, MarkedAgainConfined
<1>16. Confined(R, C)
  BY <1>9, <1>15 DEF Confined
<1>17. S \in Markings /\ Confined(S, C)
  BY <1>0, <1>5, <1>14, <1>15, <1>16, MarkedForConfined
<1>18. /\ white' = OtherWhite /\ gcstate' = "sweepstring" /\ doomed' = doomed \ Q
       /\ Adopt([S EXCEPT !.mark = [o \in Objects |-> IF o \in Strings \cap InFields(S, fin) THEN "gray" ELSE @[o]]])
  BY <1>1, <1>2, <1>3, <1>4, <1>5, <1>6, <1>7 DEF Atomic
<1>19. mark' = [o \in Objects |-> IF o \in Strings \cap InFields(S, fin) THEN "gray" ELSE S.mark[o]]
  BY <1>17, <1>18 DEF Adopt, Markings
<1>20. \A o \in doomed' : o \in Objects \ C
  BY <1>0, <1>8, <1>9, <1>18 DEF TypeOK
<1>21. ASSUME NEW o \in InFields(S, fin) PROVE o \in C \cup {Num}
  <2>1. PICK t \in S.weak : \E e \in fields[t] : o = e[1] \/ o = e[2]
    BY <1>21 DEF InFields
  <2>2. t \in Tables /\ t \in C
    BY <1>17, <2>1 DEF Markings, Confined
  <2>3. o = Num \/ o \in References(t)
    BY <1>0, <2>1, <2>2, ReferencesOf
  <2> QED BY <1>14, <2>2, <2>3 DEF Shut
<1>22. \A o \in doomed' : mark'[o] = white
  BY <1>17, <1>19, <1>20, <1>21, KindsDiffer DEF Confined
<1>23. OtherWhite' = white
  BY <1>0, <1>18 DEF OtherWhite, TypeOK, Whites
<1> QED BY <1>18, <1>22, <1>23 DEF Doomed, IsDead

(* The sweep frees what is dead.                                           *)
LEMMA SweepDoomed ==
    ASSUME IInv, Doomed, IInv', SweepString \/ SweepStep
    PROVE  Doomed'
<1>0. /\ TypeOK /\ gcstate' \in {"sweepstring", "sweep", "finalize"}
      /\ \A o \in doomed : IsDead(o)
  BY DEF IInv, Doomed, SweepString, SweepStep
<1>1. PICK X : Sweep(X)
  BY DEF SweepString, SweepStep
<1>2. /\ white' = white /\ OtherWhite' = OtherWhite
      /\ mark' = [o \in Objects |->
              IF o \in Dies(X) THEN "free" ELSE IF o \in Visited(X) THEN white ELSE mark[o]]
      /\ doomed' = doomed \ Dies(X)
  BY <1>1 DEF Sweep, OtherWhite
<1>3. ASSUME NEW o \in doomed' PROVE o \in Objects /\ IsDead(o)'
  <2>1. o \in Objects /\ IsDead(o) /\ o \notin Visited(X) /\ o \notin Dies(X)
    BY <1>0, <1>2, <1>3 DEF TypeOK, Dies
  <2> QED BY <1>2, <2>1 DEF IsDead
<1>4. gcstate' = "finalize" => doomed' = {}
  <2> SUFFICES ASSUME gcstate' = "finalize", NEW o \in doomed' PROVE FALSE
    OBVIOUS
  <2>1. o \in Objects /\ mark'[o] = OtherWhite /\ OtherWhite # white /\ OtherWhite # "free"
    BY <1>0, <1>2, <1>3, TwoWhites DEF IsDead, TypeOK, Whites
  <2>2. toSweep' = {} /\ (mark'[o] \in {"free", white'} \/ o \in Range(tmudata') \/ Unswept(o)')
    BY <2>1 DEF IInv, ColourInv, Swept
  <2>3. o \notin Range(tmudata')
    BY <1>3 DEF IInv, HeapInv, Roots, Live
  <2> QED BY <1>2, <2>1, <2>2, <2>3 DEF Unswept
<1> QED BY <1>0, <1>3, <1>4 DEF Doomed, IsDead

(* Finalizers are called when nothing is doomed, and a cycle ends so.      *)
LEMMA CallDoomed ==
    ASSUME Doomed, CallGCTM \/ EndCycle \/ FullGC
    PROVE  Doomed'
BY DEF Doomed, CallGCTM, EndCycle, FullGC

(* What the program holds and reads is not doomed.                         *)
LEMMA HeldHidden ==
    ASSUME IInv, Hidden
    PROVE  /\ \A s \in Slots : Held(s) \notin doomed
           /\ \A x \in HeldObjects : x \in Objects /\ x \notin doomed
           /\ \A o \in HeldObjects : \A x \in Readable(o) : x \notin doomed
<1>0. /\ TypeOK /\ HasUpval /\ Apart /\ running \in Threads /\ running \notin doomed
      /\ Nil \notin doomed
  BY KindsDiffer DEF IInv, HeapInv, Hidden, TypeOK
<1>1. \A s \in Slots : Held(s) \notin doomed
  BY <1>0 DEF Apart, Held
<1>2. \A x \in HeldObjects : x # Nil /\ \E s \in Slots : x = Held(s)
  BY <1>0 DEF TypeOK, HeldObjects, Range, Held
<1>3. \A x \in HeldObjects : x \in Objects /\ x \notin doomed
  BY <1>1, <1>2, HeldLives
<1>4. ASSUME NEW o \in HeldObjects, NEW x \in Readable(o) PROVE x \notin doomed
  <2>0. o \in Objects /\ o \notin doomed /\ Live(o) /\ x # Nil
    BY <1>3, <1>4, HeldLives DEF Readable
  <2>1. CASE o \in Tables
    <3>1. Readable(o) = (UNION {{e[1], e[2]} : e \in fields[o]}) \ {Nil, Num, Globals}
      BY <2>1, KindsDiffer DEF Readable
    <3>2. \E e \in fields[o] : x = e[1] \/ x = e[2]
      BY <1>4, <3>1
    <3> QED BY <1>0, <2>0, <2>1, <3>2 DEF Apart
  <2>2. CASE o \in Closures
    <3>1. upval[o] \in UpVals /\ upval[o] \notin doomed
      BY <1>0, <2>0, <2>2 DEF HasUpval, Apart, Live, TypeOK
    <3>2. x = UpValue(upval[o]) \/ x = env[o]
      BY <1>4, <2>2, KindsDiffer DEF Readable
    <3> QED BY <1>0, <2>0, <2>2, <3>1, <3>2 DEF Apart
  <2>3. CASE o \in Udatas
    <3>1. x = env[o]
      BY <1>4, <2>3, KindsDiffer DEF Readable
    <3> QED BY <1>0, <2>0, <2>3, <3>1 DEF Apart
  <2>4. o \in Tables \cup Closures \cup Udatas
    BY <1>4 DEF Readable
  <2> QED BY <2>1, <2>2, <2>3, <2>4
<1> QED BY <1>1, <1>3, <1>4

(* What a step of the program puts anywhere in the heap is not doomed, and *)
(* what it looks up again is a string or an upvalue.                       *)
Rewired ==
    /\ doomed' \subseteq doomed /\ tmudata' = tmudata
    /\ \A t \in Tables : \A e \in fields'[t] :
           e \in fields[t] \/ (e[1] \notin doomed' /\ e[2] \notin doomed')
    /\ \A o \in Udatas \cup Closures : env'[o] = env[o] \/ env'[o] \notin doomed'
    /\ \A c \in Closures : upval'[c] = upval[c] \/ upval'[c] \notin doomed'
    /\ \A v \in UpVals : UpValue(v)' = UpValue(v) \/ UpValue(v)' \notin doomed'
    /\ \A th \in Threads : resumed'[th] = resumed[th] \/ resumed'[th] \notin doomed'
    /\ \A th \in Threads : \A s \in Slots : stack'[th][s] = stack[th][s] \/ stack'[th][s] \notin doomed'
    /\ \A o \in doomed : o \notin doomed' => o \in Strings \/ (o \in UpVals /\ UpValue(o)' \notin doomed')
    /\ running' \notin doomed'
    /\ \A th \in Threads : resumed'[th] # Nil => th \notin doomed'

(* What is rewired so stays hidden.                                        *)
LEMMA HiddenAgain ==
    ASSUME TypeOK, Hidden, Rewired
    PROVE  Hidden'
<1>1. Apart'
  <2>1. ASSUME NEW t \in Tables, t \notin doomed', NEW e \in fields'[t]
        PROVE  e[1] \notin doomed' /\ e[2] \notin doomed'
    <3>1. t \notin doomed
      BY <2>1, KindsDiffer DEF Rewired
    <3> QED BY <2>1, <3>1 DEF Rewired, Hidden, Apart
  <2>2. ASSUME NEW o \in Udatas \cup Closures, o \notin doomed' PROVE env'[o] \notin doomed'
    <3>1. o \notin doomed
      BY <2>2, KindsDiffer DEF Rewired
    <3> QED BY <3>1 DEF Rewired, Hidden, Apart
  <2>3. ASSUME NEW c \in Closures, c \notin doomed' PROVE upval'[c] \notin doomed'
    <3>1. c \notin doomed
      BY <2>3, KindsDiffer DEF Rewired
    <3> QED BY <3>1 DEF Rewired, Hidden, Apart
  <2>4. ASSUME NEW v \in UpVals, v \notin doomed' PROVE UpValue(v)' \notin doomed'
    <3>1. CASE v \in doomed
      BY <2>4, <3>1, KindsDiffer DEF Rewired
    <3>2. CASE v \notin doomed
      BY <3>2 DEF Rewired, Hidden, Apart
    <3> QED BY <3>1, <3>2
  <2>5. ASSUME NEW th \in Threads, th \notin doomed'
        PROVE  resumed'[th] \notin doomed' /\ \A s \in Slots : stack'[th][s] \notin doomed'
    <3>1. th \notin doomed
      BY <2>5, KindsDiffer DEF Rewired
    <3> QED BY <3>1 DEF Rewired, Hidden, Apart
  <2> QED BY <2>1, <2>2, <2>3, <2>4, <2>5 DEF Apart
<1> QED BY <1>1 DEF Hidden, Rewired

(* An upvalue that stays as it is has the value it had, or one that was    *)
(* put on a stack.                                                         *)
LEMMA UpValueAgain ==
    ASSUME TypeOK, NEW v \in UpVals, open'[v] = open[v], closed'[v] = closed[v],
           \A th \in Threads : \A s \in Slots : stack'[th][s] = stack[th][s] \/ stack'[th][s] \notin doomed'
    PROVE  UpValue(v)' = UpValue(v) \/ UpValue(v)' \notin doomed'
<1>1. CASE open[v] = <<>>
  BY <1>1 DEF UpValue
<1>2. CASE open[v] # <<>>
  <2>1. PICK th \in Threads, s \in Slots : open[v] = <<th, s>>
    BY <1>2 DEF TypeOK
  <2>2. UpValue(v) = stack[th][s] /\ UpValue(v)' = stack'[th][s]
    BY <1>2, <2>1 DEF UpValue
  <2> QED BY <2>2
<1> QED BY <1>1, <1>2

(* Steps that change nothing but the stacks and the running thread.        *)
LEMMA StackRewired ==
    ASSUME TypeOK, UNCHANGED <<tmudata, fields, env, upval, open, closed>>,
           doomed' \subseteq doomed, \A o \in doomed : o \notin doomed' => o \in Strings,
           \A th \in Threads : \A s \in Slots : stack'[th][s] = stack[th][s] \/ stack'[th][s] \notin doomed',
           \A th \in Threads : resumed'[th] = resumed[th] \/ resumed'[th] \notin doomed',
           \A th \in Threads : resumed'[th] # Nil => th \notin doomed',
           running' \notin doomed'
    PROVE  Rewired
<1>1. \A v \in UpVals : UpValue(v)' = UpValue(v) \/ UpValue(v)' \notin doomed'
  BY UpValueAgain
<1> QED BY <1>1 DEF Rewired

(* The place a value is put at, and all others.                            *)
LEMMA HoldCells ==
    ASSUME TypeOK, NEW s, NEW x, Hold(s, x)
    PROVE  \A th \in Threads : \A r \in Slots :
               stack'[th][r] = stack[th][r] \/ (th = running /\ r = s /\ stack'[th][r] = x)
BY DEF TypeOK, Hold

(* What the program does while the collector marks keeps what is doomed    *)
(* out of its reach.                                                       *)
LEMMA ProgramRewired ==
    ASSUME IInv, Hidden, gcstate = "propagate", \A o \in doomed : mark[o] = white, Program
    PROVE  Rewired
<1>w. \A o \in doomed : mark[o] # "free"
  BY TwoWhites DEF IInv, TypeOK
<1>0. /\ TypeOK /\ HeapInv /\ Chain /\ running \in Threads /\ running \notin doomed /\ Globals \notin doomed
      /\ Nil \notin doomed /\ Num \notin doomed /\ Nil \notin Threads
      /\ \A th \in Threads : resumed[th] # Nil => th \notin doomed
  BY KindsDiffer DEF IInv, HeapInv, TypeOK, Hidden, Objects
<1>h. /\ \A s \in Slots : Held(s) \notin doomed
      /\ \A x \in HeldObjects : x \in Objects /\ x \notin doomed
      /\ \A o \in HeldObjects : \A x \in Readable(o) : x \notin doomed
  BY HeldHidden
<1>s. \A s \in NextSlot : s \in Slots
  BY DEF NextSlot
<1>1. ASSUME NEW s \in NextSlot, NEW o \in Creatable \cap (Tables \cup Udatas \cup Threads), New(o, s)
      PROVE  Rewired
  <2>0. /\ mark[o] = "free" /\ Hold(s, o)
        /\ env' = IF o \in Udatas THEN [env EXCEPT ![o] = Globals] ELSE env
        /\ UNCHANGED <<tmudata, doomed, fields, upval, open, closed, running, resumed>>
    BY <1>1 DEF New, Fixed
  <2>1. o \notin doomed
    BY <1>w, <2>0
  <2>2. \A th \in Threads : \A r \in Slots : stack'[th][r] = stack[th][r] \/ stack'[th][r] = o
    BY <1>0, <2>0, HoldCells
  <2>3. \A th \in Threads : \A r \in Slots : stack'[th][r] = stack[th][r] \/ stack'[th][r] \notin doomed'
    BY <2>0, <2>1, <2>2
  <2>4. \A v \in UpVals : UpValue(v)' = UpValue(v) \/ UpValue(v)' \notin doomed'
    BY <1>0, <2>0, <2>3, UpValueAgain
  <2>5. \A u \in Udatas \cup Closures : env'[u] = env[u] \/ env'[u] = Globals
    BY <1>0, <2>0 DEF TypeOK
  <2> QED BY <1>0, <2>0, <2>3, <2>4, <2>5 DEF Rewired
<1>2. ASSUME NEW s \in NextSlot, NEW o \in Creatable \cap Strings, Intern(o, s) PROVE Rewired
  <2>0. /\ Hold(s, o) /\ doomed' = doomed \ {o}
        /\ UNCHANGED <<tmudata, fields, env, upval, open, closed, running, resumed>>
    BY <1>2 DEF Intern, Fixed
  <2>1. \A th \in Threads : \A r \in Slots :
            stack'[th][r] = stack[th][r] \/ (th = running /\ r = s /\ stack'[th][r] = o)
    BY <1>0, <2>0, HoldCells
  <2>2. \A th \in Threads : \A r \in Slots : stack'[th][r] = stack[th][r] \/ stack'[th][r] \notin doomed'
    BY <2>0, <2>1
  <2> QED BY <1>0, <1>2, <2>0, <2>2, StackRewired
<1>4. ASSUME NEW s \in NextSlot, NEW o \in HeldObjects, NEW x \in Readable(o), Read(s, x) PROVE Rewired
  <2>0. Hold(s, x) /\ UNCHANGED <<tmudata, doomed, fields, env, upval, open, closed, running, resumed>>
    BY <1>4 DEF Read, Fixed
  <2>1. \A th \in Threads : \A r \in Slots :
            stack'[th][r] = stack[th][r] \/ (th = running /\ r = s /\ stack'[th][r] = x)
    BY <1>0, <2>0, HoldCells
  <2>2. \A th \in Threads : \A r \in Slots : stack'[th][r] = stack[th][r] \/ stack'[th][r] \notin doomed'
    BY <1>h, <1>4, <2>0, <2>1
  <2> QED BY <1>0, <2>0, <2>2, StackRewired
<1>5. ASSUME NEW s \in Slots, Drop(s) PROVE Rewired
  <2>0. Hold(s, Nil) /\ UNCHANGED <<tmudata, doomed, fields, env, upval, open, closed, running, resumed>>
    BY <1>5 DEF Drop, Hold, Fixed
  <2>1. \A th \in Threads : \A r \in Slots :
            stack'[th][r] = stack[th][r] \/ (th = running /\ r = s /\ stack'[th][r] = Nil)
    BY <1>0, <2>0, HoldCells
  <2>2. \A th \in Threads : \A r \in Slots : stack'[th][r] = stack[th][r] \/ stack'[th][r] \notin doomed'
    BY <1>0, <2>0, <2>1
  <2> QED BY <1>0, <2>0, <2>2, StackRewired
<1>6. ASSUME NEW s \in Slots, NEW r \in Slots, Resume(s, r) PROVE Rewired
  <2>1. PICK th : th = Held(s)
    OBVIOUS
  <2>0. /\ th \in Threads /\ resumed' = [resumed EXCEPT ![running] = th] /\ running' = th
        /\ stack' = [stack EXCEPT ![th][1] = Held(r)]
        /\ UNCHANGED <<tmudata, doomed, fields, env, upval, open, closed>>
    BY <1>6, <2>1 DEF Resume, Fixed
  <2>2. th \notin doomed /\ Held(r) \notin doomed
    BY <1>h, <2>1
  <2>3. \A q \in Threads : \A n \in Slots : stack'[q][n] = stack[q][n] \/ stack'[q][n] = Held(r)
    BY <1>0, <2>0 DEF TypeOK
  <2>4. \A q \in Threads : resumed'[q] = IF q = running THEN th ELSE resumed[q]
    BY <1>0, <2>0 DEF TypeOK
  <2>5. \A q \in Threads : \A n \in Slots : stack'[q][n] = stack[q][n] \/ stack'[q][n] \notin doomed'
    BY <2>0, <2>2, <2>3
  <2> QED BY <1>0, <2>0, <2>2, <2>4, <2>5, StackRewired
<1>7. ASSUME NEW s \in Slots, Yield(s) PROVE Rewired
  <2>1. PICK by : by = CHOOSE r \in Threads : resumed[r] = running
    OBVIOUS
  <2>0. /\ running # Main /\ resumed' = [resumed EXCEPT ![by] = Nil] /\ running' = by
        /\ stack' = [stack EXCEPT ![by][1] = Held(s)]
        /\ UNCHANGED <<tmudata, doomed, fields, env, upval, open, closed>>
    BY <1>7, <2>1 DEF Yield, Fixed
  <2>2. by \in Threads /\ resumed[by] = running
    BY <1>0, <2>0, <2>1 DEF Chain
  <2>3. by \notin doomed /\ Held(s) \notin doomed
    BY <1>0, <1>h, <2>2
  <2>4. \A q \in Threads : \A n \in Slots : stack'[q][n] = stack[q][n] \/ stack'[q][n] = Held(s)
    BY <1>0, <2>0 DEF TypeOK
  <2>5. \A q \in Threads : resumed'[q] = IF q = by THEN Nil ELSE resumed[q]
    BY <1>0, <2>0 DEF TypeOK
  <2>6. \A q \in Threads : \A n \in Slots : stack'[q][n] = stack[q][n] \/ stack'[q][n] \notin doomed'
    BY <2>0, <2>3, <2>4
  <2> QED BY <1>0, <2>0, <2>3, <2>5, <2>6, StackRewired
<1>8. ASSUME NEW s \in NextSlot, NEW c \in Creatable \cap Closures, NEW r \in Slots, NewClosure(c, s, r)
      PROVE  Rewired
  <2>1. PICK here : here = {v \in UpVals : open[v] = <<running, r>>}
    OBVIOUS
  <2>2. PICK v : v = CHOOSE w \in UpVals : IF here # {} THEN w \in here ELSE mark[w] = "free"
    OBVIOUS
  <2>3. v \in UpVals
    <3>1. \E w \in UpVals : IF here # {} THEN w \in here ELSE mark[w] = "free"
      BY <1>8, <2>1 DEF NewClosure
    <3> QED BY <2>2, <3>1
  <2>0. /\ mark[c] = "free" /\ s # r /\ Hold(s, c)
        /\ open' = [open EXCEPT ![v] = <<running, r>>]
        /\ upval' = [upval EXCEPT ![c] = v]
        /\ env' = [env EXCEPT ![c] = Globals]
        /\ doomed' = doomed \ {v}
        /\ UNCHANGED <<tmudata, fields, closed, running, resumed>>
    BY <1>8, <2>1, <2>2 DEF NewClosure, Fixed
  <2>4. c \notin doomed
    BY <1>w, <2>0
  <2>5. \A th \in Threads : \A n \in Slots :
            stack'[th][n] = stack[th][n] \/ (th = running /\ n = s /\ stack'[th][n] = c)
    BY <1>0, <2>0, HoldCells
  <2>6. \A th \in Threads : \A n \in Slots : stack'[th][n] = stack[th][n] \/ stack'[th][n] \notin doomed'
    BY <2>0, <2>4, <2>5
  <2>7. open'[v] = <<running, r>> /\ \A w \in UpVals : w # v => open'[w] = open[w]
    BY <1>0, <2>0, <2>3 DEF TypeOK
  <2>8. UpValue(v)' \notin doomed'
    <3>1. UpValue(v)' = stack'[running][r]
      BY <2>7 DEF UpValue
    <3>2. stack'[running][r] = Held(r)
      BY <1>0, <2>0, <2>5 DEF Held
    <3> QED BY <1>h, <2>0, <3>1, <3>2
  <2>9. \A w \in UpVals : UpValue(w)' = UpValue(w) \/ UpValue(w)' \notin doomed'
    <3> SUFFICES ASSUME NEW w \in UpVals, w # v
                 PROVE  UpValue(w)' = UpValue(w) \/ UpValue(w)' \notin doomed'
      BY <2>8
    <3>1. open'[w] = open[w] /\ closed'[w] = closed[w]
      BY <2>0, <2>7
    <3> QED BY <1>0, <2>6, <3>1, UpValueAgain
  <2>10. \A u \in Udatas \cup Closures : env'[u] = env[u] \/ env'[u] = Globals
    BY <1>0, <2>0 DEF TypeOK
  <2>11. \A u \in Closures : upval'[u] = upval[u] \/ upval'[u] = v
    BY <1>0, <2>0 DEF TypeOK
  <2>12. \A o \in doomed : o \notin doomed' => o = v
    BY <2>0
  <2> QED BY <1>0, <2>0, <2>3, <2>6, <2>8, <2>9, <2>10, <2>11, <2>12 DEF Rewired
<1>9. ASSUME NEW s \in Slots, CloseUpvals(s) PROVE Rewired
  <2>1. PICK leaving, dead, linked, S, T : Closes(leaving, dead, linked, S, T, s)
    BY <1>9, CloseUpvalsCloses
  <2>0. /\ dead = {} /\ UNCHANGED <<tmudata, fields, env, upval, running, resumed>>
        /\ open' = [v \in UpVals |-> IF v \in leaving THEN <<>> ELSE open[v]]
        /\ closed' = [v \in UpVals |-> IF v \in leaving \ dead THEN UpValue(v) ELSE closed[v]]
        /\ stack' = [stack EXCEPT ![running] = [n \in Slots |-> IF n >= s THEN Nil ELSE Held(n)]]
        /\ doomed' = doomed \ dead
    BY <2>1 DEF Closes, After, Fixed
  <2>2. doomed' = doomed
    BY <2>0
  <2>3. \A th \in Threads : \A n \in Slots : stack'[th][n] = stack[th][n] \/ stack'[th][n] = Nil
    BY <1>0, <2>0 DEF TypeOK, Held
  <2>4. \A th \in Threads : \A n \in Slots : stack'[th][n] = stack[th][n] \/ stack'[th][n] \notin doomed'
    BY <1>0, <2>2, <2>3
  <2>5. \A v \in UpVals : UpValue(v)' = UpValue(v) \/ UpValue(v)' \notin doomed'
    <3> SUFFICES ASSUME NEW v \in UpVals PROVE UpValue(v)' = UpValue(v) \/ UpValue(v)' \notin doomed'
      OBVIOUS
    <3>1. CASE v \in leaving
      <4>1. open'[v] = <<>> /\ closed'[v] = UpValue(v)
        BY <2>0, <3>1
      <4> QED BY <4>1 DEF UpValue
    <3>2. CASE v \notin leaving
      <4>1. open'[v] = open[v] /\ closed'[v] = closed[v]
        BY <2>0, <3>2
      <4> QED BY <1>0, <2>4, <4>1, UpValueAgain
    <3> QED BY <3>1, <3>2
  <2> QED BY <1>0, <2>0, <2>2, <2>4, <2>5 DEF Rewired
<1>10. ASSUME NEW t \in HeldObjects \cap Tables, ClearField(t) PROVE Rewired
  <2>0. /\ fields' = [fields EXCEPT ![t] = {}]
        /\ UNCHANGED <<tmudata, doomed, env, upval, open, closed, stack, running, resumed>>
    BY <1>10 DEF ClearField, Fixed
  <2>1. \A q \in Tables : \A e \in fields'[q] : e \in fields[q]
    BY <1>0, <2>0 DEF TypeOK
  <2>2. \A v \in UpVals : UpValue(v)' = UpValue(v)
    BY <2>0 DEF UpValue
  <2> QED BY <1>0, <2>0, <2>1, <2>2 DEF Rewired
<1>11. ASSUME NEW t \in HeldObjects \cap Tables, NEW k \in (HeldObjects \cup {Num}) \cap world.keys,
              NEW x \in HeldObjects, SetField(t, k, x)
       PROVE  Rewired
  <2>0. /\ fields' = [fields EXCEPT ![t] = {<<k, x>>}]
        /\ UNCHANGED <<tmudata, doomed, env, upval, open, closed, stack, running, resumed>>
    BY <1>11 DEF SetField, Fixed
  <2>1. k \notin doomed /\ x \notin doomed
    BY <1>0, <1>h
  <2>2. \A q \in Tables : \A e \in fields'[q] : e \in fields[q] \/ e = <<k, x>>
    BY <1>0, <2>0 DEF TypeOK
  <2>3. \A v \in UpVals : UpValue(v)' = UpValue(v)
    BY <2>0 DEF UpValue
  <2> QED BY <1>0, <2>0, <2>1, <2>2, <2>3 DEF Rewired
<1>12. ASSUME NEW o \in HeldObjects \cap (Udatas \cup Closures),
              NEW t \in (HeldObjects \cap Tables) \cup {Globals}, SetEnv(o, t)
       PROVE  Rewired
  <2>0. /\ env' = [env EXCEPT ![o] = t]
        /\ UNCHANGED <<tmudata, doomed, fields, upval, open, closed, stack, running, resumed>>
    BY <1>12 DEF SetEnv, Fixed
  <2>1. t \notin doomed
    BY <1>0, <1>h
  <2>2. \A q \in Udatas \cup Closures : env'[q] = env[q] \/ env'[q] = t
    BY <1>0, <2>0 DEF TypeOK
  <2>3. \A v \in UpVals : UpValue(v)' = UpValue(v)
    BY <2>0 DEF UpValue
  <2> QED BY <1>0, <2>0, <2>1, <2>2, <2>3 DEF Rewired
<1>13. ASSUME NEW c \in HeldObjects \cap Closures, NEW x \in HeldObjects, SetUpval(c, x) PROVE Rewired
  <2>1. PICK v : v = upval[c]
    OBVIOUS
  <2>0. /\ IF open[v] = <<>> THEN closed' = [closed EXCEPT ![v] = x] /\ UNCHANGED stack
           ELSE stack' = [stack EXCEPT ![open[v][1]][open[v][2]] = x] /\ UNCHANGED closed
        /\ UNCHANGED <<tmudata, doomed, fields, env, upval, open, running, resumed>>
    BY <1>13, <2>1 DEF SetUpval, Fixed
  <2>2. v \in UpVals /\ x \notin doomed
    BY <1>h, <2>1, UpvalThere
  <2>3. \A th \in Threads : \A s \in Slots : stack'[th][s] = stack[th][s] \/ stack'[th][s] = x
    <3>1. CASE open[v] = <<>>
      BY <2>0, <3>1
    <3>2. CASE open[v] # <<>>
      <4>1. PICK th \in Threads, s \in Slots : open[v] = <<th, s>>
        BY <1>0, <2>2, <3>2 DEF TypeOK
      <4>2. stack' = [stack EXCEPT ![th][s] = x]
        BY <2>0, <3>2, <4>1
      <4> QED BY <1>0, <4>2 DEF TypeOK
    <3> QED BY <3>1, <3>2
  <2>4. \A th \in Threads : \A s \in Slots : stack'[th][s] = stack[th][s] \/ stack'[th][s] \notin doomed'
    BY <2>0, <2>2, <2>3
  <2>5. \A w \in UpVals : UpValue(w)' = UpValue(w) \/ UpValue(w)' \notin doomed'
    <3> SUFFICES ASSUME NEW w \in UpVals PROVE UpValue(w)' = UpValue(w) \/ UpValue(w)' \notin doomed'
      OBVIOUS
    <3>1. CASE closed'[w] = closed[w]
      <4>1. open'[w] = open[w]
        BY <2>0
      <4> QED BY <1>0, <2>4, <3>1, <4>1, UpValueAgain
    <3>2. CASE closed'[w] # closed[w]
      <4>1. w = v /\ open'[v] = <<>> /\ closed'[v] = x
        BY <1>0, <2>0, <2>2, <3>2 DEF TypeOK
      <4>2. UpValue(w)' = x
        BY <4>1 DEF UpValue
      <4> QED BY <2>0, <2>2, <4>2
    <3> QED BY <3>1, <3>2
  <2> QED BY <1>0, <2>0, <2>4, <2>5 DEF Rewired
<1> QED BY <1>s, <1>1, <1>2, <1>4, <1>5, <1>6, <1>7, <1>8, <1>9, <1>10, <1>11, <1>12, <1>13 DEF Program

(* During a collection what is doomed is white or dead.                    *)
LEMMA DoomedPale ==
    ASSUME IInv, Doomed, gcstate # "pause"
    PROVE  \A o \in doomed : o \in Objects /\ mark[o] \in Whites
<1>1. /\ TypeOK /\ gcstate \in {"propagate", "sweepstring", "sweep", "finalize"}
      /\ white \in Whites /\ OtherWhite \in Whites /\ doomed \subseteq Objects
  BY TwoWhites DEF IInv, TypeOK
<1> QED BY <1>1 DEF Doomed, IsDead

(* A marking from what is not doomed leaves the doomed as they are.        *)
LEMMA MarkingSpares ==
    ASSUME IInv, Doomed, gcstate = "propagate", NEW S \in Markings,
           S.gray = gray, S.grayagain = grayagain, S.weak = weak,
           \A o \in doomed : S.mark[o] = mark[o],
           NEW X \in SUBSET (Objects \ doomed), NEW T, T = Marked(S, X)
    PROVE  \A o \in doomed : T.mark[o] = mark[o]
<1>1. PICK C : C = Objects \ doomed
  OBVIOUS
<1>0. TypeOK /\ TriColour /\ Apart /\ doomed \subseteq Objects /\ \A o \in doomed : mark[o] = white
  BY DEF IInv, ColourInv, Doomed, Hidden, TypeOK
<1>2. C \in SUBSET Objects /\ Shut(C)
  BY <1>0, <1>1, SparedShut
<1>3. white \notin Shades
  BY <1>0, TwoWhites DEF Shades, TypeOK, Whites
<1>4. Confined(S, C)
  <2>1. \A x \in gray \cup grayagain \cup weak : mark[x] \in Shades /\ x \in Objects
    BY <1>0 DEF TriColour, TypeOK, Objects
  <2>2. S.gray \cup S.grayagain \cup S.weak \subseteq C
    BY <1>0, <1>1, <1>3, <2>1
  <2>3. \A o \in Objects \ C : S.mark[o] = white
    BY <1>0, <1>1
  <2> QED BY <2>2, <2>3 DEF Confined
<1>5. X \in SUBSET C
  BY <1>1
<1>6. Confined(T, C)
  BY <1>0, <1>2, <1>4, <1>5, MarkedConfined
<1> QED BY <1>0, <1>1, <1>6 DEF Confined

(* The barrier forward does so, when the object is not doomed.             *)
LEMMA BarrierSpares ==
    ASSUME IInv, Doomed, gcstate # "pause", NEW o \in Objects, NEW x \in Objects,
           gcstate = "propagate" => x \notin doomed, NEW T, T = BarrierForward(Marking, o, x)
    PROVE  \A y \in doomed : T.mark[y] = mark[y]
<1>0. TypeOK /\ Marking \in Markings /\ Marking.mark = mark /\ Marking.gray = gray
      /\ Marking.grayagain = grayagain /\ Marking.weak = weak
  BY MarkingType DEF IInv
<1>1. CASE ~(mark[x] \in Whites /\ mark[o] = "black")
  BY <1>0, <1>1 DEF BarrierForward
<1>2. CASE mark[x] \in Whites /\ mark[o] = "black" /\ gcstate = "propagate"
  <2>1. PICK S : S = Marking
    OBVIOUS
  <2>2. PICK X : X = {x}
    OBVIOUS
  <2>3. T = Marked(S, X)
    BY <1>0, <1>2, <2>1, <2>2 DEF BarrierForward
  <2>4. X \in SUBSET (Objects \ doomed)
    BY <1>2, <2>2
  <2>5. /\ S \in Markings /\ S.gray = gray /\ S.grayagain = grayagain /\ S.weak = weak
        /\ \A y \in doomed : S.mark[y] = mark[y]
    BY <1>0, <2>1
  <2> QED BY <1>2, <2>3, <2>4, <2>5, MarkingSpares
<1>3. CASE mark[x] \in Whites /\ mark[o] = "black" /\ gcstate # "propagate"
  <2>1. T = [Marking EXCEPT !.mark[o] = white]
    BY <1>0, <1>3 DEF BarrierForward
  <2>2. T.mark = [mark EXCEPT ![o] = white]
    BY <2>1 DEF Marking
  <2>3. o \notin doomed /\ \A y \in doomed : y \in Objects
    BY <1>0, <1>3, TwoWhites, DoomedPale
  <2> QED BY <1>0, <2>2, <2>3 DEF TypeOK
<1> QED BY <1>1, <1>2, <1>3

(* The program recolours nothing that is doomed and stays so.              *)
Unpainted == \A o \in doomed' : o \in doomed /\ mark'[o] = mark[o]

(* Each step of the program: what it creates was free, what it looks up is *)
(* no longer doomed, and what its barriers mark is not.                    *)
LEMMA ProgramUnpainted ==
    ASSUME IInv, Doomed, gcstate # "pause", Program
    PROVE  Unpainted
<1>0. /\ TypeOK /\ mark \in [Objects -> Whites \cup {"free", "gray", "black"}]
      /\ \A o \in doomed : o \in Objects /\ mark[o] # "free" /\ mark[o] # "black" /\ mark[o] # "gray"
  BY TwoWhites, DoomedPale DEF IInv, TypeOK
<1>h. /\ \A x \in HeldObjects : x \in Objects /\ (gcstate = "propagate" => x \notin doomed)
      /\ Globals \in Objects /\ (gcstate = "propagate" => Globals \notin doomed)
  <2>1. Globals \in Objects /\ \A x \in HeldObjects : x \in Objects
    BY HeldLives, RootAssumption DEF Objects
  <2>2. CASE gcstate = "propagate"
    <3>1. Hidden
      BY <2>2 DEF Doomed
    <3>2. \A x \in HeldObjects : x \notin doomed
      BY <3>1, HeldHidden
    <3> QED BY <2>1, <3>1, <3>2 DEF Hidden
  <2> QED BY <2>1, <2>2
<1>1. ASSUME NEW s \in NextSlot, NEW o \in Creatable \cap (Tables \cup Udatas \cup Threads), New(o, s)
      PROVE  Unpainted
  <2>1. mark[o] = "free" /\ mark' = [mark EXCEPT ![o] = white] /\ doomed' = doomed
    BY <1>1 DEF New
  <2> QED BY <1>0, <2>1 DEF Unpainted
<1>2. ASSUME NEW s \in NextSlot, NEW o \in Creatable \cap Strings, Intern(o, s) PROVE Unpainted
  <2>1. PICK c : c = IF mark[o] \in {"free", OtherWhite} THEN white ELSE mark[o]
    OBVIOUS
  <2>2. mark' = [mark EXCEPT ![o] = c] /\ doomed' = doomed \ {o}
    BY <1>2, <2>1 DEF Intern
  <2> QED BY <1>0, <2>2 DEF Unpainted
<1>3. ASSUME NEW s \in NextSlot, NEW c \in Creatable \cap Closures, NEW r \in Slots, NewClosure(c, s, r)
      PROVE  Unpainted
  <2>1. PICK here : here = {v \in UpVals : open[v] = <<running, r>>}
    OBVIOUS
  <2>2. PICK v : v = CHOOSE w \in UpVals : IF here # {} THEN w \in here ELSE mark[w] = "free"
    OBVIOUS
  <2>3. /\ mark[c] = "free" /\ doomed' = doomed \ {v}
        /\ mark' = [mark EXCEPT ![c] = white, ![v] = IF @ \in {"free", OtherWhite} THEN white ELSE @]
    BY <1>3, <2>1, <2>2 DEF NewClosure
  <2>4. \A o \in Objects : o # c /\ o # v => mark'[o] = mark[o]
    BY <1>0, <2>3
  <2> QED BY <1>0, <2>3, <2>4 DEF Unpainted
<1>4. ASSUME NEW s \in NextSlot, NEW o \in HeldObjects, NEW x \in Readable(o), Read(s, x) PROVE Unpainted
  BY <1>4 DEF Read, Colours, Unpainted
<1>5. ASSUME NEW s \in Slots, NEW r \in Slots, Resume(s, r) \/ Drop(s) \/ Yield(s) PROVE Unpainted
  BY <1>5 DEF Resume, Drop, Yield, Colours, Unpainted
<1>6. ASSUME NEW s \in Slots, CloseUpvals(s) PROVE Unpainted
  <2>1. PICK leaving, dead, linked, S, T : Closes(leaving, dead, linked, S, T, s)
    BY <1>6, CloseUpvalsCloses
  <2>2. mark' = T.mark /\ After(dead, linked, T) /\ doomed' = doomed \ dead
        /\ linked = {v \in leaving : mark[v] = "gray"} /\ leaving \subseteq UpVals
    BY <2>1 DEF Closes, Adopt
  <2>3. \A o \in doomed : o \notin linked
    BY <1>0, <2>2
  <2>4. CASE gcstate # "propagate"
    <3>1. \A o \in Objects \ (dead \cup linked) : T.mark[o] = mark[o]
      BY <2>2, <2>4 DEF After
    <3> QED BY <1>0, <2>2, <2>3, <3>1 DEF Unpainted
  <2>5. CASE gcstate = "propagate"
    <3>1. Hidden /\ Nil \notin doomed
      BY <2>5, KindsDiffer DEF Doomed, TypeOK, IInv
    <3>2. PICK X : X = {UpValue(v) : v \in linked} \ {Nil}
      OBVIOUS
    <3>3. X \in SUBSET (Objects \ doomed)
      <4> SUFFICES ASSUME NEW v \in linked, UpValue(v) # Nil PROVE UpValue(v) \in Objects /\ UpValue(v) \notin doomed
        BY <3>2
      <4>1. v \in UpVals /\ v \notin doomed
        BY <2>2, <2>3
      <4> QED BY <1>0, <3>1, <4>1, UpValueType DEF Hidden, Apart, Values
    <3>4. dead = {} /\ T = Marked(S, X)
      BY <2>1, <2>2, <2>5, <3>2 DEF Closes, Closing, After
    <3>5. S = [Marking EXCEPT !.mark = [v \in Objects |-> IF v \in linked THEN "black" ELSE mark[v]]]
      BY <2>1, <2>5, <3>4 DEF Closes, Closing
    <3>6. S = [mark |-> [v \in Objects |-> IF v \in linked THEN "black" ELSE mark[v]],
               gray |-> gray, grayagain |-> grayagain, weak |-> weak]
      BY <3>5 DEF Marking
    <3>7. S \in Markings
      <4>1. [v \in Objects |-> IF v \in linked THEN "black" ELSE mark[v]]
                \in [Objects -> Whites \cup Shades \cup {"free"}]
        BY <1>0 DEF Shades
      <4> QED BY <1>0, <3>6, <4>1 DEF Markings, TypeOK
    <3>8. /\ S.gray = gray /\ S.grayagain = grayagain /\ S.weak = weak
          /\ \A o \in doomed : S.mark[o] = mark[o]
      BY <1>0, <2>3, <3>6
    <3>9. \A o \in doomed : T.mark[o] = mark[o]
      BY <2>5, <3>3, <3>4, <3>7, <3>8, MarkingSpares
    <3> QED BY <2>2, <3>9 DEF Unpainted
  <2> QED BY <2>4, <2>5
<1>7. ASSUME NEW t \in HeldObjects \cap Tables, ClearField(t) PROVE Unpainted
  BY <1>7 DEF ClearField, Colours, Unpainted
<1>8. ASSUME NEW t \in HeldObjects \cap Tables, NEW k \in (HeldObjects \cup {Num}) \cap world.keys,
             NEW x \in HeldObjects, SetField(t, k, x)
      PROVE  Unpainted
  <2>1. PICK key : key = IF fields[t] = {} THEN k ELSE Num
    OBVIOUS
  <2>2. PICK T : T = BarrierBack(Marking, t, key, x)
    OBVIOUS
  <2>3. mark' = T.mark /\ doomed' = doomed
    BY <1>8, <2>1, <2>2 DEF SetField, Adopt
  <2>m. Marking.mark = mark
    BY DEF Marking
  <2>4. CASE mark[t] = "black" /\ \E y \in {key, x} \cap Objects : mark[y] \in Whites
    <3>1. T = [Marking EXCEPT !.mark[t] = "gray", !.grayagain = @ \cup {t}]
      BY <2>2, <2>4, <2>m DEF BarrierBack
    <3>2. T.mark = [mark EXCEPT ![t] = "gray"]
      BY <3>1 DEF Marking
    <3> QED BY <1>0, <2>3, <2>4, <3>2 DEF Unpainted
  <2>5. CASE ~(mark[t] = "black" /\ \E y \in {key, x} \cap Objects : mark[y] \in Whites)
    <3>1. T = Marking
      BY <2>2, <2>5, <2>m DEF BarrierBack
    <3> QED BY <2>3, <2>m, <3>1 DEF Unpainted
  <2> QED BY <2>4, <2>5
<1>9. ASSUME NEW o \in HeldObjects \cap (Udatas \cup Closures),
             NEW t \in (HeldObjects \cap Tables) \cup {Globals}, SetEnv(o, t)
      PROVE  Unpainted
  <2>1. PICK T : T = BarrierForward(Marking, o, t)
    OBVIOUS
  <2>2. mark' = T.mark /\ doomed' = doomed
    BY <1>9, <2>1 DEF SetEnv, Adopt
  <2>3. o \in Objects /\ t \in Objects /\ (gcstate = "propagate" => t \notin doomed)
    BY <1>h
  <2>4. \A y \in doomed : T.mark[y] = mark[y]
    BY <2>1, <2>3, BarrierSpares
  <2> QED BY <2>2, <2>4 DEF Unpainted
<1>10. ASSUME NEW c \in HeldObjects \cap Closures, NEW x \in HeldObjects, SetUpval(c, x) PROVE Unpainted
  <2>1. PICK v : v = upval[c]
    OBVIOUS
  <2>2. PICK T : T = BarrierForward(Marking, v, x)
    OBVIOUS
  <2>3. mark' = T.mark /\ doomed' = doomed
    BY <1>10, <2>1, <2>2 DEF SetUpval, Adopt
  <2>4. v \in Objects /\ x \in Objects /\ (gcstate = "propagate" => x \notin doomed)
    BY <1>h, <2>1, UpvalThere
  <2>5. \A y \in doomed : T.mark[y] = mark[y]
    BY <2>2, <2>4, BarrierSpares
  <2> QED BY <2>3, <2>5 DEF Unpainted
<1> QED BY <1>1, <1>2, <1>3, <1>4, <1>5, <1>6, <1>7, <1>8, <1>9, <1>10 DEF Program

(* Whatever the program does, what is doomed stays so.                     *)
LEMMA ProgramDoomed ==
    ASSUME IInv, Doomed, Program
    PROVE  Doomed'
<1>0. UNCHANGED <<gcstate, white>>
  <2>1. UNCHANGED Fixed
    BY DEF Program, New, Intern, NewClosure, Read, Resume, Drop, Yield, CloseUpvals, ClearField, SetField,
           SetEnv, SetUpval
  <2> QED BY <2>1 DEF Fixed
<1>1. CASE gcstate = "pause"
  BY <1>0, <1>1 DEF Doomed
<1>2. CASE gcstate = "propagate"
  <2>1. TypeOK /\ Hidden /\ \A o \in doomed : mark[o] = white
    BY <1>2 DEF Doomed, IInv
  <2>2. Hidden'
    BY <1>2, <2>1, ProgramRewired, HiddenAgain
  <2>3. Unpainted
    BY <1>2, ProgramUnpainted
  <2>4. \A o \in doomed' : mark'[o] = white'
    BY <1>0, <2>1, <2>3 DEF Unpainted
  <2> QED BY <1>0, <1>2, <2>2, <2>4 DEF Doomed
<1>3. CASE gcstate \notin {"pause", "propagate"}
  <2>1. Unpainted
    BY <1>3, ProgramUnpainted
  <2>2. OtherWhite' = OtherWhite
    BY <1>0 DEF OtherWhite
  <2>3. (\A o \in doomed : IsDead(o)) => (\A o \in doomed' : IsDead(o)')
    BY <2>1, <2>2 DEF Unpainted, IsDead
  <2>4. doomed = {} => doomed' = {}
    BY <2>1 DEF Unpainted
  <2> QED BY <1>0, <1>3, <2>3, <2>4 DEF Doomed
<1> QED BY <1>1, <1>2, <1>3

(* What was garbage when a collection began is freed when it has swept,    *)
(* unless it was looked up again (a string, an upvalue of the stack) or is *)
(* to be finalized: no barrier, weak table or thread of a garbage cycle    *)
(* keeps it.                                                               *)
THEOREM GarbageIsFreed == Spec => []GarbageGoes
<1>1. Init => Doomed
  BY InitDoomed
<1>2. IInv /\ IInv' /\ Doomed /\ [Next]_vars => Doomed'
  <2> SUFFICES ASSUME IInv, IInv', Doomed, [Next]_vars PROVE Doomed'
    OBVIOUS
  <2>1. CASE MarkRoot
    BY <2>1, MarkRootDoomed
  <2>2. CASE PropagateMark
    BY <2>2, PropagateMarkDoomed
  <2>3. CASE Atomic
    BY <2>3, AtomicDoomed
  <2>4. CASE SweepString \/ SweepStep
    BY <2>4, SweepDoomed
  <2>5. CASE CallGCTM \/ EndCycle \/ FullGC
    BY <2>5, CallDoomed
  <2>6. CASE Program
    BY <2>6, ProgramDoomed
  <2>7. CASE UNCHANGED vars
    BY <2>7 DEF vars, lists, heap, Doomed, Hidden, Apart, UpValue, IsDead, OtherWhite
  <2> QED BY <2>1, <2>2, <2>3, <2>4, <2>5, <2>6, <2>7 DEF Next, GCStep
<1>3. Doomed => GarbageGoes
  BY DEF Doomed, GarbageGoes
<1> QED BY <1>1, <1>2, <1>3, Invariance, PTL DEF Spec
=============================================================================
