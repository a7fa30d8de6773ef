---------------------- MODULE CollectorMarking_proofs ----------------------
(***************************************************************************)
(* What marking does, for every finite set of objects and every heap: what *)
(* is reached from the marked objects, and nothing else, is marked.        *)
(***************************************************************************)
EXTENDS CollectorMarking, FiniteSetTheorems, TLAPS

-----------------------------------------------------------------------------

ClosedUnder(next, C) == \A o \in C : next[o] \subseteq C
Least(next, R) == {o \in Objects : \A C \in SUBSET Objects : R \subseteq C /\ ClosedUnder(next, C) => o \in C}

(* The least set with R that is closed under next is one.                  *)
LEMMA LeastClosed ==
    ASSUME NEW next \in [Objects -> SUBSET Objects], NEW R \in SUBSET Objects
    PROVE  /\ Least(next, R) \in SUBSET Objects
           /\ R \subseteq Least(next, R)
           /\ ClosedUnder(next, Least(next, R))
           /\ \A C \in SUBSET Objects : R \subseteq C /\ ClosedUnder(next, C) => Least(next, R) \subseteq C
BY DEF Least, ClosedUnder

(* What going on from roots comes to is the least closed set with the      *)
(* roots: by well-founded minimality, since the objects are finitely many. *)
LEMMA ClosureIsLeast ==
    ASSUME NEW next \in [Objects -> SUBSET Objects], NEW roots \in SUBSET Objects
    PROVE  Closure(next, roots) = Least(next, roots)
<1> DEFINE More(R) == R \cup UNION {next[o] : o \in R}
           Body(f, R) == IF More(R) = R THEN R ELSE f[More(R)]
           From == CHOOSE f : f = [R \in SUBSET Objects |-> Body(f, R)]
           Limit == [R \in SUBSET Objects |-> Least(next, R)]
<1>1. Closure(next, roots) = From[roots]
  BY DEF Closure
<1>2. ASSUME NEW R \in SUBSET Objects
      PROVE  /\ More(R) \in SUBSET Objects /\ R \subseteq More(R)
             /\ More(R) = R => Least(next, R) = R
             /\ Least(next, More(R)) = Least(next, R)
  <2>1. More(R) \in SUBSET Objects /\ R \subseteq More(R)
    OBVIOUS
  <2>2. \A C \in SUBSET Objects : R \subseteq C /\ ClosedUnder(next, C) => More(R) \subseteq C
    BY DEF ClosedUnder
  <2>3. Least(next, More(R)) = Least(next, R)
    <3> HIDE DEF More
    <3> QED BY <2>1, <2>2 DEF Least
  <2>4. ASSUME More(R) = R PROVE Least(next, R) = R
    <3>1. ClosedUnder(next, R)
      BY <2>4 DEF ClosedUnder
    <3> QED BY <3>1, LeastClosed
  <2> QED BY <2>1, <2>3, <2>4
<1> HIDE DEF More
<1>3. Limit = [R \in SUBSET Objects |-> Body(Limit, R)]
  <2>1. ASSUME NEW R \in SUBSET Objects PROVE Least(next, R) = Body(Limit, R)
    BY <1>2
  <2> QED BY <2>1
<1> HIDE DEF Limit
<1>4. From = [R \in SUBSET Objects |-> Body(From, R)]
  <2> DEFINE P(f) == f = [R \in SUBSET Objects |-> Body(f, R)]
  <2>1. P(Limit)
    BY <1>3
  <2>2. From = CHOOSE f : P(f)
    OBVIOUS
  <2> HIDE DEF P
  <2>3. P(From)
    BY <2>1, <2>2
  <2> QED BY <2>3 DEF P
<1> HIDE DEF From
<1>5. \A R \in SUBSET Objects : From[R] = Body(From, R)
  BY <1>4
<1>6. \A R \in SUBSET Objects : From[R] = Least(next, R)
  <2> DEFINE Bad == {R \in SUBSET Objects : From[R] # Least(next, R)}
             Rest == {Objects \ R : R \in Bad}
  <2>1. SUFFICES ASSUME Bad # {} PROVE FALSE
    OBVIOUS
  <2>2. Rest \subseteq SUBSET Objects /\ Rest # {}
    BY <2>1
  <2>3. IsWellFoundedOn(StrictSubsetOrdering(Objects), SUBSET Objects)
    BY SizeAssumption, FS_StrictSubsetOrderingWellFounded, FS_FiniteSubsetsOfFinite
  <2>4. PICK X \in Rest : \A Y \in Rest : ~(<<Y, X>> \in StrictSubsetOrdering(Objects))
    <3> HIDE DEF Rest, Bad
    <3> QED BY <2>2, <2>3, WFMin
  <2>5. PICK R \in Bad : X = Objects \ R
    BY <2>4
  <2>6. More(R) # R /\ From[R] = From[More(R)]
    BY <2>5, <1>2, <1>5
  <2>7. From[More(R)] # Least(next, More(R))
    BY <2>6, <2>5, <1>2
  <2>8. Objects \ More(R) \in Rest
    BY <2>7, <2>5, <1>2
  <2>9. Objects \ More(R) \subseteq X /\ Objects \ More(R) # X
    BY <2>5, <2>6, <1>2
  <2> HIDE DEF Rest, Bad
  <2> QED BY <2>2, <2>4, <2>8, <2>9 DEF StrictSubsetOrdering
<1> QED BY <1>1, <1>6

(* A closure contains its roots, is closed, and is contained in every set  *)
(* that is closed and contains the roots.                                  *)
LEMMA ClosureProperties ==
    ASSUME NEW next \in [Objects -> SUBSET Objects], NEW roots \in SUBSET Objects
    PROVE  /\ Closure(next, roots) \in SUBSET Objects
           /\ roots \subseteq Closure(next, roots)
           /\ \A o \in Closure(next, roots) : next[o] \subseteq Closure(next, roots)
           /\ \A C \in SUBSET Objects :
                 roots \subseteq C /\ (\A o \in C : next[o] \subseteq C) => Closure(next, roots) \subseteq C
BY LeastClosed, ClosureIsLeast DEF ClosedUnder

-----------------------------------------------------------------------------
(* The kinds of objects, and the types of what an object refers to. *)

(* The kinds of objects are disjoint, and neither nil nor a number is an   *)
(* object.                                                                 *)
LEMMA KindsDiffer ==
    /\ Tables \cap Strings = {} /\ Tables \cap Udatas = {} /\ Tables \cap Closures = {}
    /\ Tables \cap UpVals = {} /\ Tables \cap Threads = {}
    /\ Strings \cap Udatas = {} /\ Strings \cap Closures = {} /\ Strings \cap UpVals = {}
    /\ Strings \cap Threads = {}
    /\ Udatas \cap Closures = {} /\ Udatas \cap UpVals = {} /\ Udatas \cap Threads = {}
    /\ Closures \cap UpVals = {} /\ Closures \cap Threads = {} /\ UpVals \cap Threads = {}
    /\ Nil \notin Objects /\ Num \notin Objects /\ Nil # Num
<1>1. \A i, j \in 1..6 : i # j => Kinds[i] \cap Kinds[j] = {}
  BY KindAssumption DEF Kinds
<1>2. /\ Kinds[1] = Tables /\ Kinds[2] = Strings /\ Kinds[3] = Udatas
      /\ Kinds[4] = Closures /\ Kinds[5] = UpVals /\ Kinds[6] = Threads
  BY DEF Kinds
<1>3. /\ Kinds[1] \cap Kinds[2] = {} /\ Kinds[1] \cap Kinds[3] = {} /\ Kinds[1] \cap Kinds[4] = {}
      /\ Kinds[1] \cap Kinds[5] = {} /\ Kinds[1] \cap Kinds[6] = {} /\ Kinds[2] \cap Kinds[3] = {}
      /\ Kinds[2] \cap Kinds[4] = {} /\ Kinds[2] \cap Kinds[5] = {} /\ Kinds[2] \cap Kinds[6] = {}
      /\ Kinds[3] \cap Kinds[4] = {} /\ Kinds[3] \cap Kinds[5] = {} /\ Kinds[3] \cap Kinds[6] = {}
      /\ Kinds[4] \cap Kinds[5] = {} /\ Kinds[4] \cap Kinds[6] = {} /\ Kinds[5] \cap Kinds[6] = {}
  BY <1>1
<1> QED BY <1>2, <1>3, KindAssumption

(* An upvalue holds a value or nil.                                        *)
LEMMA UpValueType ==
    ASSUME TypeOK, NEW v \in UpVals
    PROVE  UpValue(v) \in Values \cup {Nil}
<1>1. CASE open[v] = <<>>
  BY <1>1 DEF TypeOK, UpValue
<1>2. CASE open[v] # <<>>
  BY <1>2 DEF TypeOK, UpValue
<1> QED BY <1>1, <1>2

(* What each kind of object refers to. *)
LEMMA ReferencesOf ==
    ASSUME TypeOK
    PROVE  /\ \A t \in Tables : \A x : x \in References(t) <=> x # Num /\ \E e \in fields[t] : x = e[1] \/ x = e[2]
           /\ \A t \in Tables : \A x :
                 x \in Children(t) <=>
                    /\ x # Num
                    /\ \E e \in fields[t] :
                          (x = e[1] /\ "k" \notin mode[t]) \/ (x = e[2] /\ "v" \notin mode[t])
           /\ \A o \in Objects \ Tables : References(o) = Children(o)
           /\ \A o \in Strings : Children(o) = {}
           /\ \A o \in Udatas : Children(o) = {env[o]} \ {Nil}
           /\ \A o \in Closures : Children(o) = {env[o], upval[o]} \ {Nil}
           /\ \A o \in UpVals : Children(o) = {UpValue(o)} \ {Nil}
           /\ \A o \in Threads : Children(o) = ({stack[o][s] : s \in Slots} \cup {resumed[o]}) \ {Nil}
<1>t. ASSUME NEW t \in Tables, NEW e \in fields[t] PROVE e[1] \in Values \cup {Num} /\ e[2] \in Values
  BY DEF TypeOK
<1>n. Nil \notin Values \cup {Num}
  BY KindsDiffer DEF Values
<1>1. ASSUME NEW t \in Tables, NEW x
      PROVE  /\ x \in References(t) <=> x # Num /\ \E e \in fields[t] : x = e[1] \/ x = e[2]
             /\ x \in Children(t) <=>
                    /\ x # Num
                    /\ \E e \in fields[t] :
                          (x = e[1] /\ "k" \notin mode[t]) \/ (x = e[2] /\ "v" \notin mode[t])
  <2>1. References(t) = (UNION {{e[1], e[2]} : e \in fields[t]}) \ {Num}
    BY DEF References
  <2>2. Children(t) = ({e[1] : e \in IF "k" \in mode[t] THEN {} ELSE fields[t]}
                       \cup {e[2] : e \in IF "v" \in mode[t] THEN {} ELSE fields[t]}) \ {Nil, Num}
    <3>1. t \notin Udatas \cup Closures \cup UpVals \cup Threads
      BY KindsDiffer
    <3> QED BY <3>1 DEF Children
  <2>3. \A e \in fields[t] : e[1] # Nil /\ e[2] # Nil
    BY <1>t, <1>n
  <2>4. x \in References(t) <=> x # Num /\ \E e \in fields[t] : x = e[1] \/ x = e[2]
    BY <2>1
  <2>5. CASE "k" \in mode[t]
    BY <2>5, <2>2, <2>3, <2>4
  <2>6. CASE "k" \notin mode[t]
    BY <2>6, <2>2, <2>3, <2>4
  <2> QED BY <2>5, <2>6
<1>2. ASSUME NEW o \in Objects \ Tables PROVE References(o) = Children(o)
  BY DEF References
<1>3. ASSUME NEW o \in Strings PROVE Children(o) = {}
  BY KindsDiffer DEF Children
<1>4. ASSUME NEW o \in Udatas PROVE Children(o) = {env[o]} \ {Nil}
  BY KindsDiffer DEF Children, TypeOK, Objects
<1>5. ASSUME NEW o \in Closures PROVE Children(o) = {env[o], upval[o]} \ {Nil}
  BY KindsDiffer DEF Children, TypeOK, Objects
<1>6. ASSUME NEW o \in UpVals PROVE Children(o) = {UpValue(o)} \ {Nil}
  BY KindsDiffer, UpValueType DEF Children, Values
<1>7. ASSUME NEW o \in Threads PROVE Children(o) = ({stack[o][s] : s \in Slots} \cup {resumed[o]}) \ {Nil}
  <2>1. \A s \in Slots : stack[o][s] # Num
    BY KindsDiffer DEF TypeOK, Values
  <2>2. resumed[o] # Num
    BY KindsDiffer DEF TypeOK, Objects
  <2> QED BY <2>1, <2>2, KindsDiffer DEF Children
<1> QED BY <1>1, <1>2, <1>3, <1>4, <1>5, <1>6, <1>7

(* Children are objects, and among the references. *)
LEMMA ChildrenType ==
    ASSUME TypeOK, NEW o \in Objects
    PROVE  /\ References(o) \in SUBSET Objects
           /\ Children(o) \subseteq References(o)
<1>1. CASE o \in Tables
  <2>1. \A e \in fields[o] : e[1] \in Objects \cup {Num} /\ e[2] \in Objects
    BY <1>1 DEF TypeOK, Values
  <2> QED BY <1>1, <2>1, ReferencesOf
<1>2. CASE o \in Udatas \cup Closures
  <2>1. env[o] \in Objects \cup {Nil} /\ (o \in Closures => upval[o] \in Objects \cup {Nil})
    BY <1>2 DEF TypeOK, Objects
  <2>2. o \in Objects \ Tables /\ Children(o) \subseteq Objects
    BY <1>2, <2>1, ReferencesOf, KindsDiffer DEF Objects
  <2>3. References(o) = Children(o)
    BY <2>2, ReferencesOf
  <2> QED BY <2>2, <2>3
<1>3. CASE o \in UpVals
  BY <1>3, ReferencesOf, KindsDiffer, UpValueType DEF Values
<1>4. CASE o \in Threads
  <2>1. \A s \in Slots : stack[o][s] \in Values \cup {Nil}
    BY <1>4 DEF TypeOK
  <2>2. resumed[o] \in Threads \cup {Nil}
    BY <1>4 DEF TypeOK
  <2>3. o \in Objects \ Tables /\ Children(o) \subseteq Objects
    BY <1>4, <2>1, <2>2, ReferencesOf, KindsDiffer DEF Objects, Values
  <2>4. References(o) = Children(o)
    BY <2>3, ReferencesOf
  <2> QED BY <2>3, <2>4
<1>5. CASE o \in Strings
  <2>1. o \in Objects \ Tables /\ Children(o) = {}
    BY <1>5, ReferencesOf, KindsDiffer
  <2>2. References(o) = Children(o)
    BY <2>1, ReferencesOf
  <2> QED BY <2>1, <2>2
<1> QED BY <1>1, <1>2, <1>3, <1>4, <1>5 DEF Objects

-----------------------------------------------------------------------------
(* Marking.  In a marking S, what is white has not been come to. *)

Shades == {"gray", "black"}
Markings ==
    [mark : [Objects -> Whites \cup Shades \cup {"free"}],
     gray : SUBSET (Tables \cup Closures \cup Threads),
     grayagain : SUBSET (Tables \cup Threads),
     weak : SUBSET Tables]

(* S and T differ at o because o was come to from S to T. *)
Turned(S, T, o) ==
    /\ T.mark[o] \in Shades
    /\ T.mark[o] = "black" => ~StaysGray(o) /\ ~IsOpen(o) /\ o \notin Strings
    /\ o \in Udatas => T.mark[o] = "black"

(* What reallymarkobject does: white objects turn gray or black, those of  *)
(* X among them; what turned and is not to be traversed has children that  *)
(* are not white; nothing turns that is not reached through white objects. *)
LEMMA MarkedEffect ==
    ASSUME TypeOK, NEW S \in Markings, NEW X \in SUBSET Objects, NEW T, T = Marked(S, X)
    PROVE  /\ T \in Markings /\ T.grayagain = S.grayagain /\ T.weak = S.weak
           /\ S.gray \subseteq T.gray
           /\ \A o \in Objects : T.mark[o] # S.mark[o] =>
                 /\ S.mark[o] \in Whites /\ Turned(S, T, o)
                 /\ T.mark[o] = "gray" => o \in Strings \cup T.gray \/ IsOpen(o)
                 /\ o \in Tables \cup Closures \cup Threads => T.mark[o] = "gray" /\ o \in T.gray
                 /\ o \in Udatas \cup UpVals => \A x \in Children(o) : T.mark[x] \notin Whites
           /\ \A o \in X : T.mark[o] \notin Whites
           /\ \A o \in T.gray \ S.gray : T.mark[o] # S.mark[o]
           /\ \A C \in SUBSET Objects :
                 /\ \A o \in X : S.mark[o] \in Whites => o \in C
                 /\ \A o \in C \cap (Udatas \cup UpVals) : \A x \in Children(o) : S.mark[x] \in Whites => x \in C
                 => \A o \in Objects \ C : T.mark[o] = S.mark[o]
<1> DEFINE next == [o \in Objects |-> IF o \in Udatas \cup UpVals THEN WhiteOf(S, Children(o)) ELSE {}]
           new == NewlyMarked(S, X)
<1>1. next \in [Objects -> SUBSET Objects] /\ WhiteOf(S, X) \in SUBSET Objects
  BY ChildrenType DEF WhiteOf
<1>2. new = Closure(next, WhiteOf(S, X))
  BY DEF NewlyMarked
<1>3. /\ new \in SUBSET Objects /\ WhiteOf(S, X) \subseteq new
      /\ \A o \in new : next[o] \subseteq new
      /\ \A C \in SUBSET Objects :
            WhiteOf(S, X) \subseteq C /\ (\A o \in C : next[o] \subseteq C) => new \subseteq C
  <2> HIDE DEF next, new
  <2> QED BY <1>1, <1>2, ClosureProperties
<1>4. /\ T.mark = [o \in Objects |->
                     IF o \notin new THEN S.mark[o]
                     ELSE IF o \in Udatas \cup UpVals /\ ~IsOpen(o) THEN "black" ELSE "gray"]
      /\ T.gray = S.gray \cup (new \cap (Tables \cup Closures \cup Threads))
      /\ T.grayagain = S.grayagain /\ T.weak = S.weak
      /\ T = [mark |-> T.mark, gray |-> T.gray, grayagain |-> T.grayagain, weak |-> T.weak]
  BY DEF Marked
<1>5. /\ S.mark \in [Objects -> Whites \cup Shades \cup {"free"}]
      /\ S.gray \in SUBSET (Tables \cup Closures \cup Threads)
      /\ S.grayagain \in SUBSET (Tables \cup Threads) /\ S.weak \in SUBSET Tables
  BY DEF Markings
<1>6. T \in Markings
  <2> HIDE DEF new
  <2>1. T.mark \in [Objects -> Whites \cup Shades \cup {"free"}]
    BY <1>4, <1>5 DEF Shades
  <2> QED BY <2>1, <1>4, <1>5 DEF Markings
<1>7. \A o \in new : S.mark[o] \in Whites
  <2> DEFINE C == {o \in Objects : S.mark[o] \in Whites}
  <2>1. WhiteOf(S, X) \subseteq C /\ \A o \in C : next[o] \subseteq C
    BY <1>1 DEF WhiteOf
  <2> HIDE DEF next, new
  <2> QED BY <2>1, <1>3
<1>8. \A o \in new \cap (Udatas \cup UpVals) : \A x \in Children(o) : S.mark[x] \in Whites => x \in new
  <2> HIDE DEF new
  <2> QED BY <1>3 DEF WhiteOf
<1>9. \A o \in Objects : T.mark[o] \notin Whites <=> o \in new \/ S.mark[o] \notin Whites
  <2> HIDE DEF new
  <2> QED BY <1>4, <1>7 DEF Whites
<1>10. ASSUME NEW o \in Objects, T.mark[o] # S.mark[o]
       PROVE  /\ S.mark[o] \in Whites /\ Turned(S, T, o)
              /\ T.mark[o] = "gray" => o \in Strings \cup T.gray \/ IsOpen(o)
              /\ o \in Tables \cup Closures \cup Threads => T.mark[o] = "gray" /\ o \in T.gray
              /\ o \in Udatas \cup UpVals => \A x \in Children(o) : T.mark[x] \notin Whites
  <2> HIDE DEF next, new
  <2>1. o \in new
    BY <1>4, <1>10
  <2>2. Turned(S, T, o)
    BY <2>1, <1>4, KindsDiffer DEF Turned, Shades, StaysGray, IsWeak, IsOpen
  <2>3. o \in Udatas \cup UpVals => \A x \in Children(o) : T.mark[x] \notin Whites
    BY <2>1, <1>8, <1>9, ChildrenType
  <2>4. T.mark[o] = "gray" => o \in Strings \cup T.gray \/ IsOpen(o)
    BY <2>1, <1>4 DEF Objects
  <2>5. o \in Tables \cup Closures \cup Threads => T.mark[o] = "gray" /\ o \in T.gray
    BY <2>1, <1>4, KindsDiffer
  <2> QED BY <2>1, <2>2, <2>3, <2>4, <2>5, <1>7
<1>11. \A o \in X : T.mark[o] \notin Whites
  <2> HIDE DEF next, new
  <2> QED BY <1>3, <1>9 DEF WhiteOf
<1>12. \A o \in T.gray \ S.gray : T.mark[o] # S.mark[o]
  <2> HIDE DEF next, new
  <2> QED BY <1>3, <1>4, <1>7 DEF Whites
<1>13. ASSUME NEW C \in SUBSET Objects, \A o \in X : S.mark[o] \in Whites => o \in C,
              \A o \in C \cap (Udatas \cup UpVals) : \A x \in Children(o) : S.mark[x] \in Whites => x \in C,
              NEW o \in Objects \ C
       PROVE  T.mark[o] = S.mark[o]
  <2>1. WhiteOf(S, X) \subseteq C /\ \A c \in C : next[c] \subseteq C
    BY <1>13 DEF WhiteOf
  <2> HIDE DEF next, new
  <2> QED BY <2>1, <1>3, <1>4
<1> HIDE DEF next, new
<1> QED BY <1>4, <1>6, <1>10, <1>11, <1>12, <1>13

(* What propagateall does: nothing is left to be traversed; what was, and  *)
(* the white objects that turned, have children that are not white.        *)
LEMMA PropagatedAllEffect ==
    ASSUME TypeOK, NEW S \in Markings, NEW T, T = PropagatedAll(S)
    PROVE  /\ T \in Markings /\ T.gray = {}
           /\ S.grayagain \subseteq T.grayagain /\ S.weak \subseteq T.weak
           /\ \A o \in Objects : o \in S.gray \/ T.mark[o] # S.mark[o] =>
                 /\ o \in S.gray \/ S.mark[o] \in Whites
                 /\ Turned(S, T, o) /\ \A x \in Children(o) : T.mark[x] \notin Whites
                 /\ IsWeak(o) => o \in T.weak
           /\ \A o \in (T.grayagain \cup T.weak) \ (S.grayagain \cup S.weak) : T.mark[o] \in Shades
           /\ \A C \in SUBSET Objects :
                 /\ S.gray \subseteq C
                 /\ \A o \in C : \A x \in Children(o) : S.mark[x] \in Whites => x \in C
                 => \A o \in Objects \ C : T.mark[o] = S.mark[o]
<1> DEFINE next == [o \in Objects |-> WhiteOf(S, Children(o))]
           met == MetFrom(S)
<1>1. next \in [Objects -> SUBSET Objects] /\ S.gray \in SUBSET Objects
  BY ChildrenType DEF WhiteOf, Markings, Objects
<1>2. met = Closure(next, S.gray)
  BY DEF MetFrom
<1>3. /\ met \in SUBSET Objects /\ S.gray \subseteq met
      /\ \A o \in met : next[o] \subseteq met
      /\ \A C \in SUBSET Objects :
            S.gray \subseteq C /\ (\A o \in C : next[o] \subseteq C) => met \subseteq C
  <2> HIDE DEF next, met
  <2> QED BY <1>1, <1>2, ClosureProperties
<1>4. /\ T.mark = [o \in Objects |->
                     IF o \notin met THEN S.mark[o]
                     ELSE IF StaysGray(o) \/ o \in Strings \/ IsOpen(o) THEN "gray" ELSE "black"]
      /\ T.gray = {} /\ T.grayagain = S.grayagain \cup (met \cap Threads)
      /\ T.weak = S.weak \cup WeakIn(met)
      /\ T = [mark |-> T.mark, gray |-> T.gray, grayagain |-> T.grayagain, weak |-> T.weak]
  BY DEF PropagatedAll
<1>5. /\ S.mark \in [Objects -> Whites \cup Shades \cup {"free"}]
      /\ S.grayagain \in SUBSET (Tables \cup Threads) /\ S.weak \in SUBSET Tables
  BY DEF Markings
<1>6. T \in Markings
  <2> HIDE DEF met
  <2>1. T.mark \in [Objects -> Whites \cup Shades \cup {"free"}]
    BY <1>4, <1>5 DEF Shades
  <2> QED BY <2>1, <1>4, <1>5 DEF Markings, WeakIn, IsWeak
<1>7. \A o \in met : o \in S.gray \/ S.mark[o] \in Whites
  <2> DEFINE C == S.gray \cup {o \in Objects : S.mark[o] \in Whites}
  <2>1. C \in SUBSET Objects /\ S.gray \subseteq C /\ \A o \in C : next[o] \subseteq C
    BY <1>1 DEF WhiteOf
  <2> HIDE DEF next, met
  <2> QED BY <2>1, <1>3
<1>8. \A o \in met : \A x \in Children(o) : S.mark[x] \in Whites => x \in met
  <2> HIDE DEF met
  <2> QED BY <1>3 DEF WhiteOf
<1>9. \A o \in Objects : o \in met => T.mark[o] \in Shades
  <2> HIDE DEF met
  <2> QED BY <1>4 DEF Shades
<1>10. \A o \in Objects : T.mark[o] \in Whites => S.mark[o] \in Whites /\ o \notin met
  <2> HIDE DEF met
  <2> QED BY <1>4 DEF Whites
<1>11. ASSUME NEW o \in Objects, o \in S.gray \/ T.mark[o] # S.mark[o]
       PROVE  /\ o \in S.gray \/ S.mark[o] \in Whites
              /\ Turned(S, T, o) /\ \A x \in Children(o) : T.mark[x] \notin Whites
              /\ IsWeak(o) => o \in T.weak
  <2> HIDE DEF next, met
  <2>1. o \in met
    BY <1>3, <1>4, <1>11
  <2>2. Turned(S, T, o)
    BY <2>1, <1>4, KindsDiffer DEF Turned, Shades, StaysGray, IsWeak, IsOpen
  <2>3. \A x \in Children(o) : T.mark[x] \notin Whites
    BY <2>1, <1>8, <1>10, ChildrenType
  <2> QED BY <2>1, <2>2, <2>3, <1>4, <1>7 DEF WeakIn
<1>12. \A o \in (T.grayagain \cup T.weak) \ (S.grayagain \cup S.weak) : T.mark[o] \in Shades
  <2> HIDE DEF next, met
  <2> QED BY <1>3, <1>4, <1>9 DEF WeakIn
<1>13. ASSUME NEW C \in SUBSET Objects, S.gray \subseteq C,
              \A o \in C : \A x \in Children(o) : S.mark[x] \in Whites => x \in C,
              NEW o \in Objects \ C
       PROVE  T.mark[o] = S.mark[o]
  <2>1. \A c \in C : next[c] \subseteq C
    BY <1>13 DEF WhiteOf
  <2> HIDE DEF next, met
  <2> QED BY <2>1, <1>3, <1>4, <1>13
<1> HIDE DEF next, met
<1> QED BY <1>4, <1>6, <1>11, <1>12, <1>13
=============================================================================
