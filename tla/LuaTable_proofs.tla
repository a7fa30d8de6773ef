-------------------------- MODULE LuaTable_proofs --------------------------
(***************************************************************************)
(* A table keeps the dictionary the language promises, for every set of    *)
(* keys, every hash and every size of table.  First the chains of nodes as *)
(* functions, then searching, inserting, growing and traversing a table.   *)
(***************************************************************************)
EXTENDS LuaTable, FiniteSetTheorems, SequenceTheorems, WellFoundedInduction, TLAPS

-----------------------------------------------------------------------------
(* Chains: nx maps a node to the next one, None at the end. *)

Closed(nx, C) == \A c \in C : nx[c] # None => nx[c] \in C
Reach(nx, a) ==
    {j \in DOMAIN nx : \A C \in SUBSET (DOMAIN nx) : a \in C /\ Closed(nx, C) => j \in C}

(* However nodes are collected, some link leads out of the collection. *)
Acyclic(nx) == \A T \in SUBSET (DOMAIN nx) : T # {} => \E m \in T : nx[m] \notin T

ChainsOn(D, nx) == None \notin D /\ nx \in [D -> D \cup {None}] /\ Acyclic(nx)

(* The nodes reached from a node are closed under next and begin with it. *)
LEMMA ReachCloses ==
    ASSUME NEW D, NEW nx, ChainsOn(D, nx), NEW a \in D
    PROVE  Reach(nx, a) \subseteq D /\ a \in Reach(nx, a) /\ Closed(nx, Reach(nx, a))
<1>1. DOMAIN nx = D
  BY DEF ChainsOn
<1>2. Reach(nx, a) \subseteq D /\ a \in Reach(nx, a)
  BY <1>1 DEF Reach
<1>3. ASSUME NEW c \in Reach(nx, a), nx[c] # None PROVE nx[c] \in Reach(nx, a)
  <2>1. c \in D /\ nx[c] \in D
    BY <1>1, <1>3 DEF ChainsOn, Reach
  <2>2. ASSUME NEW C \in SUBSET D, a \in C, Closed(nx, C) PROVE nx[c] \in C
    BY <1>1, <1>3, <2>2 DEF Reach, Closed
  <2> QED BY <1>1, <2>1, <2>2 DEF Reach
<1> QED BY <1>2, <1>3 DEF Closed

(* It is the smallest such set. *)
LEMMA ReachIsLeast ==
    ASSUME NEW D, NEW nx, ChainsOn(D, nx), NEW a \in D,
           NEW C \in SUBSET D, a \in C, Closed(nx, C)
    PROVE  Reach(nx, a) \subseteq C
  BY DEF ChainsOn, Reach

(* A node, and what is reached from the next one. *)
LEMMA ReachSteps ==
    ASSUME NEW D, NEW nx, ChainsOn(D, nx), NEW a \in D
    PROVE  Reach(nx, a) = {a} \cup (IF nx[a] = None THEN {} ELSE Reach(nx, nx[a]))
<1> DEFINE C == {a} \cup (IF nx[a] = None THEN {} ELSE Reach(nx, nx[a]))
<1>1. nx[a] # None => nx[a] \in D
  BY DEF ChainsOn
<1>2. C \in SUBSET D /\ a \in C
  BY <1>1, ReachCloses
<1>3. Closed(nx, C)
  BY <1>1, ReachCloses DEF Closed
<1>4. Reach(nx, a) \subseteq C
  BY <1>2, <1>3, ReachIsLeast
<1>5. ASSUME nx[a] # None PROVE Reach(nx, nx[a]) \subseteq Reach(nx, a)
  BY <1>1, <1>5, ReachCloses, ReachIsLeast DEF Closed
<1> QED BY <1>4, <1>5, ReachCloses

(* What is reached from a node that is reached is reached. *)
LEMMA ReachTransitive ==
    ASSUME NEW D, NEW nx, ChainsOn(D, nx), NEW a \in D, NEW b \in Reach(nx, a)
    PROVE  b \in D /\ Reach(nx, b) \subseteq Reach(nx, a)
<1>1. Reach(nx, a) \in SUBSET D /\ b \in D /\ Closed(nx, Reach(nx, a))
  BY ReachCloses
<1> QED BY <1>1, ReachIsLeast

(* Two nodes that reach one another are one. *)
LEMMA ReachAntisymmetric ==
    ASSUME NEW D, NEW nx, ChainsOn(D, nx), NEW a \in D, NEW b \in D,
           b \in Reach(nx, a), a \in Reach(nx, b)
    PROVE  a = b
<1> SUFFICES ASSUME a # b PROVE FALSE
  OBVIOUS
<1> DEFINE T == {x \in Reach(nx, a) : a \in Reach(nx, x)}
<1>1. T \in SUBSET D /\ a \in T
  BY ReachCloses
<1>2. PICK m \in T : nx[m] \notin T
  BY <1>1 DEF ChainsOn, Acyclic
<1>3. m \in D /\ m \in Reach(nx, a) /\ a \in Reach(nx, m)
  BY <1>1
<1>4. nx[m] # None /\ a \in Reach(nx, nx[m])
  <2>1. CASE m # a
    BY <1>3, <2>1, ReachSteps
  <2>2. CASE m = a
    <3>1. nx[a] # None /\ b \in Reach(nx, nx[a])
      BY ReachSteps
    <3>2. nx[a] \in D
      BY <3>1 DEF ChainsOn
    <3> QED BY <2>2, <3>1, <3>2, ReachTransitive
  <2> QED BY <2>1, <2>2
<1>5. nx[m] \in Reach(nx, a)
  BY <1>3, <1>4, ReachCloses DEF Closed
<1> QED BY <1>2, <1>4, <1>5

(* No node follows itself. *)
LEMMA NoLoop ==
    ASSUME NEW D, NEW nx, ChainsOn(D, nx), NEW a \in D
    PROVE  nx[a] # a
<1>1. {a} \in SUBSET (DOMAIN nx) /\ {a} # {}
  BY DEF ChainsOn
<1> QED BY <1>1 DEF ChainsOn, Acyclic

(* A node that is reached from another has one before it. *)
LEMMA ReachHasPrevious ==
    ASSUME NEW D, NEW nx, ChainsOn(D, nx), NEW a \in D, NEW b \in Reach(nx, a), b # a
    PROVE  \E p \in D : nx[p] = b
<1> SUFFICES ASSUME \A p \in D : nx[p] # b PROVE FALSE
  OBVIOUS
<1> DEFINE C == Reach(nx, a) \ {b}
<1>1. C \in SUBSET D /\ a \in C /\ Closed(nx, C)
  BY ReachCloses DEF Closed
<1> QED BY <1>1, ReachIsLeast

-----------------------------------------------------------------------------
(* Searching a chain for the first node of a set M. *)

Searches(D, nx, M, f) ==
    f = [i \in D \cup {None} |->
            IF i = None THEN None ELSE IF i \in M THEN i ELSE f[nx[i]]]

(* j is the node of M the chain of a meets first. *)
FirstIn(nx, M, a, j) ==
    j \in M \cap Reach(nx, a) /\ M \cap Reach(nx, a) \subseteq Reach(nx, j)

(* There is one such node at most. *)
LEMMA FirstIsUnique ==
    ASSUME NEW D, NEW nx, ChainsOn(D, nx), NEW M, NEW a \in D,
           NEW i, FirstIn(nx, M, a, i), NEW j, FirstIn(nx, M, a, j)
    PROVE  i = j
<1>1. i \in D /\ j \in D
  BY ReachCloses DEF FirstIn
<1> QED BY <1>1, ReachAntisymmetric DEF FirstIn

(* A chain that does not begin in M is searched from its second node. *)
LEMMA SearchGoesOn ==
    ASSUME NEW D, NEW nx, ChainsOn(D, nx), NEW M, NEW a \in D, a \notin M, nx[a] # None
    PROVE  M \cap Reach(nx, a) = M \cap Reach(nx, nx[a])
  BY ReachSteps

(* The recursive search is well defined, since chains end. *)
LEMMA SearchExists ==
    ASSUME NEW D, NEW nx, ChainsOn(D, nx), NEW M
    PROVE  \E f : Searches(D, nx, M, f)
<1> DEFINE first(R) == IF R = {} THEN None ELSE CHOOSE j \in R : R \subseteq Reach(nx, j)
           f == [i \in D \cup {None} |-> IF i = None THEN None ELSE first(M \cap Reach(nx, i))]
<1>1. ASSUME NEW i \in D, i \in M PROVE f[i] = i
  <2>1. i \in M \cap Reach(nx, i) /\ M \cap Reach(nx, i) \subseteq Reach(nx, i)
    BY <1>1, ReachCloses
  <2>2. ASSUME NEW j \in M \cap Reach(nx, i), M \cap Reach(nx, i) \subseteq Reach(nx, j)
        PROVE  j = i
    <3>1. j \in D /\ i \in Reach(nx, j)
      BY <2>1, <2>2, ReachTransitive
    <3> QED BY <2>2, <3>1, ReachAntisymmetric
  <2>3. first(M \cap Reach(nx, i)) = i
    BY <2>1, <2>2
  <2>4. i # None
    BY DEF ChainsOn
  <2> QED BY <2>3, <2>4
<1>2. ASSUME NEW i \in D, i \notin M PROVE f[i] = f[nx[i]]
  <2>1. CASE nx[i] = None
    <3>1. M \cap Reach(nx, i) = {}
      BY <1>2, <2>1, ReachSteps
    <3>2. f[i] = None /\ f[None] = None
      BY <3>1
    <3> QED BY <2>1, <3>2
  <2>2. CASE nx[i] # None
    <3>1. nx[i] \in D /\ i # None
      BY <2>2 DEF ChainsOn
    <3>2. M \cap Reach(nx, i) = M \cap Reach(nx, nx[i])
      BY <1>2, <2>2, SearchGoesOn
    <3>3. f[i] = first(M \cap Reach(nx, i)) /\ f[nx[i]] = first(M \cap Reach(nx, nx[i]))
      BY <2>2, <3>1
    <3> QED BY <3>2, <3>3
  <2> QED BY <2>1, <2>2
<1>3. f[None] = None /\ DOMAIN f = D \cup {None}
  OBVIOUS
<1>4. f = [i \in D \cup {None} |-> f[i]]
  OBVIOUS
<1> HIDE DEF f
<1>5. ASSUME NEW i \in D \cup {None}
      PROVE  f[i] = IF i = None THEN None ELSE IF i \in M THEN i ELSE f[nx[i]]
  BY <1>1, <1>2, <1>3 DEF ChainsOn
<1>6. f = [i \in D \cup {None} |-> IF i = None THEN None ELSE IF i \in M THEN i ELSE f[nx[i]]]
  BY <1>4, <1>5
<1> QED BY <1>6 DEF Searches

(* It gives the first node of M, or None if the chain meets none. *)
LEMMA SearchFinds ==
    ASSUME NEW D, NEW nx, ChainsOn(D, nx), NEW M, NEW f, Searches(D, nx, M, f), NEW a \in D
    PROVE  \/ f[a] = None /\ M \cap Reach(nx, a) = {}
           \/ f[a] \in D /\ FirstIn(nx, M, a, f[a])
<1> DEFINE Good(i) == \/ f[i] = None /\ M \cap Reach(nx, i) = {}
                      \/ f[i] \in D /\ FirstIn(nx, M, i, f[i])
           T == {i \in D : ~Good(i)}
<1> SUFFICES ASSUME T # {} PROVE FALSE
  OBVIOUS
<1>1. PICK m \in T : nx[m] \notin T
  BY DEF ChainsOn, Acyclic
<1>2. m \in D /\ ~Good(m) /\ m # None
  BY DEF ChainsOn
<1>3. f[m] = (IF m \in M THEN m ELSE f[nx[m]]) /\ f[None] = None
  BY <1>2 DEF Searches
<1>4. m \notin M
  <2> SUFFICES ASSUME m \in M PROVE FALSE
    OBVIOUS
  <2>1. FirstIn(nx, M, m, m)
    BY <1>2, ReachCloses DEF FirstIn
  <2> QED BY <1>2, <1>3, <2>1
<1>5. nx[m] # None
  <2> SUFFICES ASSUME nx[m] = None PROVE FALSE
    OBVIOUS
  <2>1. M \cap Reach(nx, m) = {}
    BY <1>2, <1>4, ReachSteps
  <2> QED BY <1>2, <1>3, <1>4, <2>1
<1>6. nx[m] \in D /\ Good(nx[m])
  BY <1>1, <1>2, <1>5 DEF ChainsOn
<1>7. M \cap Reach(nx, m) = M \cap Reach(nx, nx[m]) /\ f[m] = f[nx[m]]
  BY <1>2, <1>3, <1>4, <1>5, SearchGoesOn
<1>8. Good(m)
  <2>1. CASE f[m] = None /\ M \cap Reach(nx, m) = {}
    BY <2>1
  <2>2. CASE f[m] \in D /\ FirstIn(nx, M, nx[m], f[m])
    <3>1. FirstIn(nx, M, m, f[m])
      BY <1>7, <2>2 DEF FirstIn
    <3> QED BY <2>2, <3>1
  <2> QED BY <1>6, <1>7, <2>1, <2>2
<1> QED BY <1>2, <1>8

-----------------------------------------------------------------------------
(* What an insertion does to the chains. *)

(* No two nodes have the same node after them. *)
Single(D, nx) == \A i, j \in D : nx[i] = nx[j] /\ nx[i] # None => i = j
Unlinked(D, nx, n) == \A j \in D : nx[j] # n

(* A free node n comes behind m. *)
LinksBehind(D, nx, m, n, nx2) ==
    /\ m \in D /\ n \in D /\ m # n /\ nx[n] = None /\ Unlinked(D, nx, n)
    /\ nx2 \in [D -> D \cup {None}]
    /\ nx2[n] = nx[m] /\ nx2[m] = n /\ \A i \in D \ {m, n} : nx2[i] = nx[i]

(* The chains stay chains. *)
LEMMA BehindChains ==
    ASSUME NEW D, NEW nx, ChainsOn(D, nx), Single(D, nx), NEW m, NEW n, NEW nx2,
           LinksBehind(D, nx, m, n, nx2)
    PROVE  ChainsOn(D, nx2) /\ Single(D, nx2)
<1> USE DEF LinksBehind, Unlinked
<1>1. m # None /\ n # None /\ nx[m] # n /\ nx[m] # m
  BY NoLoop DEF ChainsOn
<1>2. ASSUME NEW T \in SUBSET D, T # {} PROVE \E x \in T : nx2[x] \notin T
  <2>1. CASE T = {n}
    BY <1>1, <2>1
  <2>2. CASE T # {n}
    <3>1. T \ {n} \in SUBSET (DOMAIN nx) /\ T \ {n} # {}
      BY <1>2, <2>2 DEF ChainsOn
    <3>2. PICK x \in T \ {n} : nx[x] \notin T \ {n}
      BY <3>1 DEF ChainsOn, Acyclic
    <3>3. nx[x] \notin T
      BY <3>2
    <3>4. CASE x # m
      BY <3>3, <3>4
    <3>5. CASE x = m /\ n \in T
      BY <3>3, <3>5
    <3>6. CASE x = m /\ n \notin T
      BY <3>2, <3>6
    <3> QED BY <3>4, <3>5, <3>6
  <2> QED BY <2>1, <2>2
<1>3. Acyclic(nx2)
  BY <1>2 DEF Acyclic
<1>4. ASSUME NEW i \in D, NEW j \in D, nx2[i] = nx2[j], nx2[i] # None PROVE i = j
  BY <1>1, <1>4 DEF Single
<1> QED BY <1>3, <1>4 DEF ChainsOn, Single

(* What was reached is reached, and only n more, by what reaches m. *)
LEMMA BehindReaches ==
    ASSUME NEW D, NEW nx, ChainsOn(D, nx), Single(D, nx), NEW m, NEW n, NEW nx2,
           LinksBehind(D, nx, m, n, nx2), NEW a \in D
    PROVE  /\ Reach(nx, a) \subseteq Reach(nx2, a)
           /\ n \in Reach(nx2, m)
           /\ a # n => Reach(nx2, a) \subseteq
                          Reach(nx, a) \cup (IF m \in Reach(nx, a) THEN {n} ELSE {})
<1>1. ChainsOn(D, nx2) /\ m \in D /\ n \in D /\ m # None /\ n # None
  BY BehindChains DEF LinksBehind, ChainsOn
<1>2. Reach(nx, a) \subseteq Reach(nx2, a)
  <2> DEFINE C == Reach(nx2, a)
  <2>1. C \in SUBSET D /\ a \in C /\ Closed(nx2, C)
    BY <1>1, ReachCloses
  <2>2. ASSUME NEW c \in C, nx[c] # None PROVE nx[c] \in C
    <3>1. CASE c = m
      <4>1. n \in C
        BY <1>1, <2>1, <3>1 DEF Closed, LinksBehind
      <4> QED BY <2>1, <2>2, <3>1, <4>1 DEF Closed, LinksBehind
    <3>2. CASE c # m
      BY <2>1, <2>2, <3>2 DEF Closed, LinksBehind
    <3> QED BY <3>1, <3>2
  <2>3. Closed(nx, C)
    BY <2>2 DEF Closed
  <2> HIDE DEF C
  <2>4. Reach(nx, a) \subseteq C
    BY <2>1, <2>3, ReachIsLeast
  <2> QED BY <2>4 DEF C
<1>3. n \in Reach(nx2, m)
  BY <1>1, ReachCloses DEF Closed, LinksBehind
<1>4. ASSUME a # n
      PROVE  Reach(nx2, a) \subseteq Reach(nx, a) \cup (IF m \in Reach(nx, a) THEN {n} ELSE {})
  <2> DEFINE C == Reach(nx, a) \cup (IF m \in Reach(nx, a) THEN {n} ELSE {})
  <2>1. Reach(nx, a) \in SUBSET D /\ a \in Reach(nx, a) /\ Closed(nx, Reach(nx, a))
    BY ReachCloses
  <2>2. n \notin Reach(nx, a)
    <3>1. n \in Reach(nx, a) => \E p \in D : nx[p] = n
      BY <1>4, ReachHasPrevious
    <3> QED BY <3>1 DEF LinksBehind, Unlinked
  <2>3. ASSUME NEW c \in C, nx2[c] # None PROVE nx2[c] \in C
    <3>1. CASE c = m
      BY <1>1, <2>2, <3>1 DEF LinksBehind
    <3>2. CASE c = n
      BY <2>1, <2>2, <2>3, <3>2 DEF LinksBehind, Closed
    <3>3. CASE c # m /\ c # n
      BY <2>1, <2>3, <3>3 DEF LinksBehind, Closed
    <3> QED BY <3>1, <3>2, <3>3
  <2>4. C \in SUBSET D /\ a \in C /\ Closed(nx2, C)
    BY <1>1, <2>1, <2>3 DEF Closed
  <2> HIDE DEF C
  <2>5. Reach(nx2, a) \subseteq C
    BY <1>1, <2>4, ReachIsLeast
  <2> QED BY <2>5 DEF C
<1> QED BY <1>2, <1>3, <1>4

(* Two nodes change places, with their places in the chains. *)
Swap(m, n, i) == IF i = m THEN n ELSE IF i = n THEN m ELSE i
Swapped(D, nx, m, n, nx2) ==
    /\ m \in D /\ n \in D /\ m # n
    /\ nx2 \in [D -> D \cup {None}]
    /\ \A i \in D : nx2[Swap(m, n, i)] = Swap(m, n, nx[i])

(* To change places twice changes nothing. *)
LEMMA SwapTwice ==
    ASSUME NEW D, NEW nx, ChainsOn(D, nx), NEW m, NEW n, NEW nx2, Swapped(D, nx, m, n, nx2)
    PROVE  /\ \A i : Swap(m, n, Swap(m, n, i)) = i
           /\ \A i \in D : Swap(m, n, i) \in D
           /\ Swap(m, n, None) = None
           /\ \A i \in D : nx[Swap(m, n, i)] = Swap(m, n, nx2[i])
<1>1. \A i : Swap(m, n, Swap(m, n, i)) = i
  BY DEF Swap
<1>2. \A i \in D : Swap(m, n, i) \in D
  BY DEF Swap, Swapped
<1>3. Swap(m, n, None) = None
  BY DEF Swap, Swapped, ChainsOn
<1>4. ASSUME NEW i \in D PROVE nx[Swap(m, n, i)] = Swap(m, n, nx2[i])
  <2> DEFINE j == Swap(m, n, i)
  <2>1. j \in D /\ Swap(m, n, j) = i
    BY <1>1, <1>2
  <2> HIDE DEF j
  <2>2. nx2[i] = Swap(m, n, nx[j])
    BY <2>1 DEF Swapped
  <2> QED BY <1>1, <2>2 DEF j
<1> QED BY <1>1, <1>2, <1>3, <1>4

(* A closed set is closed after both changed places. *)
LEMMA SwapCloses ==
    ASSUME NEW D, NEW nx \in [D -> D \cup {None}], NEW m, NEW n, NEW nx2,
           \A i : Swap(m, n, Swap(m, n, i)) = i,
           \A i \in D : Swap(m, n, i) \in D,
           Swap(m, n, None) = None,
           \A i \in D : nx2[Swap(m, n, i)] = Swap(m, n, nx[i]),
           NEW C \in SUBSET D, Closed(nx, C)
    PROVE  /\ {Swap(m, n, c) : c \in C} \in SUBSET D
           /\ Closed(nx2, {Swap(m, n, c) : c \in C})
<1> DEFINE B == {Swap(m, n, c) : c \in C}
<1>1. B \in SUBSET D
  OBVIOUS
<1>2. ASSUME NEW b \in B, nx2[b] # None PROVE nx2[b] \in B
  <2>1. PICK c \in C : b = Swap(m, n, c)
    OBVIOUS
  <2>2. nx2[b] = Swap(m, n, nx[c]) /\ nx[c] # None
    BY <1>2, <2>1
  <2>3. nx[c] \in C
    BY <2>2 DEF Closed
  <2> QED BY <2>2, <2>3
<1> QED BY <1>1, <1>2 DEF Closed

(* The chains stay chains. *)
LEMMA SwapChains ==
    ASSUME NEW D, NEW nx, ChainsOn(D, nx), Single(D, nx), NEW m, NEW n, NEW nx2,
           Swapped(D, nx, m, n, nx2)
    PROVE  ChainsOn(D, nx2) /\ Single(D, nx2)
<1> DEFINE s(i) == Swap(m, n, i)
<1>1. /\ \A i : s(s(i)) = i
      /\ \A i \in D : s(i) \in D
      /\ s(None) = None
      /\ \A i \in D : nx[s(i)] = s(nx2[i])
      /\ \A i \in D : nx2[s(i)] = s(nx[i])
      /\ nx2 \in [D -> D \cup {None}]
  BY SwapTwice DEF Swapped
<1> HIDE DEF s
<1>2. ASSUME NEW T \in SUBSET D, T # {} PROVE \E x \in T : nx2[x] \notin T
  <2> DEFINE B == {i \in D : s(i) \in T}
  <2>1. B \in SUBSET (DOMAIN nx) /\ B # {}
    BY <1>1, <1>2 DEF ChainsOn
  <2>2. PICK b \in B : nx[b] \notin B
    BY <2>1 DEF ChainsOn, Acyclic
  <2>3. s(b) \in T /\ b \in D /\ nx2[s(b)] = s(nx[b])
    BY <1>1, <2>2
  <2>4. s(nx[b]) \notin T
    <3>1. CASE nx[b] = None
      BY <1>1, <3>1 DEF ChainsOn
    <3>2. CASE nx[b] # None
      BY <2>2, <2>3, <3>2 DEF ChainsOn
    <3> QED BY <3>1, <3>2
  <2> QED BY <2>3, <2>4
<1>3. Acyclic(nx2)
  BY <1>1, <1>2 DEF Acyclic
<1>4. ASSUME NEW i \in D, NEW j \in D, nx2[i] = nx2[j], nx2[i] # None PROVE i = j
  <2>1. nx[s(i)] = nx[s(j)] /\ nx[s(i)] # None /\ s(i) \in D /\ s(j) \in D
    BY <1>1, <1>4
  <2>2. s(i) = s(j)
    BY <2>1 DEF Single
  <2> QED BY <1>1, <2>2
<1> QED BY <1>1, <1>3, <1>4 DEF ChainsOn, Single

(* A node reaches after it what it reached before, in its new place. *)
LEMMA SwapReachesOn ==
    ASSUME NEW D, NEW nx, ChainsOn(D, nx), NEW m, NEW n, NEW nx2, ChainsOn(D, nx2),
           \A i : Swap(m, n, Swap(m, n, i)) = i,
           \A i \in D : Swap(m, n, i) \in D,
           Swap(m, n, None) = None,
           \A i \in D : nx[Swap(m, n, i)] = Swap(m, n, nx2[i]),
           NEW a \in D, NEW b \in Reach(nx, a)
    PROVE  Swap(m, n, b) \in Reach(nx2, Swap(m, n, a))
<1> DEFINE C == Reach(nx2, Swap(m, n, a))
           B == {Swap(m, n, c) : c \in C}
<1>1. C \in SUBSET D /\ Swap(m, n, a) \in C /\ Closed(nx2, C)
  BY ReachCloses
<1>2. B \in SUBSET D /\ Closed(nx, B)
  <2>1. nx2 \in [D -> D \cup {None}]
    BY DEF ChainsOn
  <2> HIDE DEF C
  <2> QED BY <1>1, <2>1, SwapCloses
<1>3. a \in B
  BY <1>1
<1>4. b \in B
  <2> HIDE DEF B
  <2> QED BY <1>2, <1>3, ReachIsLeast
<1> QED BY <1>4

(* And nothing else. *)
LEMMA SwapReaches ==
    ASSUME NEW D, NEW nx, ChainsOn(D, nx), Single(D, nx), NEW m, NEW n, NEW nx2,
           Swapped(D, nx, m, n, nx2), NEW a \in D, NEW b \in D
    PROVE  b \in Reach(nx, a) <=> Swap(m, n, b) \in Reach(nx2, Swap(m, n, a))
<1>1. ChainsOn(D, nx2)
  BY SwapChains
<1>2. /\ \A i : Swap(m, n, Swap(m, n, i)) = i
      /\ \A i \in D : Swap(m, n, i) \in D
      /\ Swap(m, n, None) = None
      /\ \A i \in D : nx[Swap(m, n, i)] = Swap(m, n, nx2[i])
      /\ \A i \in D : nx2[Swap(m, n, i)] = Swap(m, n, nx[i])
  BY SwapTwice DEF Swapped
<1>3. b \in Reach(nx, a) => Swap(m, n, b) \in Reach(nx2, Swap(m, n, a))
  BY <1>1, <1>2, SwapReachesOn
<1>4. ASSUME Swap(m, n, b) \in Reach(nx2, Swap(m, n, a)) PROVE b \in Reach(nx, a)
  <2> DEFINE a2 == Swap(m, n, a)
             b2 == Swap(m, n, b)
  <2>1. a2 \in D /\ b2 \in Reach(nx2, a2) /\ Swap(m, n, a2) = a /\ Swap(m, n, b2) = b
    BY <1>2, <1>4
  <2> HIDE DEF a2, b2
  <2>2. Swap(m, n, b2) \in Reach(nx, Swap(m, n, a2))
    BY <1>1, <1>2, <2>1, SwapReachesOn
  <2> QED BY <2>1, <2>2
<1> QED BY <1>3, <1>4

-----------------------------------------------------------------------------
(* Tables and their main positions. *)

IsTable(h) == \E n \in PowersOfTwo : h \in TablesOf(n)

Links(h) == [i \in DOMAIN h.node |-> h.node[i].next]
Holds(h, i) == h.node[i].key # Nil
Live(h, i) == Holds(h, i) /\ ~h.node[i].dead
Home(h, i) == MainPosition(h, h.node[i].key)

(* The sizes of a hash part are positive and have a largest. *)
LEMMA SizesBounded == MaxASize \in Nat /\ PowersOfTwo \subseteq 1..MaxASize
<1>1. MaxASize \in Nat
  BY SMT DEF MaxASize
<1>2. ASSUME NEW n \in PowersOfTwo PROVE n \in Nat /\ 1 <= n /\ n <= MaxASize
  BY SMT DEF PowersOfTwo, MaxASize
<1> QED BY <1>1, <1>2

(* The fields of a table. *)
LEMMA TableShape ==
    ASSUME NEW h, IsTable(h)
    PROVE  /\ \E n \in PowersOfTwo : h \in TablesOf(n)
           /\ Size(h) \in PowersOfTwo /\ Size(h) \in 1..MaxASize
           /\ DOMAIN h.node = 0..(Size(h) - 1)
           /\ h.node \in [0..(Size(h) - 1) -> Node]
           /\ h \in TablesOf(Size(h))
           /\ h.array \in Seq(Vals \cup {Nil})
           /\ h.lastfree \in 0..Size(h)
           /\ h.dummy \in BOOLEAN
           /\ h # Full
<1>1. PICK n \in PowersOfTwo : h \in TablesOf(n)
  BY DEF IsTable
<1>2. n \in 1..MaxASize /\ MaxASize \in Nat
  BY SizesBounded
<1>3. DOMAIN h.node = 0..(n - 1)
  BY <1>1 DEF TablesOf
<1>4. Size(h) = n
  <2>1. Cardinality(0..(n - 1)) = n
    <3>1. 0 \in Int /\ n - 1 \in Int /\ ~(0 > n - 1) /\ (n - 1) - 0 + 1 = n
      BY <1>2
    <3> QED BY <3>1, FS_Interval
  <2> QED BY <1>3, <2>1 DEF Size
<1>5. h # Full
  BY <1>1, KeyAssumption
<1> QED BY <1>1, <1>2, <1>3, <1>4, <1>5 DEF TablesOf

(* The fields of a node. *)
LEMMA NodeShape ==
    ASSUME NEW h, IsTable(h), NEW i \in DOMAIN h.node
    PROVE  /\ h.node[i] \in Node
           /\ h.node[i].key \in Keys \cup {Nil} /\ h.node[i].val \in Vals \cup {Nil}
           /\ h.node[i].next \in Int /\ h.node[i].dead \in BOOLEAN
           /\ h.node[i] = [key |-> h.node[i].key, val |-> h.node[i].val,
                           next |-> h.node[i].next, dead |-> h.node[i].dead]
           /\ Holds(h, i) => h.node[i].key \in Keys
           /\ i \in Nat /\ None \notin DOMAIN h.node
<1>1. h.node[i] \in Node /\ DOMAIN h.node = 0..(Size(h) - 1) /\ Size(h) \in Nat
  BY TableShape, SizesBounded
<1>2. i \in Nat /\ None \notin DOMAIN h.node
  BY <1>1 DEF None
<1> QED BY <1>1, <1>2 DEF Node, Holds

(* The fields of a new node, and of a free one. *)
LEMMA NewNodeShape ==
    ASSUME NEW k \in Keys \cup {Nil}, NEW x \in Int
    PROVE  /\ NodeFor(k, x) \in Node
           /\ NodeFor(k, x).key = k /\ NodeFor(k, x).val = Nil /\ NodeFor(k, x).next = x
           /\ ~NodeFor(k, x).dead
  BY DEF NodeFor, Node

(* A node of a new hash part is free. *)
LEMMA FreeNodeShape ==
    /\ None \in Int /\ FreeNode \in Node
    /\ FreeNode.key = Nil /\ FreeNode.val = Nil /\ FreeNode.next = None /\ ~FreeNode.dead
  BY NewNodeShape DEF FreeNode, None

(* The main position of a key is a node. *)
LEMMA MainPositionIn ==
    ASSUME NEW h, IsTable(h), NEW k \in Keys
    PROVE  MainPosition(h, k) \in DOMAIN h.node
<1>1. Size(h) \in Nat \ {0} /\ DOMAIN h.node = 0..(Size(h) - 1)
  BY TableShape, SizesBounded
<1>2. Hash[k] \in Nat
  BY HashAssumption
<1> DEFINE m == Hash[k]
           s == Size(h)
<1> HIDE DEF m, s
<1>3. m \in Nat /\ s \in Nat \ {0}
  BY <1>1, <1>2 DEF m, s
<1>4. m % s \in 0..(s - 1)
  BY <1>3
<1>5. m % (IF s = 1 THEN 1 ELSE s - 1) \in 0..(s - 1)
  <2>1. CASE s = 1
    BY <1>3, <2>1
  <2>2. CASE s # 1
    <3>1. s - 1 \in Nat \ {0}
      BY <1>3, <2>2
    <3>2. m % (s - 1) \in 0..((s - 1) - 1)
      BY <1>3, <3>1
    <3> QED BY <1>3, <2>2, <3>2
  <2> QED BY <2>1, <2>2
<1> QED BY <1>1, <1>4, <1>5 DEF MainPosition, m, s

(* It depends on the number of nodes only. *)
LEMMA MainPositionSame ==
    ASSUME NEW h, NEW g, DOMAIN g.node = DOMAIN h.node, NEW k
    PROVE  MainPosition(g, k) = MainPosition(h, k)
  BY DEF MainPosition, Size

-----------------------------------------------------------------------------
(* What holds of every table between operations. *)

LinksOK(h) == ChainsOn(DOMAIN h.node, Links(h)) /\ Single(DOMAIN h.node, Links(h))

(* A node without a key is as setnodevector left it, and in no chain. *)
FreeOK(h) ==
    \A i \in DOMAIN h.node : ~Holds(h, i) =>
        h.node[i] = FreeNode /\ Unlinked(DOMAIN h.node, Links(h), i)

DeadOK(h) == \A i \in DOMAIN h.node : h.node[i].dead => h.node[i].val = Nil

(* No free node at lastfree or behind; dummynode is free and not for use. *)
LastFreeOK(h) ==
    /\ h.dummy => h.node = [i \in {0} |-> FreeNode] /\ h.lastfree = 0
    /\ ~h.dummy => \A i \in DOMAIN h.node : i >= h.lastfree => Holds(h, i)

(* A key is found from its main position, which holds a key of its own. *)
HomeOK(h) ==
    \A i \in DOMAIN h.node : Holds(h, i) => i \in Reach(Links(h), Home(h, i))
BrentOK(h) ==
    \A i \in DOMAIN h.node : Holds(h, i) =>
        Holds(h, Home(h, i)) /\ Home(h, Home(h, i)) = Home(h, i)

(* No key is there twice, and no dead copy comes before the live one. *)
OnceOK(h) ==
    \A i, j \in DOMAIN h.node : Live(h, i) /\ h.node[j].key = h.node[i].key =>
        IF h.node[j].dead THEN i \notin Reach(Links(h), j) ELSE i = j

(* Every key has one part of the table to be in. *)
PartsOK(h) ==
    /\ \A i \in DOMAIN h.node : h.node[i].key \notin DOMAIN h.array
    /\ \A k \in DOMAIN h.array : h.array[k] # Nil => k \in Ints

WellFormed(h) ==
    /\ IsTable(h) /\ LinksOK(h) /\ FreeOK(h) /\ DeadOK(h) /\ LastFreeOK(h)
    /\ HomeOK(h) /\ BrentOK(h) /\ OnceOK(h) /\ PartsOK(h)

-----------------------------------------------------------------------------
(* Searching a table. *)

Holders(h, k, evenDead) ==
    {i \in DOMAIN h.node : h.node[i].key = k /\ (evenDead \/ ~h.node[i].dead)}

(* NodeOf gives the first node of the chain that holds the key. *)
LEMMA NodeOfFinds ==
    ASSUME NEW h, IsTable(h), LinksOK(h), NEW k \in Keys, NEW e \in BOOLEAN
    PROVE  LET M == Holders(h, k, e)
               a == MainPosition(h, k)
               j == NodeOf(h, k, e)
           IN \/ j = None /\ M \cap Reach(Links(h), a) = {}
              \/ j \in DOMAIN h.node /\ FirstIn(Links(h), M, a, j)
<1> DEFINE D == DOMAIN h.node
           M == Holders(h, k, e)
           a == MainPosition(h, k)
           P(f) == f = [i \in D \cup {None} |->
                         IF i = None THEN None
                         ELSE IF h.node[i].key = k /\ (e \/ ~h.node[i].dead) THEN i
                         ELSE f[h.node[i].next]]
           find == CHOOSE f : P(f)
<1>1. ChainsOn(D, Links(h)) /\ a \in D
  BY MainPositionIn DEF LinksOK
<1>2. NodeOf(h, k, e) = find[a]
  BY DEF NodeOf
<1>3. ASSUME NEW f PROVE P(f) <=> Searches(D, Links(h), M, f)
  <2>1. ASSUME NEW i \in D \cup {None}
        PROVE  (IF i = None THEN None
                ELSE IF h.node[i].key = k /\ (e \/ ~h.node[i].dead) THEN i
                ELSE f[h.node[i].next])
               = (IF i = None THEN None ELSE IF i \in M THEN i ELSE f[Links(h)[i]])
    BY DEF Holders, Links
  <2>2. [i \in D \cup {None} |->
            IF i = None THEN None
            ELSE IF h.node[i].key = k /\ (e \/ ~h.node[i].dead) THEN i
            ELSE f[h.node[i].next]]
        = [i \in D \cup {None} |->
            IF i = None THEN None ELSE IF i \in M THEN i ELSE f[Links(h)[i]]]
    BY <2>1
  <2> QED BY <2>2 DEF Searches
<1>4. \E f : P(f)
  <2> HIDE DEF P, M, D
  <2>1. PICK f : Searches(D, Links(h), M, f)
    BY <1>1, SearchExists
  <2> QED BY <1>3, <2>1
<1>5. P(find)
  <2> HIDE DEF P
  <2> QED BY <1>4
<1>6. Searches(D, Links(h), M, find)
  <2> HIDE DEF P, find
  <2> QED BY <1>3, <1>5
<1> HIDE DEF find, M, D
<1>7. \/ find[a] = None /\ M \cap Reach(Links(h), a) = {}
      \/ find[a] \in D /\ FirstIn(Links(h), M, a, find[a])
  BY <1>1, <1>6, SearchFinds
<1> QED BY <1>2, <1>7 DEF M, D

(* A node found holds the key. *)
LEMMA FoundHolds ==
    ASSUME NEW h, IsTable(h), LinksOK(h), NEW k \in Keys, NEW e \in BOOLEAN,
           NodeOf(h, k, e) # None
    PROVE  /\ NodeOf(h, k, e) \in DOMAIN h.node
           /\ h.node[NodeOf(h, k, e)].key = k
           /\ ~e => Live(h, NodeOf(h, k, e))
<1> DEFINE j == NodeOf(h, k, e)
<1>1. j \in DOMAIN h.node /\ FirstIn(Links(h), Holders(h, k, e), MainPosition(h, k), j)
  BY NodeOfFinds
<1> HIDE DEF j
<1>2. j \in Holders(h, k, e)
  BY <1>1 DEF FirstIn
<1>3. k # Nil
  BY KeyAssumption
<1> QED BY <1>1, <1>2, <1>3 DEF Holders, Live, Holds, j

(* A live node is found by its key, and no dead copy of the key before it. *)
LEMMA LiveIsFound ==
    ASSUME NEW h, IsTable(h), LinksOK(h), HomeOK(h), OnceOK(h),
           NEW i \in DOMAIN h.node, Live(h, i), NEW e \in BOOLEAN
    PROVE  h.node[i].key \in Keys /\ NodeOf(h, h.node[i].key, e) = i
<1> DEFINE k == h.node[i].key
           a == MainPosition(h, k)
           j == NodeOf(h, k, e)
           M == Holders(h, k, e)
           nx == Links(h)
<1>1. k \in Keys /\ i \in DOMAIN h.node
  BY NodeShape DEF Live
<1>2. i \in M /\ i \in Reach(nx, a)
  BY DEF Holders, Live, HomeOK, Home
<1>3. j \in DOMAIN h.node /\ FirstIn(nx, M, a, j)
  <2>1. \/ j = None /\ M \cap Reach(nx, a) = {}
        \/ j \in DOMAIN h.node /\ FirstIn(nx, M, a, j)
    <3> HIDE DEF k
    <3> QED BY <1>1, NodeOfFinds
  <2> HIDE DEF j, M, nx, a
  <2> QED BY <1>2, <2>1
<1> HIDE DEF j, nx, a
<1>4. j \in M /\ i \in Reach(nx, j)
  <2> HIDE DEF M
  <2> QED BY <1>2, <1>3 DEF FirstIn
<1>5. h.node[j].key = h.node[i].key
  BY <1>4 DEF Holders
<1>6. i = j
  BY <1>3, <1>4, <1>5 DEF OnceOK, nx
<1> QED BY <1>1, <1>6 DEF j

(* A key in the hash part has the value of a node that holds it. *)
Entry(h, k, v) == \E i \in DOMAIN h.node : h.node[i].key = k /\ h.node[i].val = v

(* What get answers for a key of the hash part is the value of a node that *)
(* holds the key.                                                          *)
LEMMA GetIsEntry ==
    ASSUME NEW h, WellFormed(h), NEW k \in Keys, ~InArray(h, k)
    PROVE  Get(h, k) \in Vals \cup {Nil} /\ \A v \in Vals : Get(h, k) = v <=> Entry(h, k, v)
<1> USE DEF WellFormed
<1> DEFINE j == NodeOf(h, k, FALSE)
<1>1. Get(h, k) = IF j = None THEN Nil ELSE h.node[j].val
  BY DEF Get
<1>2. j # None => j \in DOMAIN h.node /\ h.node[j].key = k /\ Live(h, j)
  BY FoundHolds
<1>3. ASSUME NEW i \in DOMAIN h.node, h.node[i].key = k, h.node[i].val \in Vals PROVE j = i
  <2>1. Live(h, i)
    BY <1>3, NodeShape, KeyAssumption DEF Live, Holds, DeadOK
  <2> QED BY <1>3, <2>1, LiveIsFound
<1>4. \A i \in DOMAIN h.node : i # None
  BY NodeShape
<1> HIDE DEF j
<1>5. Get(h, k) \in Vals \cup {Nil}
  BY <1>1, <1>2, NodeShape
<1>6. ASSUME NEW v \in Vals PROVE Get(h, k) = v <=> Entry(h, k, v)
  <2>1. v # Nil
    BY KeyAssumption
  <2>2. ASSUME Get(h, k) = v PROVE Entry(h, k, v)
    BY <1>1, <1>2, <2>1, <2>2 DEF Entry
  <2>3. ASSUME Entry(h, k, v) PROVE Get(h, k) = v
    BY <1>1, <1>3, <1>4, <2>3 DEF Entry
  <2> QED BY <2>2, <2>3
<1> QED BY <1>5, <1>6

(* The value of every key, in either part. *)
LEMMA GetShape ==
    ASSUME NEW h, WellFormed(h), NEW k \in Keys
    PROVE  /\ Get(h, k) \in Vals \cup {Nil}
           /\ InArray(h, k) => Get(h, k) = h.array[k]
<1>1. ASSUME InArray(h, k) PROVE Get(h, k) = h.array[k] /\ h.array[k] \in Vals \cup {Nil}
  <2>1. h.array \in Seq(Vals \cup {Nil}) /\ k \in DOMAIN h.array
    BY <1>1, TableShape DEF WellFormed, InArray
  <2>2. h.array[k] \in Vals \cup {Nil}
    BY <2>1, ElementOfSeq
  <2> QED BY <1>1, <2>2 DEF Get
<1> QED BY <1>1, GetIsEntry

(* The value of a node is the value of its key. *)
LEMMA NodeValue ==
    ASSUME NEW h, WellFormed(h), NEW j \in DOMAIN h.node, h.node[j].val # Nil
    PROVE  /\ h.node[j].val \in Vals /\ h.node[j].key \in Keys /\ ~InArray(h, h.node[j].key)
           /\ Get(h, h.node[j].key) = h.node[j].val
<1>1. Holds(h, j)
  BY FreeNodeShape DEF WellFormed, FreeOK
<1>2. h.node[j].val \in Vals /\ h.node[j].key \in Keys
  BY <1>1, NodeShape DEF WellFormed
<1>3. ~InArray(h, h.node[j].key)
  BY DEF WellFormed, PartsOK, InArray
<1>4. Entry(h, h.node[j].key, h.node[j].val)
  BY DEF Entry
<1> QED BY <1>2, <1>3, <1>4, GetIsEntry

(* Tables with the same entries map keys to the same values. *)
LEMMA SameEntriesSameGet ==
    ASSUME NEW h, WellFormed(h), NEW g, WellFormed(g), g.array = h.array, NEW k \in Keys,
           \A v \in Vals : Entry(h, k, v) <=> Entry(g, k, v)
    PROVE  Get(g, k) = Get(h, k)
<1>1. CASE InArray(h, k)
  BY <1>1 DEF Get, InArray
<1>2. CASE ~InArray(h, k)
  <2>1. ~InArray(g, k)
    BY <1>2 DEF InArray
  <2>2. /\ Get(h, k) \in Vals \cup {Nil} /\ \A v \in Vals : Get(h, k) = v <=> Entry(h, k, v)
        /\ Get(g, k) \in Vals \cup {Nil} /\ \A v \in Vals : Get(g, k) = v <=> Entry(g, k, v)
    BY <1>2, <2>1, GetIsEntry
  <2> QED BY <2>2
<1> QED BY <1>1, <1>2

-----------------------------------------------------------------------------
(* Assigning to fields that are there, and the death of keys.  Neither     *)
(* moves a key.                                                            *)

SameShape(h, g) ==
    /\ DOMAIN g.array = DOMAIN h.array /\ DOMAIN g.node = DOMAIN h.node
    /\ g.lastfree = h.lastfree /\ g.dummy = h.dummy
    /\ \A i \in DOMAIN h.node :
          /\ g.node[i].key = h.node[i].key /\ g.node[i].next = h.node[i].next
          /\ h.node[i].dead => g.node[i].dead

(* A table with the same keys and links, where only values changed and keys *)
(* died, has everything that keys and links must obey.                      *)
LEMMA ShapeKept ==
    ASSUME NEW h, WellFormed(h), NEW g, IsTable(g), SameShape(h, g)
    PROVE  /\ Links(g) = Links(h) /\ LinksOK(g) /\ HomeOK(g) /\ BrentOK(g) /\ OnceOK(g)
           /\ \A i \in DOMAIN g.node : g.node[i].key \notin DOMAIN g.array
           /\ \A i \in DOMAIN g.node :
                 ~Holds(g, i) => Unlinked(DOMAIN g.node, Links(g), i)
           /\ ~g.dummy => \A i \in DOMAIN g.node : i >= g.lastfree => Holds(g, i)
<1> USE DEF WellFormed, SameShape
<1>1. Links(g) = Links(h)
  BY DEF Links
<1>2. /\ DOMAIN g.node = DOMAIN h.node
      /\ \A i \in DOMAIN h.node : g.node[i].key = h.node[i].key
      /\ \A i \in DOMAIN h.node : Holds(g, i) <=> Holds(h, i)
  BY DEF Holds
<1>3. \A i \in DOMAIN h.node : Home(g, i) = Home(h, i)
  BY <1>2, MainPositionSame DEF Home
<1>4. LinksOK(g)
  BY <1>1 DEF LinksOK
<1>5. HomeOK(g)
  BY <1>1, <1>2, <1>3 DEF HomeOK
<1>6. BrentOK(g)
  <2>1. ASSUME NEW i \in DOMAIN h.node, Holds(h, i)
        PROVE  Holds(g, Home(g, i)) /\ Home(g, Home(g, i)) = Home(g, i)
    <3>1. Home(h, i) \in DOMAIN h.node
      BY <2>1, NodeShape, MainPositionIn DEF Home
    <3>2. Holds(h, Home(h, i)) /\ Home(h, Home(h, i)) = Home(h, i)
      BY <2>1 DEF BrentOK
    <3> QED BY <1>2, <1>3, <3>1, <3>2
  <2> QED BY <1>2, <2>1 DEF BrentOK
<1>7. OnceOK(g)
  <2> SUFFICES ASSUME NEW i \in DOMAIN h.node, NEW j \in DOMAIN h.node,
                      Live(g, i), g.node[j].key = g.node[i].key
               PROVE  IF g.node[j].dead THEN i \notin Reach(Links(h), j) ELSE i = j
    BY <1>1 DEF OnceOK
  <2>1. Live(h, i) /\ h.node[j].key = h.node[i].key
    BY <1>2 DEF Live
  <2>2. IF h.node[j].dead THEN i \notin Reach(Links(h), j) ELSE i = j
    BY <2>1 DEF OnceOK
  <2> QED BY <2>2 DEF Live
<1>8. \A i \in DOMAIN g.node : g.node[i].key \notin DOMAIN g.array
  BY DEF PartsOK
<1>9. \A i \in DOMAIN g.node : ~Holds(g, i) => Unlinked(DOMAIN g.node, Links(g), i)
  BY <1>1, <1>2 DEF FreeOK
<1>10. ~g.dummy => \A i \in DOMAIN g.node : i >= g.lastfree => Holds(g, i)
  BY <1>2 DEF LastFreeOK
<1> QED BY <1>1, <1>4, <1>5, <1>6, <1>7, <1>8, <1>9, <1>10

(* A key keeps the node findindex gives. *)
LEMMA ShapeKeepsIndex ==
    ASSUME NEW h, WellFormed(h), NEW g, IsTable(g), SameShape(h, g), NEW k \in Keys
    PROVE  NodeOf(g, k, TRUE) = NodeOf(h, k, TRUE)
<1> DEFINE M == Holders(h, k, TRUE)
           a == MainPosition(h, k)
           nx == Links(h)
           D == DOMAIN h.node
<1>1. Links(g) = nx /\ LinksOK(g) /\ LinksOK(h) /\ IsTable(h)
  BY ShapeKept DEF WellFormed
<1>2. Holders(g, k, TRUE) = M /\ MainPosition(g, k) = a
  BY MainPositionSame DEF SameShape, Holders
<1>3. /\ \/ NodeOf(h, k, TRUE) = None /\ M \cap Reach(nx, a) = {}
         \/ NodeOf(h, k, TRUE) \in D /\ FirstIn(nx, M, a, NodeOf(h, k, TRUE))
      /\ \/ NodeOf(g, k, TRUE) = None /\ M \cap Reach(nx, a) = {}
         \/ NodeOf(g, k, TRUE) \in D /\ FirstIn(nx, M, a, NodeOf(g, k, TRUE))
  <2>1. DOMAIN g.node = D
    BY DEF SameShape
  <2> QED BY <1>1, <1>2, <2>1, NodeOfFinds
<1>4. a \in D /\ ChainsOn(D, nx)
  BY <1>1, MainPositionIn DEF LinksOK
<1> HIDE DEF M, a, nx, D
<1>5. \A i, j : FirstIn(nx, M, a, i) /\ FirstIn(nx, M, a, j) => i = j
  BY <1>4, FirstIsUnique
<1>6. \A i : FirstIn(nx, M, a, i) => M \cap Reach(nx, a) # {}
  BY DEF FirstIn
<1> QED BY <1>3, <1>5, <1>6

(* Assign changes the value of its key and of no other. *)
LEMMA AssignSets ==
    ASSUME NEW h, WellFormed(h), NEW k \in Keys, Known(h, k), NEW v \in Vals \cup {Nil}
    PROVE  LET g == Assign(h, k, v) IN
           /\ WellFormed(g) /\ SameShape(h, g)
           /\ \A j \in Keys : Get(g, j) = IF j = k THEN v ELSE Get(h, j)
           /\ v # Nil /\ (\A i \in DOMAIN h.node : Holds(h, i) => h.node[i].val # Nil)
              => \A i \in DOMAIN g.node : Holds(g, i) => g.node[i].val # Nil
<1> DEFINE g == Assign(h, k, v)
           n == Size(h)
<1>1. /\ n \in PowersOfTwo /\ h \in TablesOf(n)
      /\ h.array \in Seq(Vals \cup {Nil}) /\ DOMAIN h.array = 1..Len(h.array)
      /\ DOMAIN h.node = 0..(n - 1) /\ h.node \in [0..(n - 1) -> Node]
  BY TableShape, LenProperties DEF WellFormed
<1>2. k \notin Int => k \in Names \cup Objects
  BY KeyAssumption DEF Keys
<1>3. CASE InArray(h, k)
  <2>1. g = [h EXCEPT !.array[k] = v] /\ k \in 1..Len(h.array)
    BY <1>1, <1>3 DEF Assign, InArray
  <2>2. k \in Ints
    BY <1>1, <2>1, KeyAssumption DEF Keys
  <2>3. /\ [h.array EXCEPT ![k] = v] \in Seq(Vals \cup {Nil})
        /\ Len([h.array EXCEPT ![k] = v]) = Len(h.array)
        /\ \A j \in 1..Len(h.array) : [h.array EXCEPT ![k] = v][j] = IF j = k THEN v ELSE h.array[j]
    BY <1>1, <2>1, ExceptSeq
  <2>4. /\ g.array = [h.array EXCEPT ![k] = v]
        /\ g.node = h.node /\ g.lastfree = h.lastfree /\ g.dummy = h.dummy
        /\ g \in TablesOf(n)
    BY <1>1, <2>1, <2>3 DEF TablesOf
  <2>5. IsTable(g) /\ DOMAIN g.array = DOMAIN h.array
    BY <1>1, <2>3, <2>4, LenProperties DEF IsTable
  <2>6. SameShape(h, g)
    BY <2>4, <2>5 DEF SameShape
  <2>7. WellFormed(g)
    <3>1. FreeOK(g) /\ DeadOK(g) /\ LastFreeOK(g)
      BY <2>4 DEF WellFormed, FreeOK, DeadOK, LastFreeOK, Holds, Links
    <3>2. PartsOK(g)
      BY <1>1, <2>2, <2>3, <2>4, <2>5 DEF WellFormed, PartsOK
    <3> QED BY <2>5, <2>6, <3>1, <3>2, ShapeKept DEF WellFormed
  <2>8. ASSUME NEW j \in Keys PROVE Get(g, j) = IF j = k THEN v ELSE Get(h, j)
    <3>1. CASE InArray(h, j)
      BY <1>1, <2>3, <2>4, <2>5, <3>1 DEF Get, InArray
    <3>2. CASE ~InArray(h, j)
      <4>1. ~InArray(g, j) /\ j # k
        BY <1>3, <2>5, <3>2 DEF InArray
      <4>2. \A w \in Vals : Entry(h, j, w) <=> Entry(g, j, w)
        BY <2>4 DEF Entry
      <4>3. /\ Get(h, j) \in Vals \cup {Nil} /\ \A w \in Vals : Get(h, j) = w <=> Entry(h, j, w)
            /\ Get(g, j) \in Vals \cup {Nil} /\ \A w \in Vals : Get(g, j) = w <=> Entry(g, j, w)
        BY <2>7, <3>2, <4>1, GetIsEntry
      <4> QED BY <4>1, <4>2, <4>3
    <3> QED BY <3>1, <3>2
  <2> HIDE DEF g
  <2>9. (\A i \in DOMAIN h.node : Holds(h, i) => h.node[i].val # Nil)
        => \A i \in DOMAIN g.node : Holds(g, i) => g.node[i].val # Nil
    BY <2>4 DEF Holds
  <2> QED BY <2>6, <2>7, <2>8, <2>9 DEF g
<1>4. CASE ~InArray(h, k)
  <2> DEFINE m == NodeOf(h, k, FALSE)
  <2>1. m # None
    BY <1>4 DEF Known
  <2>2. m \in DOMAIN h.node /\ h.node[m].key = k /\ Live(h, m)
    BY <2>1, FoundHolds DEF WellFormed
  <2>3. g = [h EXCEPT !.node[m].val = v]
    BY <1>4 DEF Assign
  <2> HIDE DEF m
  <2>4. /\ g.node = [h.node EXCEPT ![m].val = v]
        /\ g.array = h.array /\ g.lastfree = h.lastfree /\ g.dummy = h.dummy
    BY <1>1, <2>3 DEF TablesOf
  <2>5. /\ DOMAIN g.node = DOMAIN h.node
        /\ \A i \in DOMAIN h.node :
              /\ g.node[i].key = h.node[i].key /\ g.node[i].next = h.node[i].next
              /\ g.node[i].dead = h.node[i].dead
              /\ g.node[i].val = (IF i = m THEN v ELSE h.node[i].val)
              /\ g.node[i] \in Node
    <3>1. \A i \in DOMAIN h.node : i # m => g.node[i] = h.node[i]
      BY <2>4
    <3>2. g.node[m] = [h.node[m] EXCEPT !.val = v]
      BY <2>2, <2>4
    <3>3. h.node[m] \in Node /\ \A i \in DOMAIN h.node : h.node[i] \in Node
      BY <2>2, NodeShape DEF WellFormed
    <3>4. /\ g.node[m].key = h.node[m].key /\ g.node[m].next = h.node[m].next
          /\ g.node[m].dead = h.node[m].dead /\ g.node[m].val = v /\ g.node[m] \in Node
      BY <3>2, <3>3 DEF Node
    <3>5. DOMAIN g.node = DOMAIN h.node
      BY <2>4
    <3>6. ASSUME NEW i \in DOMAIN h.node
          PROVE  /\ g.node[i].key = h.node[i].key /\ g.node[i].next = h.node[i].next
                 /\ g.node[i].dead = h.node[i].dead
                 /\ g.node[i].val = (IF i = m THEN v ELSE h.node[i].val)
                 /\ g.node[i] \in Node
      <4>1. CASE i = m
        BY <3>4, <4>1
      <4>2. CASE i # m
        BY <3>1, <3>3, <4>2
      <4> QED BY <4>1, <4>2
    <3> QED BY <3>5, <3>6
  <2>6. g.node \in [0..(n - 1) -> Node]
    BY <1>1, <2>4, <2>5
  <2>7. g \in TablesOf(n) /\ IsTable(g)
    BY <1>1, <2>3, <2>4, <2>6 DEF TablesOf, IsTable
  <2>8. SameShape(h, g)
    BY <2>4, <2>5 DEF SameShape
  <2>9. WellFormed(g)
    <3> USE DEF WellFormed
    <3>1. FreeOK(g)
      <4>1. ASSUME NEW i \in DOMAIN h.node, ~Holds(g, i) PROVE g.node[i] = FreeNode
        <5>1. ~Holds(h, i) /\ i # m
          BY <2>2, <2>5, <4>1 DEF Holds, Live
        <5>2. g.node[i] = h.node[i]
          BY <2>4, <5>1
        <5> QED BY <5>1, <5>2 DEF FreeOK
      <4> QED BY <2>5, <2>7, <2>8, <4>1, ShapeKept DEF FreeOK
    <3>2. DeadOK(g)
      BY <2>2, <2>5 DEF DeadOK, Live
    <3>3. ~h.dummy
      <4> SUFFICES ASSUME h.dummy PROVE FALSE
        OBVIOUS
      <4>1. h.node[m] = FreeNode
        BY <2>2 DEF LastFreeOK
      <4> QED BY <2>2, <4>1, FreeNodeShape DEF Live, Holds
    <3>4. LastFreeOK(g)
      BY <2>4, <2>7, <2>8, <3>3, ShapeKept DEF LastFreeOK
    <3>5. PartsOK(g)
      BY <2>4, <2>7, <2>8, ShapeKept DEF PartsOK
    <3> QED BY <2>7, <2>8, <3>1, <3>2, <3>4, <3>5, ShapeKept
  <2>10. ASSUME NEW j \in Keys PROVE Get(g, j) = IF j = k THEN v ELSE Get(h, j)
    <3>1. CASE j # k
      <4>1. \A w \in Vals : Entry(h, j, w) <=> Entry(g, j, w)
        BY <2>2, <2>5, <3>1 DEF Entry
      <4> QED BY <2>4, <2>9, <3>1, <4>1, SameEntriesSameGet
    <3>2. CASE j = k
      <4>1. ~InArray(g, k) /\ Live(g, m) /\ g.node[m].key = k /\ g.node[m].val = v
        BY <1>4, <2>2, <2>4, <2>5 DEF InArray, Live, Holds
      <4>2. NodeOf(g, k, FALSE) = m
        <5>1. /\ m \in DOMAIN g.node /\ IsTable(g) /\ LinksOK(g) /\ HomeOK(g) /\ OnceOK(g)
              /\ FALSE \in BOOLEAN
          BY <2>2, <2>5, <2>9 DEF WellFormed
        <5> HIDE DEF g
        <5>2. NodeOf(g, g.node[m].key, FALSE) = m
          BY <4>1, <5>1, LiveIsFound
        <5> QED BY <4>1, <5>2
      <4>3. m # None
        BY <2>2, NodeShape DEF WellFormed
      <4> QED BY <3>2, <4>1, <4>2, <4>3 DEF Get
    <3> QED BY <3>1, <3>2
  <2> HIDE DEF g
  <2>11. v # Nil /\ (\A i \in DOMAIN h.node : Holds(h, i) => h.node[i].val # Nil)
        => \A i \in DOMAIN g.node : Holds(g, i) => g.node[i].val # Nil
    BY <2>5 DEF Holds
  <2> QED BY <2>8, <2>9, <2>10, <2>11 DEF g
<1> QED BY <1>3, <1>4

(* The collector marks the keys of fields without a value as dead. *)
Dies(n) == n.val = Nil /\ n.key \in Names \cup Objects
Buried(h, g) ==
    g = [h EXCEPT !.node = [i \in DOMAIN h.node |->
            [h.node[i] EXCEPT !.dead = @ \/ Dies(h.node[i])]]]

(* A collection under the table changes no answer of get. *)
LEMMA DeathKeeps ==
    ASSUME NEW h, WellFormed(h), NEW g, Buried(h, g)
    PROVE  WellFormed(g) /\ SameShape(h, g) /\ \A j \in Keys : Get(g, j) = Get(h, j)
<1> DEFINE n == Size(h)
           dies(i) == Dies(h.node[i])
<1>1. n \in PowersOfTwo /\ h \in TablesOf(n) /\ DOMAIN h.node = 0..(n - 1)
  BY TableShape DEF WellFormed
<1>2. /\ g.node = [i \in DOMAIN h.node |->
                      [h.node[i] EXCEPT !.dead = h.node[i].dead \/ dies(i)]]
      /\ g.array = h.array /\ g.lastfree = h.lastfree /\ g.dummy = h.dummy
      /\ g = [array |-> g.array, node |-> g.node, lastfree |-> g.lastfree, dummy |-> g.dummy]
  BY <1>1 DEF TablesOf, Buried
<1>3. ASSUME NEW i \in DOMAIN h.node
      PROVE  /\ g.node[i].key = h.node[i].key /\ g.node[i].next = h.node[i].next
             /\ g.node[i].val = h.node[i].val
             /\ h.node[i].dead => g.node[i].dead
             /\ g.node[i].dead => h.node[i].dead \/ dies(i)
             /\ ~g.node[i].dead => g.node[i] = h.node[i]
             /\ g.node[i] \in Node
  <2>1. h.node[i] \in Node /\ g.node[i] = [h.node[i] EXCEPT !.dead = h.node[i].dead \/ dies(i)]
    BY <1>2, NodeShape DEF WellFormed
  <2> HIDE DEF dies
  <2>2. (h.node[i].dead \/ dies(i)) \in BOOLEAN
    OBVIOUS
  <2>3. h.node[i].dead \in BOOLEAN
    BY NodeShape DEF WellFormed
  <2>4. CASE h.node[i].dead \/ dies(i)
    <3>1. (h.node[i].dead \/ dies(i)) = TRUE
      BY <2>4
    <3>2. g.node[i] = [h.node[i] EXCEPT !.dead = TRUE]
      BY <2>1, <3>1
    <3>3. /\ g.node[i].key = h.node[i].key /\ g.node[i].next = h.node[i].next
          /\ g.node[i].val = h.node[i].val /\ g.node[i] \in Node
      BY <2>1, <3>2 DEF Node
    <3>4. g.node[i].dead = TRUE
      BY <2>1, <3>2 DEF Node
    <3> QED BY <2>4, <3>3, <3>4, Zenon
  <2>5. CASE ~(h.node[i].dead \/ dies(i))
    <3>1. (h.node[i].dead \/ dies(i)) = FALSE /\ h.node[i].dead = FALSE
      BY <2>3, <2>5
    <3>2. g.node[i] = [h.node[i] EXCEPT !.dead = FALSE]
      BY <2>1, <3>1
    <3>3. g.node[i] = h.node[i]
      BY <2>1, <3>1, <3>2 DEF Node
    <3> QED BY <2>1, <3>3, Zenon
  <2> QED BY <2>4, <2>5
<1>4. DOMAIN g.node = DOMAIN h.node /\ g.node \in [0..(n - 1) -> Node]
  BY <1>1, <1>2, <1>3
<1>5. g \in TablesOf(n) /\ IsTable(g)
  BY <1>1, <1>2, <1>4 DEF TablesOf, IsTable
<1> HIDE DEF dies
<1>6. SameShape(h, g)
  BY <1>2, <1>3, <1>4 DEF SameShape
<1>7. WellFormed(g)
  <2>1. FreeOK(g)
    <3>1. ASSUME NEW i \in DOMAIN g.node, ~Holds(g, i) PROVE g.node[i] = FreeNode
      <4>1. ~Holds(h, i) /\ h.node[i].key = Nil
        BY <1>3, <1>4, <3>1 DEF Holds
      <4>2. ~dies(i)
        BY <4>1, KeyAssumption DEF dies, Dies, Keys
      <4>3. h.node[i] = FreeNode
        BY <1>4, <4>1 DEF WellFormed, FreeOK
      <4> QED BY <1>3, <1>4, <4>2, <4>3, FreeNodeShape
    <3> QED BY <1>5, <1>6, <3>1, ShapeKept DEF FreeOK
  <2>2. DeadOK(g)
    BY <1>3, <1>4 DEF WellFormed, DeadOK, dies, Dies
  <2>3. LastFreeOK(g)
    <3>1. CASE h.dummy
      <4>1. h.node = [i \in {0} |-> FreeNode] /\ h.lastfree = 0
        BY <3>1 DEF WellFormed, LastFreeOK
      <4>2. DOMAIN h.node = {0} /\ h.node[0] = FreeNode /\ h.node[0].key = Nil
        BY <4>1, FreeNodeShape
      <4>3. g.node[0] = FreeNode
        <5>1. ~Holds(g, 0) /\ 0 \in DOMAIN g.node
          BY <1>3, <1>4, <4>2 DEF Holds
        <5> QED BY <2>1, <5>1 DEF FreeOK
      <4>4. g.node = [i \in {0} |-> FreeNode]
        BY <1>2, <1>4, <4>2, <4>3
      <4> QED BY <1>2, <3>1, <4>1, <4>4 DEF LastFreeOK
    <3>2. CASE ~h.dummy
      BY <1>2, <1>5, <1>6, <3>2, ShapeKept DEF LastFreeOK
    <3> QED BY <3>1, <3>2
  <2>4. PartsOK(g)
    BY <1>2, <1>5, <1>6, ShapeKept DEF WellFormed, PartsOK
  <2> QED BY <1>5, <1>6, <2>1, <2>2, <2>3, <2>4, ShapeKept DEF WellFormed
<1>8. ASSUME NEW j \in Keys PROVE Get(g, j) = Get(h, j)
  <2>1. \A v \in Vals : Entry(h, j, v) <=> Entry(g, j, v)
    BY <1>3, <1>4 DEF Entry
  <2> QED BY <1>2, <1>7, <2>1, SameEntriesSameGet
<1> QED BY <1>6, <1>7, <1>8

-----------------------------------------------------------------------------
(* Numbers. *)

(* A set of natural numbers has a least one. *)
LEMMA LeastOf ==
    ASSUME NEW S \in SUBSET Nat, S # {}
    PROVE  \E n \in S : \A m \in S : n <= m
<1>1. PICK n \in S : \A m \in S : ~(<<m, n>> \in OpToRel(<, Nat))
  BY NatLessThanWellFounded, WFMin
<1>2. ASSUME NEW m \in S PROVE n <= m
  <2>1. m \in Nat /\ n \in Nat
    OBVIOUS
  <2>2. ~(m < n)
    BY <1>1, <2>1 DEF OpToRel
  <2> QED BY <2>1, <2>2
<1> QED BY <1>2

(* A bounded one a largest. *)
LEMMA LargestOf ==
    ASSUME NEW b \in Nat, NEW S \in SUBSET (0..b), S # {}
    PROVE  MaxOf(S) \in S /\ \A m \in S : m <= MaxOf(S)
<1> DEFINE T == {b - m : m \in S}
<1>1. T \in SUBSET Nat /\ T # {}
  <2>1. \A m \in S : m \in 0..b
    OBVIOUS
  <2>2. \A m \in 0..b : b - m \in Nat
    OBVIOUS
  <2>3. PICK m \in S : TRUE
    OBVIOUS
  <2>4. b - m \in T
    OBVIOUS
  <2> QED BY <2>1, <2>2, <2>4
<1>2. PICK l \in T : \A m \in T : l <= m
  BY <1>1, LeastOf
<1>3. PICK n \in S : l = b - n
  OBVIOUS
<1>4. ASSUME NEW m \in S PROVE m <= n
  <2>1. b - m \in T
    OBVIOUS
  <2>2. b - n <= b - m /\ n \in Int /\ m \in Int
    BY <1>2, <1>3, <2>1
  <2> QED BY <2>2
<1> QED BY <1>4 DEF MaxOf

-----------------------------------------------------------------------------
(* A new key.  The three ways of newkey, field by field. *)

Keeps(h, g) ==
    /\ IsTable(g) /\ g.array = h.array /\ ~h.dummy /\ g.dummy = h.dummy
    /\ DOMAIN g.node = DOMAIN h.node

(* The main position has no value and is used again. *)
Reuses(h, k, g) ==
    LET mp == MainPosition(h, k) IN
    /\ h.node[mp].val = Nil /\ g.lastfree = h.lastfree
    /\ g.node[mp] = NodeFor(k, h.node[mp].next)
    /\ \A i \in DOMAIN h.node \ {mp} : g.node[i] = h.node[i]

(* Otherwise the last free node is used. *)
UsesFree(h, k, g, n) ==
    /\ h.node[MainPosition(h, k)].val # Nil
    /\ n \in DOMAIN h.node /\ ~Holds(h, n) /\ g.lastfree = n
    /\ \A i \in DOMAIN h.node : i < h.lastfree /\ ~Holds(h, i) => i <= n

(* The node in the main position is away from its own, and moves. *)
Displaces(h, k, g, n, p) ==
    LET mp == MainPosition(h, k) IN
    /\ UsesFree(h, k, g, n) /\ Home(h, mp) # mp
    /\ p \in DOMAIN h.node /\ h.node[p].next = mp
    /\ g.node[mp] = NodeFor(k, None)
    /\ g.node[n] = h.node[mp]
    /\ g.node[p] = [h.node[p] EXCEPT !.next = n]
    /\ \A i \in DOMAIN h.node \ {mp, n, p} : g.node[i] = h.node[i]

(* It is in its own, and the new node comes behind it. *)
Follows(h, k, g, n) ==
    LET mp == MainPosition(h, k) IN
    /\ UsesFree(h, k, g, n) /\ Home(h, mp) = mp
    /\ g.node[n] = NodeFor(k, h.node[mp].next)
    /\ g.node[mp] = [h.node[mp] EXCEPT !.next = n]
    /\ \A i \in DOMAIN h.node \ {mp, n} : g.node[i] = h.node[i]

(* A table whose nodes are replaced by nodes is a table. *)
Replaced(h, nodes, l, g) ==
    /\ l \in 0..Size(h) /\ nodes = [i \in DOMAIN h.node |-> nodes[i]]
    /\ \A i \in DOMAIN h.node : nodes[i] \in Node
    /\ g = [h EXCEPT !.node = nodes, !.lastfree = l]

(* With other nodes and another lastfree a table is still one. *)
LEMMA NodesReplaced ==
    ASSUME NEW h, IsTable(h), NEW nodes, NEW l, NEW g, Replaced(h, nodes, l, g)
    PROVE  /\ IsTable(g) /\ g.array = h.array /\ g.node = nodes /\ g.lastfree = l
           /\ g.dummy = h.dummy
<1> DEFINE n == Size(h)
<1>1. n \in PowersOfTwo /\ h \in TablesOf(n) /\ DOMAIN h.node = 0..(n - 1)
  BY TableShape
<1>2. nodes \in [0..(n - 1) -> Node]
  BY <1>1 DEF Replaced
<1> HIDE DEF n
<1>3. l \in 0..n
  BY DEF n, Replaced
<1>4. g \in TablesOf(n) /\ g.array = h.array /\ g.node = nodes /\ g.lastfree = l /\ g.dummy = h.dummy
  BY <1>1, <1>2, <1>3 DEF TablesOf, Replaced
<1> QED BY <1>1, <1>4 DEF IsTable

(* Place does one of these, unless no node is free. *)
NodeToUse(h, k) ==
    FreePositions(h) # {} \/ (h.node[MainPosition(h, k)].val = Nil /\ ~h.dummy)

(* The three branches of newkey are the only ones. *)
LEMMA PlaceCases ==
    ASSUME NEW h, WellFormed(h), NEW k \in Keys, NodeToUse(h, k) \/ Place(h, k) # Full
    PROVE  LET g == Place(h, k) IN
           /\ Keeps(h, g)
           /\ \/ Reuses(h, k, g)
              \/ \E n, p : Displaces(h, k, g, n, p)
              \/ \E n : Follows(h, k, g, n)
<1> DEFINE mp == MainPosition(h, k)
           D == DOMAIN h.node
           g == Place(h, k)
           n == MaxOf(FreePositions(h))
           p == CHOOSE q \in DOMAIN h.node : h.node[q].next = mp
<1>1. /\ IsTable(h) /\ mp \in D
      /\ D = 0..(Size(h) - 1) /\ Size(h) \in Nat /\ h.lastfree \in 0..Size(h)
      /\ h.node \in [D -> Node] /\ h \in TablesOf(Size(h))
  BY MainPositionIn, TableShape, SizesBounded DEF WellFormed
<1>2. h.node[mp] \in Node /\ h.node = [i \in D |-> h.node[i]]
      /\ h = [array |-> h.array, node |-> h.node, lastfree |-> h.lastfree, dummy |-> h.dummy]
  BY <1>1 DEF TablesOf
<1>3. CASE h.node[mp].val = Nil /\ ~h.dummy
  <2> DEFINE new == NodeFor(k, h.node[mp].next)
             nodes == [h.node EXCEPT ![mp] = new]
  <2>1. g = [h EXCEPT !.node[mp] = new]
    BY <1>3 DEF Place
  <2> HIDE DEF new
  <2>2. g = [h EXCEPT !.node = nodes, !.lastfree = h.lastfree]
    BY <1>1, <1>2, <2>1
  <2>3. /\ DOMAIN nodes = D /\ nodes = [i \in D |-> nodes[i]]
        /\ nodes[mp] = new
        /\ \A i \in D \ {mp} : nodes[i] = h.node[i]
    BY <1>1, <1>2
  <2> HIDE DEF nodes, g
  <2>4. \A i \in D : nodes[i] \in Node
    <3>1. new \in Node
      BY <1>1, NewNodeShape, NodeShape DEF new
    <3> QED BY <1>1, <2>3, <3>1
  <2>5. IsTable(g) /\ g.array = h.array /\ g.node = nodes /\ g.lastfree = h.lastfree /\ g.dummy = h.dummy
    <3>1. Replaced(h, nodes, h.lastfree, g)
      BY <1>1, <2>2, <2>3, <2>4 DEF Replaced
    <3> QED BY <1>1, <3>1, NodesReplaced
  <2>6. Keeps(h, g)
    BY <1>3, <2>3, <2>5 DEF Keeps
  <2>7. Reuses(h, k, g)
    BY <1>3, <2>3, <2>5 DEF Reuses, new
  <2> QED BY <2>6, <2>7 DEF g
<1>4. CASE ~(h.node[mp].val = Nil /\ ~h.dummy)
  <2>1. FreePositions(h) # {}
    BY <1>4 DEF Place, NodeToUse
  <2>2. ~h.dummy
    <3> SUFFICES ASSUME h.dummy PROVE FALSE
      OBVIOUS
    <3>1. h.lastfree = 0
      BY DEF WellFormed, LastFreeOK
    <3> QED BY <2>1, <3>1 DEF FreePositions
  <2>3. h.node[mp].val # Nil
    BY <1>4, <2>2
  <2>4. /\ n \in FreePositions(h) /\ \A i \in FreePositions(h) : i <= n
    <3>1. FreePositions(h) \in SUBSET (0..Size(h))
      BY <1>1 DEF FreePositions
    <3> QED BY <1>1, <2>1, <3>1, LargestOf
  <2>5. /\ n \in D /\ n \in 0..Size(h) /\ n \in Nat /\ h.node[n].key = Nil /\ n < h.lastfree
        /\ \A i \in D : i < h.lastfree /\ h.node[i].key = Nil => i <= n
    BY <1>1, <2>4 DEF FreePositions
  <2> HIDE DEF n
  <2>6. ~Holds(h, n) /\ Holds(h, mp) /\ mp # n
    <3>1. ~Holds(h, n)
      BY <2>5 DEF Holds
    <3>2. h.node[n] = FreeNode
      BY <2>5, <3>1 DEF WellFormed, FreeOK
    <3>3. h.node[n].val = Nil
      BY <3>2, FreeNodeShape
    <3>4. Holds(h, mp)
      <4> SUFFICES ASSUME ~Holds(h, mp) PROVE FALSE
        OBVIOUS
      <4>1. h.node[mp] = FreeNode
        BY <1>1 DEF WellFormed, FreeOK
      <4> QED BY <2>3, <4>1, FreeNodeShape
    <3> QED BY <2>3, <3>1, <3>3, <3>4
  <2>7. h.node[n] = FreeNode
    BY <2>5, <2>6 DEF WellFormed, FreeOK
  <2>8. CASE MainPosition(h, h.node[mp].key) # mp
    <3>1. \E q \in D : h.node[q].next = mp
      <4> DEFINE o == MainPosition(h, h.node[mp].key)
      <4>1. o \in D
        BY <1>1, <2>6, MainPositionIn, NodeShape
      <4>2. mp \in Reach(Links(h), o) /\ ChainsOn(D, Links(h))
        BY <1>1, <2>6 DEF WellFormed, HomeOK, Home, LinksOK
      <4> HIDE DEF o
      <4>3. o # mp
        BY <2>8 DEF o
      <4>4. PICK q \in D : Links(h)[q] = mp
        BY <4>1, <4>2, <4>3, ReachHasPrevious
      <4> QED BY <4>4 DEF Links
    <3>2. p \in D /\ h.node[p].next = mp
      BY <3>1
    <3> HIDE DEF p
    <3>3. p # n
      <4>1. h.node[n].next = None
        BY <2>7, FreeNodeShape
      <4>2. None \notin D
        BY <1>1, NodeShape
      <4> QED BY <1>1, <3>2, <4>1, <4>2
    <3>4. p # mp
      <4>1. ChainsOn(D, Links(h)) /\ Links(h)[p] = mp
        BY <3>2 DEF WellFormed, LinksOK, Links
      <4> QED BY <1>1, <4>1, NoLoop
    <3> DEFINE new == NodeFor(k, None)
               nodes == [h.node EXCEPT ![p].next = n, ![n] = h.node[mp], ![mp] = new]
    <3>5. g = [h EXCEPT !.lastfree = n, !.node[p].next = n, !.node[n] = h.node[mp],
                        !.node[mp] = new]
      BY <1>4, <2>1, <2>8 DEF Place, n, p
    <3>6. g = [h EXCEPT !.node = nodes, !.lastfree = n]
      BY <1>2, <3>5
    <3>7. new \in Node
      BY NewNodeShape DEF None
    <3> HIDE DEF new
    <3>8. /\ DOMAIN nodes = D /\ nodes = [i \in D |-> nodes[i]]
          /\ nodes[mp] = new
          /\ nodes[n] = h.node[mp]
          /\ nodes[p] = [h.node[p] EXCEPT !.next = n]
          /\ \A i \in D \ {mp, n, p} : nodes[i] = h.node[i]
      BY <1>1, <1>2, <2>5, <2>6, <3>2, <3>3, <3>4
    <3> HIDE DEF nodes, g
    <3>9. \A i \in D : nodes[i] \in Node
      <4>1. h.node[p] \in Node
        BY <1>1, <3>2
      <4>2. nodes[p] \in Node
        BY <2>5, <3>8, <4>1 DEF Node
      <4> QED BY <1>1, <3>7, <3>8, <4>2
    <3>10. IsTable(g) /\ g.array = h.array /\ g.node = nodes /\ g.lastfree = n /\ g.dummy = h.dummy
      <4>1. Replaced(h, nodes, n, g)
        BY <1>1, <2>5, <3>6, <3>8, <3>9 DEF Replaced
      <4> QED BY <1>1, <4>1, NodesReplaced
    <3>11. Keeps(h, g)
      BY <2>2, <3>8, <3>10 DEF Keeps
    <3>12. UsesFree(h, k, g, n)
      BY <2>3, <2>5, <2>6, <3>10 DEF UsesFree, Holds
    <3>13. Displaces(h, k, g, n, p)
      BY <2>8, <3>2, <3>8, <3>10, <3>12 DEF Displaces, Home, new
    <3> QED BY <3>11, <3>13 DEF g
  <2>9. CASE MainPosition(h, h.node[mp].key) = mp
    <3> DEFINE new == NodeFor(k, h.node[mp].next)
               nodes == [h.node EXCEPT ![n] = new, ![mp].next = n]
    <3>1. g = [h EXCEPT !.lastfree = n, !.node[n] = new, !.node[mp].next = n]
      BY <1>4, <2>1, <2>9 DEF Place, n
    <3>3. g = [h EXCEPT !.node = nodes, !.lastfree = n]
      BY <1>2, <3>1
    <3>4. new \in Node
      BY <1>1, NewNodeShape, NodeShape
    <3> HIDE DEF new
    <3>5. /\ DOMAIN nodes = D /\ nodes = [i \in D |-> nodes[i]]
          /\ nodes[n] = new
          /\ nodes[mp] = [h.node[mp] EXCEPT !.next = n]
          /\ \A i \in D \ {mp, n} : nodes[i] = h.node[i]
      BY <1>1, <1>2, <2>5, <2>6
    <3> HIDE DEF nodes, g
    <3>6. \A i \in D : nodes[i] \in Node
      <4>1. nodes[mp] \in Node
        BY <1>2, <2>5, <3>5 DEF Node
      <4> QED BY <1>1, <3>4, <3>5, <4>1
    <3>7. IsTable(g) /\ g.array = h.array /\ g.node = nodes /\ g.lastfree = n /\ g.dummy = h.dummy
      <4>1. Replaced(h, nodes, n, g)
        BY <1>1, <2>5, <3>3, <3>5, <3>6 DEF Replaced
      <4> QED BY <1>1, <4>1, NodesReplaced
    <3>8. Keeps(h, g)
      BY <2>2, <3>5, <3>7 DEF Keeps
    <3>9. UsesFree(h, k, g, n)
      BY <2>3, <2>5, <2>6, <3>7 DEF UsesFree, Holds
    <3>10. Follows(h, k, g, n)
      BY <2>9, <3>5, <3>7, <3>9 DEF Follows, Home, new
    <3> QED BY <3>8, <3>10 DEF g
  <2> QED BY <2>8, <2>9
<1> QED BY <1>3, <1>4

(* What a new key must leave: a table as it should be, with the key in it, *)
(* without a value as yet, and the same entries.                           *)
Placed(h, k, g) ==
    /\ WellFormed(g)
    /\ \E i \in DOMAIN g.node : g.node[i].key = k /\ Live(g, i)
    /\ \A i \in DOMAIN g.node : g.node[i].key = k => g.node[i].val = Nil
    /\ \A j \in Keys, v \in Vals : Entry(g, j, v) <=> Entry(h, j, v)
    /\ \A i \in DOMAIN g.node : Holds(g, i) =>
          \/ g.node[i].key = k /\ Live(g, i)
          \/ \E m \in DOMAIN h.node : h.node[m].key = g.node[i].key /\ h.node[m].val = g.node[i].val

(* A key that is not known is in no live node. *)
LEMMA UnknownIsAbsent ==
    ASSUME NEW h, WellFormed(h), NEW k \in Keys, ~Known(h, k)
    PROVE  /\ k \notin DOMAIN h.array
           /\ \A i \in DOMAIN h.node : h.node[i].key = k => h.node[i].dead /\ h.node[i].val = Nil
<1>1. k \notin DOMAIN h.array /\ NodeOf(h, k, FALSE) = None
  BY DEF Known, InArray
<1>2. ASSUME NEW i \in DOMAIN h.node, h.node[i].key = k, ~h.node[i].dead PROVE FALSE
  <2>1. Live(h, i)
    BY <1>2, KeyAssumption DEF Live, Holds
  <2>2. NodeOf(h, h.node[i].key, FALSE) = i /\ FALSE \in BOOLEAN
    BY <2>1, LiveIsFound DEF WellFormed
  <2>3. i # None
    BY NodeShape DEF WellFormed
  <2> QED BY <1>1, <1>2, <2>2, <2>3
<1> QED BY <1>1, <1>2 DEF WellFormed, DeadOK

(* What Keeps gives every case. *)
LEMMA KeepsShape ==
    ASSUME NEW h, WellFormed(h), NEW g, Keeps(h, g)
    PROVE  /\ IsTable(h) /\ IsTable(g) /\ DOMAIN g.node = DOMAIN h.node
           /\ \A k : MainPosition(g, k) = MainPosition(h, k)
           /\ \A i \in DOMAIN h.node : Home(g, i) = MainPosition(h, g.node[i].key)
           /\ \A i \in DOMAIN h.node : Holds(h, i) => Home(h, i) \in DOMAIN h.node
           /\ ~g.dummy /\ g.array = h.array
<1>1. IsTable(h) /\ IsTable(g) /\ DOMAIN g.node = DOMAIN h.node /\ ~g.dummy /\ g.array = h.array
  BY DEF Keeps, WellFormed
<1>2. \A k : MainPosition(g, k) = MainPosition(h, k)
  BY <1>1, MainPositionSame
<1>3. \A i \in DOMAIN h.node : Holds(h, i) => Home(h, i) \in DOMAIN h.node
  BY <1>1, NodeShape, MainPositionIn DEF Home
<1> QED BY <1>1, <1>2, <1>3 DEF Home

(* The main position is used again. *)
LEMMA ReuseIsPlaced ==
    ASSUME NEW h, WellFormed(h), NEW k \in Keys, ~Known(h, k),
           NEW g, Keeps(h, g), Reuses(h, k, g)
    PROVE  Placed(h, k, g)
<1> DEFINE mp == MainPosition(h, k)
           D == DOMAIN h.node
           nx == Links(h)
<1>1. /\ IsTable(h) /\ IsTable(g) /\ DOMAIN g.node = D
      /\ \A i \in D : Home(g, i) = MainPosition(h, g.node[i].key)
      /\ ~g.dummy /\ ~h.dummy /\ g.array = h.array
  BY KeepsShape DEF Keeps
<1>2. mp \in D /\ k # Nil
  BY <1>1, MainPositionIn, KeyAssumption
<1>3. /\ k \notin DOMAIN h.array
      /\ \A i \in D : h.node[i].key = k => h.node[i].dead /\ h.node[i].val = Nil
  BY UnknownIsAbsent
<1>4. /\ g.node[mp].key = k /\ g.node[mp].val = Nil /\ ~g.node[mp].dead
      /\ g.node[mp].next = h.node[mp].next /\ h.node[mp].val = Nil
      /\ \A i \in D \ {mp} : g.node[i] = h.node[i]
      /\ g.lastfree = h.lastfree
  <2>1. /\ g.node[mp] = NodeFor(k, h.node[mp].next) /\ h.node[mp].val = Nil
        /\ \A i \in D \ {mp} : g.node[i] = h.node[i]
        /\ g.lastfree = h.lastfree
    BY DEF Reuses
  <2>2. k \in Keys \cup {Nil} /\ h.node[mp].next \in Int
    BY <1>1, <1>2, NodeShape
  <2> HIDE DEF mp
  <2> QED BY <2>1, <2>2, NewNodeShape
<1>5. Links(g) = nx
  BY <1>1, <1>4 DEF Links
<1>6. ChainsOn(D, nx) /\ mp \in Reach(nx, mp)
  BY <1>2, ReachCloses DEF WellFormed, LinksOK
<1> HIDE DEF mp, nx
<1>7. Live(g, mp) /\ Holds(g, mp) /\ \A i \in D \ {mp} : (Holds(g, i) <=> Holds(h, i)) /\ (Live(g, i) <=> Live(h, i))
  BY <1>2, <1>4 DEF Live, Holds
<1>8. Home(g, mp) = mp /\ \A i \in D \ {mp} : Home(g, i) = Home(h, i)
  BY <1>1, <1>2, <1>4 DEF Home, mp
<1>9. LinksOK(g)
  BY <1>1, <1>5 DEF WellFormed, LinksOK, nx
<1>10. FreeOK(g)
  BY <1>1, <1>4, <1>5, <1>7 DEF WellFormed, FreeOK, nx
<1>11. DeadOK(g)
  BY <1>1, <1>4 DEF WellFormed, DeadOK
<1>12. LastFreeOK(g)
  BY <1>1, <1>4, <1>7 DEF WellFormed, LastFreeOK
<1>13. HomeOK(g)
  BY <1>1, <1>5, <1>6, <1>7, <1>8 DEF WellFormed, HomeOK, nx
<1>14. BrentOK(g)
  <2>1. ASSUME NEW i \in D, Holds(g, i), i # mp
        PROVE  Holds(g, Home(g, i)) /\ Home(g, Home(g, i)) = Home(g, i)
    <3>1. Holds(h, i) /\ Home(g, i) = Home(h, i) /\ Home(h, i) \in D
      BY <1>7, <1>8, <2>1, KeepsShape
    <3>2. Holds(h, Home(h, i)) /\ Home(h, Home(h, i)) = Home(h, i)
      BY <3>1 DEF WellFormed, BrentOK
    <3> QED BY <1>7, <1>8, <3>1, <3>2
  <2> QED BY <1>1, <1>7, <1>8, <2>1 DEF BrentOK
<1>15. OnceOK(g)
  <2> SUFFICES ASSUME NEW i \in D, NEW j \in D, Live(g, i), g.node[j].key = g.node[i].key
               PROVE  IF g.node[j].dead THEN i \notin Reach(nx, j) ELSE i = j
    BY <1>1, <1>5 DEF OnceOK
  <2>1. CASE i = mp /\ j # mp
    <3>1. h.node[j].key = k /\ g.node[j].dead /\ Holds(h, j)
      BY <1>2, <1>3, <1>4, <2>1 DEF Holds
    <3>2. j \in Reach(nx, mp)
      BY <3>1 DEF WellFormed, HomeOK, Home, mp, nx
    <3>3. mp \notin Reach(nx, j)
      BY <1>2, <1>6, <2>1, <3>2, ReachAntisymmetric
    <3> QED BY <2>1, <3>1, <3>3
  <2>2. CASE i # mp /\ j = mp
    <3>1. Live(h, i) /\ h.node[i].key = k
      BY <1>4, <1>7, <2>2
    <3> QED BY <1>3, <3>1 DEF Live
  <2>3. CASE i # mp /\ j # mp
    <3>1. Live(h, i) /\ h.node[j].key = h.node[i].key /\ g.node[j].dead = h.node[j].dead
      BY <1>4, <1>7, <2>3
    <3>2. IF h.node[j].dead THEN i \notin Reach(nx, j) ELSE i = j
      BY <3>1 DEF WellFormed, OnceOK, nx
    <3> QED BY <3>1, <3>2
  <2>4. CASE i = mp /\ j = mp
    BY <1>4, <2>4
  <2> QED BY <2>1, <2>2, <2>3, <2>4
<1>16. PartsOK(g)
  BY <1>1, <1>3, <1>4 DEF WellFormed, PartsOK
<1>17. WellFormed(g)
  BY <1>1, <1>9, <1>10, <1>11, <1>12, <1>13, <1>14, <1>15, <1>16 DEF WellFormed
<1>18. \A i \in D : g.node[i].key = k => g.node[i].val = Nil
  BY <1>3, <1>4
<1>19. ASSUME NEW j \in Keys, NEW v \in Vals PROVE Entry(g, j, v) <=> Entry(h, j, v)
  <2>1. v # Nil
    BY KeyAssumption
  <2> QED BY <1>1, <1>4, <2>1 DEF Entry
<1>20. \A i \in D : Holds(g, i) =>
          \/ g.node[i].key = k /\ Live(g, i)
          \/ \E m \in D : h.node[m].key = g.node[i].key /\ h.node[m].val = g.node[i].val
  BY <1>4, <1>7
<1> QED BY <1>1, <1>2, <1>4, <1>7, <1>17, <1>18, <1>19, <1>20 DEF Placed

(* What the last free node is: of no chain, and all behind it are in use. *)
LEMMA FreeIsFree ==
    ASSUME NEW h, WellFormed(h), NEW k \in Keys, NEW g, Keeps(h, g),
           NEW n, UsesFree(h, k, g, n)
    PROVE  LET mp == MainPosition(h, k) IN
           /\ n \in DOMAIN h.node /\ mp \in DOMAIN h.node /\ n # mp
           /\ n \in Int /\ mp # None /\ n # None
           /\ Holds(h, mp) /\ ~Holds(h, n) /\ Live(h, mp)
           /\ h.node[n].key = Nil /\ h.node[n].val = Nil /\ ~h.node[n].dead
           /\ Links(h)[n] = None
           /\ Unlinked(DOMAIN h.node, Links(h), n)
           /\ \A i \in DOMAIN h.node : i >= g.lastfree /\ i # n => Holds(h, i)
<1> DEFINE mp == MainPosition(h, k)
<1>1. IsTable(h) /\ ~h.dummy
  BY DEF WellFormed, Keeps
<1>2. /\ n \in DOMAIN h.node /\ mp \in DOMAIN h.node /\ h.node[mp].val # Nil /\ ~Holds(h, n)
      /\ g.lastfree = n
      /\ \A i \in DOMAIN h.node : i < h.lastfree /\ ~Holds(h, i) => i <= n
  BY <1>1, MainPositionIn DEF UsesFree
<1>3. h.node[n] = FreeNode /\ Unlinked(DOMAIN h.node, Links(h), n)
  BY <1>2 DEF WellFormed, FreeOK
<1>4. h.node[n].key = Nil /\ h.node[n].val = Nil /\ ~h.node[n].dead /\ h.node[n].next = None
  BY <1>3, FreeNodeShape
<1>5. Holds(h, mp)
  <2> SUFFICES ASSUME ~Holds(h, mp) PROVE FALSE
    OBVIOUS
  <2>1. h.node[mp] = FreeNode
    BY <1>2 DEF WellFormed, FreeOK
  <2> QED BY <1>2, <2>1, FreeNodeShape
<1>6. Live(h, mp)
  BY <1>2, <1>5 DEF WellFormed, DeadOK, Live
<1>7. \A i \in DOMAIN h.node : i \in Nat /\ i # None
  BY <1>1, NodeShape
<1>8. h.lastfree \in Nat
  BY <1>1, TableShape, SizesBounded
<1>9. ASSUME NEW i \in DOMAIN h.node, i >= n, i # n PROVE Holds(h, i)
  <2>1. i \in Nat /\ n \in Nat
    BY <1>2, <1>7
  <2>2. CASE i < h.lastfree
    BY <1>2, <1>9, <2>1, <2>2
  <2>3. CASE ~(i < h.lastfree)
    BY <1>1, <1>8, <2>1, <2>3 DEF WellFormed, LastFreeOK
  <2> QED BY <2>2, <2>3
<1>10. Links(h)[n] = None
  BY <1>2, <1>4 DEF Links
<1> QED BY <1>2, <1>3, <1>4, <1>5, <1>6, <1>7, <1>9, <1>10

(* The new node comes behind the main position. *)
LEMMA FollowerIsPlaced ==
    ASSUME NEW h, WellFormed(h), NEW k \in Keys, ~Known(h, k),
           NEW g, Keeps(h, g), NEW n, Follows(h, k, g, n)
    PROVE  Placed(h, k, g)
<1> DEFINE mp == MainPosition(h, k)
           D == DOMAIN h.node
           nx == Links(h)
           nx2 == Links(g)
<1>1. /\ IsTable(h) /\ IsTable(g) /\ DOMAIN g.node = D
      /\ \A i \in D : Home(g, i) = MainPosition(h, g.node[i].key)
      /\ ~g.dummy /\ ~h.dummy /\ g.array = h.array
  BY KeepsShape DEF Keeps
<1>2. /\ n \in D /\ mp \in D /\ n # mp /\ n \in Int /\ mp # None /\ n # None
      /\ Holds(h, mp) /\ ~Holds(h, n) /\ Live(h, mp)
      /\ h.node[n].key = Nil /\ nx[n] = None /\ Unlinked(D, nx, n)
      /\ \A i \in D : i >= g.lastfree /\ i # n => Holds(h, i)
  BY FreeIsFree DEF Follows
<1>3. /\ k \notin DOMAIN h.array
      /\ \A i \in D : h.node[i].key = k => h.node[i].dead /\ h.node[i].val = Nil
  BY UnknownIsAbsent
<1>4. k # Nil /\ \A i \in D : h.node[i] \in Node
  BY <1>1, KeyAssumption, NodeShape
<1>5. /\ g.node[n].key = k /\ g.node[n].val = Nil /\ ~g.node[n].dead
      /\ g.node[n].next = h.node[mp].next
  <2>1. g.node[n] = NodeFor(k, h.node[mp].next)
    BY DEF Follows
  <2>2. k \in Keys \cup {Nil} /\ h.node[mp].next \in Int
    BY <1>1, <1>2, NodeShape
  <2> HIDE DEF mp
  <2> QED BY <2>1, <2>2, NewNodeShape
<1>6. /\ g.node[mp].key = h.node[mp].key /\ g.node[mp].val = h.node[mp].val
      /\ g.node[mp].dead = h.node[mp].dead /\ g.node[mp].next = n
  <2>1. g.node[mp] = [h.node[mp] EXCEPT !.next = n] /\ h.node[mp] \in Node
    BY <1>2, <1>4 DEF Follows
  <2> HIDE DEF mp
  <2> QED BY <2>1 DEF Node
<1>7. \A i \in D \ {mp, n} : g.node[i] = h.node[i]
  BY DEF Follows
<1>8. MainPosition(h, h.node[mp].key) = mp
  BY DEF Follows, Home
<1>9. \A i \in D \ {n} : /\ g.node[i].key = h.node[i].key /\ g.node[i].val = h.node[i].val
                         /\ g.node[i].dead = h.node[i].dead
  BY <1>6, <1>7
<1>10. ChainsOn(D, nx) /\ Single(D, nx)
  BY DEF WellFormed, LinksOK
<1>11. LinksBehind(D, nx, mp, n, nx2)
  <2>1. nx2 \in [D -> D \cup {None}] /\ nx2[n] = nx[mp] /\ nx2[mp] = n
        /\ \A i \in D \ {mp, n} : nx2[i] = nx[i]
    <3>1. nx2 = [i \in D |-> g.node[i].next] /\ nx = [i \in D |-> h.node[i].next]
      BY <1>1 DEF Links
    <3>2. nx \in [D -> D \cup {None}]
      BY <1>10 DEF ChainsOn
    <3> HIDE DEF nx, nx2, mp, D
    <3>3. nx2[n] = nx[mp] /\ nx2[mp] = n /\ \A i \in D \ {mp, n} : nx2[i] = nx[i]
      BY <1>2, <1>5, <1>6, <1>7, <3>1
    <3>4. \A i \in D : nx2[i] \in D \cup {None}
      BY <1>2, <3>2, <3>3
    <3> QED BY <3>1, <3>3, <3>4
  <2> HIDE DEF nx, nx2, mp, D
  <2> QED BY <1>2, <2>1 DEF LinksBehind
<1> HIDE DEF mp, nx, nx2
<1>12. /\ ChainsOn(D, nx2) /\ Single(D, nx2) /\ n \in Reach(nx2, mp)
       /\ \A a \in D : Reach(nx, a) \subseteq Reach(nx2, a)
       /\ \A a \in D : a # n => Reach(nx2, a) \subseteq
                                  Reach(nx, a) \cup (IF mp \in Reach(nx, a) THEN {n} ELSE {})
  BY <1>2, <1>10, <1>11, BehindChains, BehindReaches
<1>13. /\ Holds(g, n) /\ Live(g, n)
       /\ \A i \in D \ {n} : (Holds(g, i) <=> Holds(h, i)) /\ (Live(g, i) <=> Live(h, i))
  BY <1>2, <1>4, <1>5, <1>9 DEF Live, Holds
<1>14. Home(g, n) = mp /\ Home(h, mp) = mp /\ \A i \in D \ {n} : Home(g, i) = Home(h, i)
  BY <1>1, <1>2, <1>5, <1>8, <1>9 DEF Home, mp
<1>15. LinksOK(g)
  BY <1>1, <1>12 DEF LinksOK, nx2
<1>16. FreeOK(g)
  <2>1. ASSUME NEW i \in D, ~Holds(g, i)
        PROVE  g.node[i] = FreeNode /\ Unlinked(D, nx2, i)
    <3>1. i # n /\ i # mp /\ ~Holds(h, i)
      BY <1>2, <1>13, <2>1
    <3>2. h.node[i] = FreeNode /\ Unlinked(D, nx, i)
      BY <3>1 DEF WellFormed, FreeOK, nx
    <3>3. Unlinked(D, nx2, i)
      BY <1>2, <1>11, <3>1, <3>2 DEF Unlinked, LinksBehind
    <3> QED BY <1>7, <3>1, <3>2, <3>3
  <2> QED BY <1>1, <2>1 DEF FreeOK, nx2
<1>17. DeadOK(g)
  BY <1>1, <1>5, <1>9 DEF WellFormed, DeadOK
<1>18. LastFreeOK(g)
  BY <1>1, <1>2, <1>13 DEF LastFreeOK
<1>19. HomeOK(g)
  <2>1. ASSUME NEW i \in D, Holds(g, i) PROVE i \in Reach(nx2, Home(g, i))
    <3>1. CASE i = n
      BY <1>12, <1>14, <3>1
    <3>2. CASE i # n
      <4>1. Holds(h, i) /\ Home(g, i) = Home(h, i) /\ Home(h, i) \in D
        BY <1>13, <1>14, <2>1, <3>2, KeepsShape
      <4>2. i \in Reach(nx, Home(h, i))
        BY <4>1 DEF WellFormed, HomeOK, nx
      <4> QED BY <1>12, <4>1, <4>2
    <3> QED BY <3>1, <3>2
  <2> QED BY <1>1, <2>1 DEF HomeOK, nx2
<1>20. BrentOK(g)
  <2>1. ASSUME NEW i \in D, Holds(g, i)
        PROVE  Holds(g, Home(g, i)) /\ Home(g, Home(g, i)) = Home(g, i)
    <3>1. CASE i = n
      BY <1>2, <1>13, <1>14, <3>1
    <3>2. CASE i # n
      <4>1. Holds(h, i) /\ Home(g, i) = Home(h, i) /\ Home(h, i) \in D
        BY <1>13, <1>14, <2>1, <3>2, KeepsShape
      <4>2. Holds(h, Home(h, i)) /\ Home(h, Home(h, i)) = Home(h, i)
        BY <4>1 DEF WellFormed, BrentOK
      <4>3. Home(h, i) # n
        BY <1>2, <4>2
      <4> QED BY <1>13, <1>14, <4>1, <4>2, <4>3
    <3> QED BY <3>1, <3>2
  <2> QED BY <1>1, <2>1 DEF BrentOK
<1>21. OnceOK(g)
  <2> SUFFICES ASSUME NEW i \in D, NEW j \in D, Live(g, i), g.node[j].key = g.node[i].key
               PROVE  IF g.node[j].dead THEN i \notin Reach(nx2, j) ELSE i = j
    BY <1>1 DEF OnceOK, nx2
  <2>1. CASE i = n /\ j # n
    <3>1. h.node[j].key = k /\ h.node[j].dead /\ g.node[j].dead /\ Holds(h, j)
      BY <1>3, <1>4, <1>5, <1>9, <2>1 DEF Holds
    <3>2. j \in Reach(nx, mp)
      BY <3>1 DEF WellFormed, HomeOK, Home, mp, nx
    <3>3. j # mp
      BY <1>2, <3>1 DEF Live
    <3>4. mp \notin Reach(nx, j)
      BY <1>2, <1>10, <3>2, <3>3, ReachAntisymmetric
    <3>5. n \notin Reach(nx, j)
      <4>1. n \in Reach(nx, j) => \E p \in D : nx[p] = n
        BY <1>10, <2>1, ReachHasPrevious
      <4> QED BY <1>2, <4>1 DEF Unlinked
    <3>6. n \notin Reach(nx2, j)
      BY <1>12, <2>1, <3>4, <3>5
    <3> QED BY <2>1, <3>1, <3>6
  <2>2. CASE i # n /\ j = n
    <3>1. Live(h, i) /\ h.node[i].key = k
      BY <1>5, <1>9, <1>13, <2>2
    <3> QED BY <1>3, <3>1 DEF Live
  <2>3. CASE i # n /\ j # n
    <3>1. Live(h, i) /\ h.node[j].key = h.node[i].key /\ g.node[j].dead = h.node[j].dead
      BY <1>9, <1>13, <2>3
    <3>2. IF h.node[j].dead THEN i \notin Reach(nx, j) ELSE i = j
      BY <3>1 DEF WellFormed, OnceOK, nx
    <3>3. i \notin Reach(nx, j) => i \notin Reach(nx2, j)
      BY <1>12, <2>3
    <3> QED BY <3>1, <3>2, <3>3
  <2>4. CASE i = n /\ j = n
    BY <1>5, <2>4
  <2> QED BY <2>1, <2>2, <2>3, <2>4
<1>22. PartsOK(g)
  <2>1. ASSUME NEW i \in D PROVE g.node[i].key \notin DOMAIN g.array
    BY <1>1, <1>3, <1>5, <1>9 DEF WellFormed, PartsOK
  <2> QED BY <1>1, <2>1 DEF WellFormed, PartsOK
<1>23. WellFormed(g)
  BY <1>1, <1>15, <1>16, <1>17, <1>18, <1>19, <1>20, <1>21, <1>22 DEF WellFormed
<1>24. \A i \in D : g.node[i].key = k => g.node[i].val = Nil
  BY <1>3, <1>5, <1>9
<1>25. ASSUME NEW j \in Keys, NEW v \in Vals PROVE Entry(g, j, v) <=> Entry(h, j, v)
  <2>1. v # Nil /\ h.node[n].key # j
    BY <1>2, KeyAssumption
  <2> QED BY <1>1, <1>2, <1>5, <1>9, <2>1 DEF Entry
<1>26. \A i \in D : Holds(g, i) =>
          \/ g.node[i].key = k /\ Live(g, i)
          \/ \E m \in D : h.node[m].key = g.node[i].key /\ h.node[m].val = g.node[i].val
  BY <1>5, <1>9, <1>13
<1> QED BY <1>1, <1>2, <1>5, <1>13, <1>23, <1>24, <1>25, <1>26 DEF Placed

(* The node in the main position moves to the free node. *)
LEMMA DisplacerIsPlaced ==
    ASSUME NEW h, WellFormed(h), NEW k \in Keys, ~Known(h, k),
           NEW g, Keeps(h, g), NEW n, NEW p, Displaces(h, k, g, n, p)
    PROVE  Placed(h, k, g)
<1> DEFINE mp == MainPosition(h, k)
           D == DOMAIN h.node
           nx == Links(h)
           nx2 == Links(g)
           s(i) == Swap(mp, n, i)
<1>1. /\ IsTable(h) /\ IsTable(g) /\ DOMAIN g.node = D
      /\ \A i \in D : Home(g, i) = MainPosition(h, g.node[i].key)
      /\ ~g.dummy /\ ~h.dummy /\ g.array = h.array
  BY KeepsShape DEF Keeps
<1>2. /\ n \in D /\ mp \in D /\ n # mp /\ n \in Int /\ mp # None /\ n # None
      /\ Holds(h, mp) /\ ~Holds(h, n) /\ Live(h, mp)
      /\ h.node[n].key = Nil /\ nx[n] = None /\ Unlinked(D, nx, n)
      /\ \A i \in D : i >= g.lastfree /\ i # n => Holds(h, i)
  BY FreeIsFree DEF Displaces
<1>3. /\ k \notin DOMAIN h.array
      /\ \A i \in D : h.node[i].key = k => h.node[i].dead /\ h.node[i].val = Nil
  BY UnknownIsAbsent
<1>4. k # Nil /\ \A i \in D : h.node[i] \in Node
  BY <1>1, KeyAssumption, NodeShape
<1>5. /\ g.node[mp].key = k /\ g.node[mp].val = Nil /\ ~g.node[mp].dead
      /\ g.node[mp].next = None
  <2>1. g.node[mp] = NodeFor(k, None)
    BY DEF Displaces
  <2>2. k \in Keys \cup {Nil} /\ None \in Int
    BY FreeNodeShape
  <2> HIDE DEF mp
  <2> QED BY <2>1, <2>2, NewNodeShape
<1>6. g.node[n] = h.node[mp] /\ \A i \in D \ {mp, n, p} : g.node[i] = h.node[i]
  BY DEF Displaces
<1>7. ChainsOn(D, nx) /\ Single(D, nx)
  BY DEF WellFormed, LinksOK
<1>8. p \in D /\ nx[p] = mp /\ p # n /\ p # mp
  <2>1. p \in D /\ nx[p] = mp
    BY DEF Displaces, Links
  <2> HIDE DEF mp, nx, D
  <2> QED BY <1>2, <1>7, <2>1, NoLoop
<1>9. /\ g.node[p].key = h.node[p].key /\ g.node[p].val = h.node[p].val
      /\ g.node[p].dead = h.node[p].dead /\ g.node[p].next = n
  <2>1. g.node[p] = [h.node[p] EXCEPT !.next = n] /\ h.node[p] \in Node
    BY <1>4, <1>8 DEF Displaces
  <2> HIDE DEF mp
  <2> QED BY <2>1 DEF Node
<1>10. MainPosition(h, h.node[mp].key) # mp
  BY DEF Displaces, Home
<1>11. \A i \in D \ {n} : /\ g.node[s(i)].key = h.node[i].key
                          /\ g.node[s(i)].val = h.node[i].val
                          /\ g.node[s(i)].dead = h.node[i].dead
  <2> HIDE DEF mp, D
  <2> QED BY <1>2, <1>6, <1>8, <1>9 DEF Swap
<1>12. Swapped(D, nx, mp, n, nx2)
  <2>1. nx2 = [i \in D |-> g.node[i].next] /\ nx = [i \in D |-> h.node[i].next]
    BY <1>1 DEF Links
  <2>2. nx \in [D -> D \cup {None}]
    BY <1>7 DEF ChainsOn
  <2> HIDE DEF nx, nx2, mp, D
  <2>3. /\ nx2[n] = nx[mp] /\ nx2[mp] = None /\ nx2[p] = n
        /\ \A i \in D \ {mp, n, p} : nx2[i] = nx[i]
    BY <1>2, <1>5, <1>6, <1>8, <1>9, <2>1
  <2>4. \A i \in D : nx2[i] \in D \cup {None}
    BY <1>2, <2>2, <2>3
  <2>5. nx[mp] # mp /\ nx[mp] # n
    BY <1>2, <1>7, NoLoop DEF Unlinked
  <2>6. ASSUME NEW i \in D PROVE nx2[s(i)] = s(nx[i])
    <3>1. CASE i = mp
      BY <1>2, <2>3, <2>5, <3>1 DEF Swap
    <3>2. CASE i = n
      BY <1>2, <2>3, <3>2 DEF Swap
    <3>3. CASE i = p
      BY <1>2, <1>8, <2>3, <3>3 DEF Swap
    <3>4. CASE i \notin {mp, n, p}
      <4>1. nx[i] # mp
        BY <1>2, <1>7, <1>8, <3>4 DEF Single
      <4>2. nx[i] # n
        BY <1>2 DEF Unlinked
      <4> QED BY <2>3, <3>4, <4>1, <4>2 DEF Swap
    <3> QED BY <3>1, <3>2, <3>3, <3>4
  <2> QED BY <1>2, <2>1, <2>4, <2>6 DEF Swapped
<1> HIDE DEF mp, nx, nx2
<1>13. /\ ChainsOn(D, nx2) /\ Single(D, nx2)
       /\ \A a \in D, b \in D : b \in Reach(nx, a) <=> s(b) \in Reach(nx2, s(a))
  BY <1>7, <1>12, SwapChains, SwapReaches
<1>14. /\ \A i : s(s(i)) = i
       /\ \A i \in D : s(i) \in D
       /\ \A i \in D : nx2[s(i)] = s(nx[i]) /\ nx[s(i)] = s(nx2[i])
       /\ s(mp) = n /\ s(n) = mp /\ \A i : i # mp /\ i # n => s(i) = i
  <2>1. s(mp) = n /\ s(n) = mp /\ \A i : i # mp /\ i # n => s(i) = i
    BY DEF Swap
  <2> QED BY <1>7, <1>12, <2>1, SwapTwice DEF Swapped
<1> HIDE DEF s
<1>15. /\ Holds(g, mp) /\ Live(g, mp)
       /\ \A i \in D \ {n} : (Holds(g, s(i)) <=> Holds(h, i)) /\ (Live(g, s(i)) <=> Live(h, i))
  BY <1>4, <1>5, <1>11 DEF Live, Holds
<1>16. /\ Home(g, mp) = mp
       /\ \A i \in D \ {n} : Home(g, s(i)) = Home(h, i)
  BY <1>1, <1>2, <1>5, <1>11, <1>14 DEF Home, mp
<1>17. \A i \in D \ {mp} : s(i) \in D \ {n} /\ i = s(s(i))
  BY <1>2, <1>14
(* No key is at home in a node that changes places. *)
<1>18. ASSUME NEW i \in D, Holds(h, i)
       PROVE  /\ Home(h, i) \in D /\ Home(h, i) # mp /\ Home(h, i) # n
              /\ Holds(h, Home(h, i)) /\ Home(h, Home(h, i)) = Home(h, i)
  <2>1. /\ Home(h, i) \in D
        /\ Holds(h, Home(h, i)) /\ Home(h, Home(h, i)) = Home(h, i)
    BY <1>18, KeepsShape DEF WellFormed, BrentOK
  <2>2. Home(h, mp) # mp
    BY <1>10 DEF Home
  <2> QED BY <1>2, <2>1, <2>2
<1>19. LinksOK(g)
  BY <1>1, <1>13 DEF LinksOK, nx2
<1>20. FreeOK(g)
  <2>1. ASSUME NEW i \in D, ~Holds(g, i)
        PROVE  g.node[i] = FreeNode /\ Unlinked(D, nx2, i)
    <3>1. i # mp /\ i # n
      BY <1>2, <1>6, <1>15, <2>1 DEF Holds
    <3>2. i # p /\ ~Holds(h, i)
      <4>1. ~Holds(h, i)
        BY <1>14, <1>15, <2>1, <3>1
      <4>2. Holds(h, p)
        <5> SUFFICES ASSUME ~Holds(h, p) PROVE FALSE
          OBVIOUS
        <5>1. h.node[p] = FreeNode
          BY <1>8 DEF WellFormed, FreeOK
        <5>2. nx[p] = None
          BY <1>8, <5>1, FreeNodeShape DEF nx, Links
        <5> QED BY <1>2, <1>8, <5>2
      <4> QED BY <4>1, <4>2
    <3>3. h.node[i] = FreeNode /\ Unlinked(D, nx, i)
      BY <3>2 DEF WellFormed, FreeOK, nx
    <3>4. ASSUME NEW j \in D, nx2[j] = i PROVE FALSE
      <4>1. nx[s(j)] = i /\ s(j) \in D
        BY <1>14, <3>1, <3>4
      <4> QED BY <3>3, <4>1 DEF Unlinked
    <3> QED BY <1>6, <3>1, <3>2, <3>3, <3>4 DEF Unlinked
  <2> QED BY <1>1, <2>1 DEF FreeOK, nx2
<1>21. DeadOK(g)
  <2>1. ASSUME NEW i \in D, g.node[i].dead PROVE g.node[i].val = Nil
    <3>1. i # mp
      BY <1>5, <2>1
    <3>2. s(i) \in D \ {n} /\ i = s(s(i))
      BY <1>17, <3>1
    <3>3. h.node[s(i)].dead /\ g.node[i].val = h.node[s(i)].val
      BY <1>11, <2>1, <3>2
    <3> QED BY <3>2, <3>3 DEF WellFormed, DeadOK
  <2> QED BY <1>1, <2>1 DEF DeadOK
<1>22. LastFreeOK(g)
  <2>1. ASSUME NEW i \in D, i >= g.lastfree PROVE Holds(g, i)
    <3>1. CASE i = n
      BY <1>2, <1>6, <3>1 DEF Holds
    <3>2. CASE i = mp
      BY <1>15, <3>2
    <3>3. CASE i # n /\ i # mp
      BY <1>2, <1>14, <1>15, <2>1, <3>3
    <3> QED BY <3>1, <3>2, <3>3
  <2> QED BY <1>1, <2>1 DEF LastFreeOK
<1>23. HomeOK(g)
  <2>1. ASSUME NEW i \in D, Holds(g, i) PROVE i \in Reach(nx2, Home(g, i))
    <3>1. CASE i = mp
      BY <1>2, <1>13, <1>16, <3>1, ReachCloses
    <3>2. CASE i # mp
      <4> DEFINE o == s(i)
      <4>1. o \in D \ {n} /\ i = s(o)
        BY <1>17, <3>2
      <4> HIDE DEF o
      <4>2. Holds(h, o) /\ Home(g, i) = Home(h, o)
        BY <1>15, <1>16, <2>1, <4>1
      <4>3. Home(h, o) \in D /\ s(Home(h, o)) = Home(h, o)
        BY <1>14, <1>18, <4>1, <4>2
      <4>4. o \in Reach(nx, Home(h, o))
        BY <4>1, <4>2 DEF WellFormed, HomeOK, nx
      <4>5. s(o) \in Reach(nx2, s(Home(h, o)))
        BY <1>13, <4>1, <4>3, <4>4
      <4> QED BY <4>1, <4>2, <4>3, <4>5
    <3> QED BY <3>1, <3>2
  <2> QED BY <1>1, <2>1 DEF HomeOK, nx2
<1>24. BrentOK(g)
  <2>1. ASSUME NEW i \in D, Holds(g, i)
        PROVE  Holds(g, Home(g, i)) /\ Home(g, Home(g, i)) = Home(g, i)
    <3>1. CASE i = mp
      BY <1>15, <1>16, <3>1
    <3>2. CASE i # mp
      <4> DEFINE o == s(i)
                 q == Home(h, o)
      <4>1. o \in D \ {n} /\ i = s(o)
        BY <1>17, <3>2
      <4> HIDE DEF o
      <4>2. Holds(h, o) /\ Home(g, i) = q
        BY <1>15, <1>16, <2>1, <4>1
      <4>3. q \in D \ {n} /\ s(q) = q /\ Holds(h, q) /\ Home(h, q) = q
        BY <1>14, <1>18, <4>1, <4>2
      <4> HIDE DEF q
      <4>4. Holds(g, q) /\ Home(g, q) = q
        BY <1>15, <1>16, <4>3
      <4> QED BY <4>2, <4>4
    <3> QED BY <3>1, <3>2
  <2> QED BY <1>1, <2>1 DEF BrentOK
<1>25. OnceOK(g)
  <2> SUFFICES ASSUME NEW i \in D, NEW j \in D, Live(g, i), g.node[j].key = g.node[i].key
               PROVE  IF g.node[j].dead THEN i \notin Reach(nx2, j) ELSE i = j
    BY <1>1 DEF OnceOK, nx2
  <2>1. CASE i = mp /\ j # mp
    <3>1. s(j) \in D \ {n} /\ j = s(s(j))
      BY <1>17, <2>1
    <3>2. h.node[s(j)].key = k /\ (g.node[j].dead <=> h.node[s(j)].dead)
      BY <1>5, <1>11, <2>1, <3>1
    <3>3. g.node[j].dead
      BY <1>3, <3>1, <3>2
    <3>4. \A q \in D : nx2[q] # mp
      <4> SUFFICES ASSUME NEW q \in D, nx2[q] = mp PROVE FALSE
        OBVIOUS
      <4>1. nx[s(q)] = n /\ s(q) \in D
        BY <1>14
      <4> QED BY <1>2, <4>1 DEF Unlinked
    <3>5. mp \notin Reach(nx2, j)
      BY <1>13, <2>1, <3>4, ReachHasPrevious
    <3> QED BY <2>1, <3>3, <3>5
  <2>2. CASE i # mp /\ j = mp
    <3>1. s(i) \in D \ {n} /\ i = s(s(i))
      BY <1>17, <2>2
    <3>2. Live(h, s(i)) /\ h.node[s(i)].key = k
      BY <1>5, <1>11, <1>15, <2>2, <3>1
    <3> QED BY <1>3, <3>1, <3>2 DEF Live
  <2>3. CASE i # mp /\ j # mp
    <3> DEFINE a == s(i)
               b == s(j)
    <3>1. a \in D \ {n} /\ i = s(a) /\ b \in D \ {n} /\ j = s(b)
      BY <1>17, <2>3
    <3> HIDE DEF a, b
    <3>2. /\ Live(h, a) /\ h.node[b].key = h.node[a].key
          /\ g.node[j].dead <=> h.node[b].dead
      BY <1>11, <1>15, <3>1
    <3>3. IF h.node[b].dead THEN a \notin Reach(nx, b) ELSE a = b
      BY <3>1, <3>2 DEF WellFormed, OnceOK, nx
    <3>4. a \notin Reach(nx, b) => i \notin Reach(nx2, j)
      BY <1>13, <3>1
    <3> QED BY <3>1, <3>2, <3>3, <3>4
  <2>4. CASE i = mp /\ j = mp
    BY <1>5, <2>4
  <2> QED BY <2>1, <2>2, <2>3, <2>4
<1>26. ASSUME NEW i \in D, i # mp
       PROVE  /\ s(i) \in D \ {n}
              /\ g.node[i].key = h.node[s(i)].key /\ g.node[i].val = h.node[s(i)].val
  <2>1. s(i) \in D \ {n} /\ i = s(s(i))
    BY <1>17, <1>26
  <2> QED BY <1>11, <2>1
<1>27. PartsOK(g)
  <2>1. ASSUME NEW i \in D PROVE g.node[i].key \notin DOMAIN g.array
    BY <1>1, <1>3, <1>5, <1>26 DEF WellFormed, PartsOK
  <2> QED BY <1>1, <2>1 DEF WellFormed, PartsOK
<1>28. WellFormed(g)
  BY <1>1, <1>19, <1>20, <1>21, <1>22, <1>23, <1>24, <1>25, <1>27 DEF WellFormed
<1>29. \A i \in D : g.node[i].key = k => g.node[i].val = Nil
  BY <1>3, <1>5, <1>26
<1>30. ASSUME NEW j \in Keys, NEW v \in Vals PROVE Entry(g, j, v) <=> Entry(h, j, v)
  <2>1. v # Nil /\ h.node[n].key # j
    BY <1>2, KeyAssumption
  <2>2. ASSUME Entry(g, j, v) PROVE Entry(h, j, v)
    BY <1>1, <1>5, <1>26, <2>1, <2>2 DEF Entry
  <2>3. ASSUME Entry(h, j, v) PROVE Entry(g, j, v)
    <3>1. PICK i \in D : h.node[i].key = j /\ h.node[i].val = v
      BY <2>3 DEF Entry
    <3>2. i # n
      BY <2>1, <3>1
    <3> QED BY <1>1, <1>11, <1>14, <3>1, <3>2 DEF Entry
  <2> QED BY <2>2, <2>3
<1>31. \A i \in D : Holds(g, i) =>
          \/ g.node[i].key = k /\ Live(g, i)
          \/ \E m \in D : h.node[m].key = g.node[i].key /\ h.node[m].val = g.node[i].val
  BY <1>5, <1>15, <1>26
<1> QED BY <1>1, <1>2, <1>5, <1>15, <1>28, <1>29, <1>30, <1>31 DEF Placed

(* So newkey leaves the table as it should be. *)
LEMMA PlaceIsPlaced ==
    ASSUME NEW h, WellFormed(h), NEW k \in Keys, ~Known(h, k), Place(h, k) # Full
    PROVE  Keeps(h, Place(h, k)) /\ Placed(h, k, Place(h, k))
<1> DEFINE g == Place(h, k)
<1>1. /\ Keeps(h, g)
      /\ \/ Reuses(h, k, g)
         \/ \E n, p : Displaces(h, k, g, n, p)
         \/ \E n : Follows(h, k, g, n)
  BY PlaceCases
<1> HIDE DEF g
<1>2. CASE Reuses(h, k, g)
  BY <1>1, <1>2, ReuseIsPlaced DEF g
<1>3. CASE \E n, p : Displaces(h, k, g, n, p)
  <2>1. PICK n, p : Displaces(h, k, g, n, p)
    BY <1>3
  <2> QED BY <1>1, <2>1, DisplacerIsPlaced DEF g
<1>4. CASE \E n : Follows(h, k, g, n)
  <2>1. PICK n : Follows(h, k, g, n)
    BY <1>4
  <2> QED BY <1>1, <2>1, FollowerIsPlaced DEF g
<1> QED BY <1>1, <1>2, <1>3, <1>4 DEF g

-----------------------------------------------------------------------------
(* Put: a table with one key set. *)

NodeKeys(h) == {h.node[i].key : i \in DOMAIN h.node} \ {Nil}

(* Every key in the hash part has a value: so while a table is filled. *)
Filled(h) == \A i \in DOMAIN h.node : Holds(h, i) => h.node[i].val # Nil

(* An assignment that needs no growth changes the value of its key, and    *)
(* nothing else of what get answers.                                       *)
LEMMA PutSets ==
    ASSUME NEW h, WellFormed(h), NEW k \in Keys, NEW v \in Vals \cup {Nil}, Put(h, k, v) # Full
    PROVE  LET g == Put(h, k, v) IN
           /\ WellFormed(g)
           /\ \A j \in Keys : Get(g, j) = IF j = k THEN v ELSE Get(h, j)
           /\ DOMAIN g.array = DOMAIN h.array /\ DOMAIN g.node = DOMAIN h.node
           /\ g.dummy = h.dummy
           /\ NodeKeys(g) \subseteq NodeKeys(h) \cup {k}
           /\ v # Nil /\ Filled(h) => Filled(g)
           /\ Known(h, k) => SameShape(h, g)
<1> DEFINE g == Put(h, k, v)
<1>1. h # Full
  BY TableShape DEF WellFormed
<1>2. CASE Known(h, k)
  <2>1. g = Assign(h, k, v)
    BY <1>1, <1>2 DEF Put
  <2>2. /\ WellFormed(g) /\ SameShape(h, g)
        /\ \A j \in Keys : Get(g, j) = IF j = k THEN v ELSE Get(h, j)
        /\ v # Nil /\ Filled(h) => Filled(g)
    BY <1>2, <2>1, AssignSets DEF Filled
  <2> HIDE DEF g
  <2>3. /\ DOMAIN g.array = DOMAIN h.array /\ DOMAIN g.node = DOMAIN h.node
        /\ g.dummy = h.dummy
        /\ NodeKeys(g) \subseteq NodeKeys(h)
    BY <2>2 DEF SameShape, NodeKeys
  <2> QED BY <2>2, <2>3 DEF g
<1>3. CASE ~Known(h, k)
  <2> DEFINE m == Place(h, k)
  <2>1. m # Full /\ g = Assign(m, k, v)
    BY <1>1, <1>3 DEF Put
  <2>2. Keeps(h, m) /\ Placed(h, k, m)
    BY <1>3, <2>1, PlaceIsPlaced
  <2> HIDE DEF m, g
  <2>3. /\ WellFormed(m) /\ m.array = h.array /\ m.dummy = h.dummy /\ DOMAIN m.node = DOMAIN h.node
        /\ \A j \in Keys, w \in Vals : Entry(m, j, w) <=> Entry(h, j, w)
    BY <2>2 DEF Keeps, Placed
  <2>4. PICK i \in DOMAIN m.node : m.node[i].key = k /\ Live(m, i)
    BY <2>2 DEF Placed
  <2>5. FALSE \in BOOLEAN /\ NodeOf(m, m.node[i].key, FALSE) = i /\ i # None
    BY <2>3, <2>4, LiveIsFound, NodeShape DEF WellFormed
  <2>6. Known(m, k)
    BY <2>4, <2>5 DEF Known
  <2>7. /\ WellFormed(g) /\ SameShape(m, g)
        /\ \A j \in Keys : Get(g, j) = IF j = k THEN v ELSE Get(m, j)
    BY <2>1, <2>3, <2>6, AssignSets
  <2>8. \A j \in Keys : Get(m, j) = Get(h, j)
    BY <2>3, SameEntriesSameGet
  <2>9. /\ DOMAIN g.array = DOMAIN h.array /\ DOMAIN g.node = DOMAIN h.node
        /\ g.dummy = h.dummy
    BY <2>3, <2>7 DEF SameShape
  <2>10. NodeKeys(g) \subseteq NodeKeys(h) \cup {k}
    <3>1. ASSUME NEW a \in DOMAIN m.node, Holds(m, a), m.node[a].key # k
          PROVE  m.node[a].key \in NodeKeys(h)
      <4>1. PICK b \in DOMAIN h.node : h.node[b].key = m.node[a].key
        BY <2>2, <3>1 DEF Placed
      <4> QED BY <3>1, <4>1 DEF NodeKeys, Holds
    <3> QED BY <2>7, <3>1 DEF SameShape, NodeKeys, Holds
  <2>11. ASSUME v # Nil, Filled(h) PROVE Filled(g)
    <3>1. ~InArray(m, k)
      BY <1>3, <2>3 DEF Known, InArray
    <3>2. g = [m EXCEPT !.node[i].val = v]
      BY <2>1, <2>4, <2>5, <3>1 DEF Assign
    <3>3. ASSUME NEW a \in DOMAIN m.node, Holds(m, a), a # i PROVE m.node[a].val # Nil
      <4>1. CASE m.node[a].key = k /\ Live(m, a)
        BY <2>3, <2>4, <3>3, <4>1 DEF WellFormed, OnceOK, Live
      <4>2. CASE \E b \in DOMAIN h.node : h.node[b].key = m.node[a].key /\ h.node[b].val = m.node[a].val
        BY <2>11, <3>3, <4>2 DEF Filled, Holds
      <4> QED BY <2>2, <3>3, <4>1, <4>2 DEF Placed
    <3>4. /\ DOMAIN g.node = DOMAIN m.node /\ g.node[i].val = v
          /\ \A a \in DOMAIN m.node : a # i => g.node[a] = m.node[a]
      <4>1. IsTable(m)
        BY <2>3 DEF WellFormed
      <4>2. /\ m \in TablesOf(Size(m)) /\ m.node[i] \in Node
            /\ m.node \in [0..(Size(m) - 1) -> Node] /\ DOMAIN m.node = 0..(Size(m) - 1)
        BY <2>4, <4>1, TableShape, NodeShape
      <4>3. g.node = [m.node EXCEPT ![i].val = v]
        BY <3>2, <4>2 DEF TablesOf
      <4> QED BY <2>4, <4>2, <4>3 DEF Node
    <3> QED BY <2>11, <3>3, <3>4 DEF Filled, Holds
  <2> QED BY <1>3, <2>7, <2>8, <2>9, <2>10, <2>11 DEF g
<1> QED BY <1>2, <1>3

-----------------------------------------------------------------------------
(* Room: a table that is being filled with the keys of S, and has a node   *)
(* for each of them.                                                       *)

Room(g, S) ==
    /\ WellFormed(g) /\ Filled(g) /\ NodeKeys(g) \subseteq S
    /\ S \subseteq Keys /\ IsFiniteSet(S) /\ Cardinality(S) <= Size(g)
    /\ g.dummy => S = {}

(* The pigeons are the nodes: when all of them hold a key, none is missing. *)
LEMMA RoomForKey ==
    ASSUME NEW g, NEW S, Room(g, S), NEW k \in S, ~Known(g, k)
    PROVE  Place(g, k) # Full
<1> DEFINE D == DOMAIN g.node
<1>1. /\ IsTable(g) /\ WellFormed(g) /\ Filled(g) /\ ~g.dummy /\ k \in Keys
      /\ D = 0..(Size(g) - 1) /\ Size(g) \in Nat
      /\ IsFiniteSet(S) /\ Cardinality(S) <= Size(g) /\ NodeKeys(g) \subseteq S
  BY TableShape, SizesBounded DEF Room, WellFormed
<1>2. ASSUME NEW i \in D, Holds(g, i) PROVE Live(g, i) /\ g.node[i].key \in S \ {k}
  <2>1. Live(g, i)
    BY <1>1, <1>2, NodeShape DEF Filled, WellFormed, DeadOK, Live
  <2>2. g.node[i].key \in S
    BY <1>1, <1>2 DEF NodeKeys, Holds
  <2>3. g.node[i].key # k
    <3> SUFFICES ASSUME g.node[i].key = k PROVE FALSE
      OBVIOUS
    <3>1. FALSE \in BOOLEAN /\ NodeOf(g, g.node[i].key, FALSE) = i /\ i # None
      BY <1>1, <2>1, LiveIsFound, NodeShape DEF WellFormed
    <3> QED BY <3>1 DEF Known
  <2> QED BY <2>1, <2>2, <2>3
<1>3. PICK i \in D : ~Holds(g, i)
  <2> SUFFICES ASSUME \A i \in D : Holds(g, i) PROVE FALSE
    OBVIOUS
  <2> DEFINE f == [i \in D |-> g.node[i].key]
             T == S \ {k}
  <2>1. f \in [D -> T]
    BY <1>2
  <2>2. IsFiniteSet(T) /\ Cardinality(T) = Cardinality(S) - 1
    BY <1>1, FS_RemoveElement
  <2>3. IsFiniteSet(D) /\ Cardinality(D) = Size(g)
    BY <1>1, FS_Interval DEF Size
  <2>4. Cardinality(S) \in Nat /\ Cardinality(T) < Cardinality(D)
    BY <1>1, <2>2, <2>3, FS_CardinalityType
  <2> HIDE DEF T
  <2>5. PICK i \in D, j \in D : i # j /\ f[i] = f[j]
    BY <2>1, <2>2, <2>3, <2>4, FS_PigeonHole
  <2> QED BY <1>1, <1>2, <2>5 DEF WellFormed, OnceOK, Live
<1>4. i < g.lastfree
  BY <1>1, <1>3, TableShape DEF WellFormed, LastFreeOK
<1>5. FreePositions(g) # {}
  BY <1>1, <1>3, <1>4, TableShape DEF FreePositions, Holds
<1>6. Keeps(g, Place(g, k))
  BY <1>1, <1>5, PlaceCases DEF NodeToUse
<1> QED BY <1>6, TableShape DEF Keeps

(* A key that is there, or has a place, can be put. *)
LEMMA PutHasPlace ==
    ASSUME NEW g, WellFormed(g), NEW k \in Keys, NEW v \in Vals \cup {Nil},
           Known(g, k) \/ Place(g, k) # Full
    PROVE  Put(g, k, v) # Full
<1> DEFINE f == Put(g, k, v)
<1>1. g # Full
  BY TableShape DEF WellFormed
<1>2. CASE Known(g, k)
  <2>1. f = Assign(g, k, v)
    BY <1>1, <1>2 DEF Put
  <2>2. WellFormed(f)
    BY <1>2, <2>1, AssignSets
  <2> QED BY <2>2, TableShape DEF WellFormed
<1>3. CASE ~Known(g, k)
  <2> DEFINE m == Place(g, k)
  <2>1. f = Assign(m, k, v)
    BY <1>1, <1>3 DEF Put
  <2>2. Keeps(g, m) /\ Placed(g, k, m)
    BY <1>3, PlaceIsPlaced
  <2> HIDE DEF m
  <2>3. PICK i \in DOMAIN m.node : m.node[i].key = k /\ Live(m, i)
    BY <2>2 DEF Placed, Keeps
  <2>4. WellFormed(m) /\ FALSE \in BOOLEAN
    BY <2>2 DEF Placed
  <2>5. NodeOf(m, m.node[i].key, FALSE) = i /\ i # None
    BY <2>3, <2>4, LiveIsFound, NodeShape DEF WellFormed
  <2>6. Known(m, k)
    BY <2>3, <2>5 DEF Known
  <2>7. WellFormed(f)
    BY <2>1, <2>4, <2>6, AssignSets
  <2> QED BY <2>7, TableShape DEF WellFormed
<1> QED BY <1>2, <1>3

(* And a key of S, or of the array part, can be put into it. *)
LEMMA RoomToPut ==
    ASSUME NEW g, NEW S, Room(g, S), NEW k \in Keys, k \in S \/ InArray(g, k),
           NEW v \in Vals
    PROVE  LET f == Put(g, k, v) IN
           /\ f # Full /\ Room(f, S)
           /\ DOMAIN f.array = DOMAIN g.array /\ DOMAIN f.node = DOMAIN g.node
           /\ \A j \in Keys : Get(f, j) = IF j = k THEN v ELSE Get(g, j)
<1> DEFINE f == Put(g, k, v)
<1>1. WellFormed(g) /\ g # Full /\ v # Nil /\ v \in Vals \cup {Nil}
  BY TableShape, KeyAssumption DEF Room, WellFormed
<1>2. f # Full
  <2>1. Known(g, k) \/ Place(g, k) # Full
    BY RoomForKey DEF Known
  <2> QED BY <1>1, <2>1, PutHasPlace
<1>3. /\ WellFormed(f) /\ Filled(f)
      /\ \A j \in Keys : Get(f, j) = IF j = k THEN v ELSE Get(g, j)
      /\ DOMAIN f.array = DOMAIN g.array /\ DOMAIN f.node = DOMAIN g.node
      /\ f.dummy = g.dummy
      /\ NodeKeys(f) \subseteq NodeKeys(g) \cup {k}
  BY <1>1, <1>2, PutSets DEF Room
<1> HIDE DEF f
<1>4. NodeKeys(f) \subseteq S
  <2>1. CASE k \in S
    BY <1>3, <2>1 DEF Room
  <2>2. CASE InArray(g, k)
    <3>1. k \notin NodeKeys(f)
      BY <1>3, <2>2 DEF NodeKeys, WellFormed, PartsOK, InArray
    <3> QED BY <1>3, <3>1 DEF Room
  <2> QED BY <2>1, <2>2
<1>5. Size(f) = Size(g)
  BY <1>3 DEF Size
<1> QED BY <1>2, <1>3, <1>4, <1>5 DEF Room, f

-----------------------------------------------------------------------------
(* New nodes: setnodevector. *)

(* Half a power of two is one again, down to 1. *)
LEMMA HalfPower ==
    ASSUME NEW p \in PowersOfTwo
    PROVE  /\ p = 1 \/ p \div 2 \in PowersOfTwo
           /\ p \div 2 \in Nat /\ p \div 2 < p
<1>1. p = 1 \/ p \div 2 \in PowersOfTwo
  BY SMT DEF PowersOfTwo
<1>2. p \in Nat \ {0}
  BY SizesBounded
<1> QED BY <1>1, <1>2

(* The least power of two that is enough. *)
LEMMA CeilPow2Holds ==
    ASSUME NEW n \in Nat, 1 <= n, n <= MaxASize
    PROVE  CeilPow2(n) \in PowersOfTwo /\ CeilPow2(n) >= n
<1> DEFINE S == {p \in PowersOfTwo : p >= n}
<1>1. MaxASize \in PowersOfTwo
  BY SMT DEF MaxASize, PowersOfTwo
<1>2. S \in SUBSET Nat /\ S # {}
  <2>1. PowersOfTwo \subseteq 1..MaxASize /\ MaxASize \in Nat
    BY SizesBounded
  <2>2. \A p \in 1..MaxASize : p \in Nat
    BY <2>1
  <2>3. MaxASize >= n
    BY <2>1
  <2> QED BY <1>1, <2>1, <2>2, <2>3
<1>3. PICK p \in S : \A m \in S : p <= m
  BY <1>2, LeastOf
<1>4. p \div 2 < n
  <2>1. p \in PowersOfTwo /\ p \in Nat
    BY <1>2
  <2>2. CASE p = 1
    BY <2>2
  <2>3. CASE p # 1
    <3>1. p \div 2 \in PowersOfTwo /\ p \div 2 \in Nat /\ p \div 2 < p
      BY <2>1, <2>3, HalfPower
    <3>2. ~(p \div 2 >= n)
      BY <1>3, <2>1, <3>1
    <3> QED BY <3>1, <3>2
  <2> QED BY <2>2, <2>3
<1>5. \E q \in PowersOfTwo : q >= n /\ q \div 2 < n
  BY <1>3, <1>4
<1> QED BY <1>5 DEF CeilPow2

(* The array part that a table has before its nodes are filled. *)
IsArrayPart(array) ==
    /\ array \in Seq(Vals \cup {Nil})
    /\ \A k \in DOMAIN array : array[k] # Nil => k \in Ints

(* setnodevector gives a well-formed hash part without keys, with the nodes *)
(* asked for.                                                               *)
LEMMA NodesAreFree ==
    ASSUME NEW h, NEW array, IsArrayPart(array), NEW n \in Nat, n <= MaxASize,
           h.array = array, h = [array |-> array, node |-> h.node, lastfree |-> h.lastfree, dummy |-> h.dummy]
    PROVE  LET g == Nodes(h, n) IN
           /\ WellFormed(g) /\ Filled(g) /\ NodeKeys(g) = {}
           /\ g.array = array /\ n <= Size(g) /\ (g.dummy <=> n = 0)
           /\ \A k \in Keys : Get(g, k) = IF k \in DOMAIN array THEN array[k] ELSE Nil
<1> DEFINE g == Nodes(h, n)
           size == IF n = 0 THEN 1 ELSE CeilPow2(n)
           D == 0..(size - 1)
<1>1. size \in PowersOfTwo /\ n <= size /\ (n = 0 => size = 1)
  <2>1. 1 \in PowersOfTwo
    BY SMT DEF PowersOfTwo
  <2> QED BY <2>1, CeilPow2Holds
<1>2. size \in Nat \ {0}
  BY <1>1, SizesBounded
<1> HIDE DEF size
<1>3. g = [h EXCEPT !.node = [i \in D |-> FreeNode], !.dummy = (n = 0),
                    !.lastfree = IF n = 0 THEN 0 ELSE size]
  BY DEF Nodes, size
<1>4. /\ g.node = [i \in D |-> FreeNode] /\ g.array = array
      /\ g.lastfree = (IF n = 0 THEN 0 ELSE size) /\ g.dummy = (n = 0)
      /\ g = [array |-> g.array, node |-> g.node, lastfree |-> g.lastfree, dummy |-> g.dummy]
  BY <1>3
<1> HIDE DEF g
<1>5. DOMAIN g.node = D /\ \A i \in D : g.node[i] = FreeNode /\ ~Holds(g, i) /\ ~g.node[i].dead
  BY <1>4, FreeNodeShape DEF Holds
<1>6. g \in TablesOf(size)
  BY <1>2, <1>4, FreeNodeShape DEF TablesOf, IsArrayPart
<1>7. IsTable(g)
  BY <1>1, <1>6 DEF IsTable
<1>8. Links(g) = [i \in D |-> None]
  BY <1>5, FreeNodeShape DEF Links
<1>9. None \notin D /\ D # {}
  BY <1>2 DEF None
<1>10. LinksOK(g)
  BY <1>5, <1>8, <1>9 DEF LinksOK, ChainsOn, Single, Acyclic
<1>11. FreeOK(g) /\ DeadOK(g) /\ HomeOK(g) /\ BrentOK(g) /\ OnceOK(g)
  BY <1>5, <1>8, <1>9 DEF FreeOK, DeadOK, HomeOK, BrentOK, OnceOK, Live, Unlinked
<1>12. LastFreeOK(g)
  <2>1. CASE n = 0
    <3>1. D = {0}
      BY <1>1, <2>1
    <3> QED BY <1>4, <2>1, <3>1 DEF LastFreeOK
  <2>2. CASE n # 0
    <3>1. ~g.dummy /\ g.lastfree = size
      BY <1>4, <2>2
    <3>2. \A i \in D : ~(i >= size)
      BY <1>2
    <3> QED BY <1>5, <3>1, <3>2 DEF LastFreeOK
  <2> QED BY <2>1, <2>2
<1>13. PartsOK(g)
  <2>1. \A i \in D : g.node[i].key = Nil
    BY <1>5, FreeNodeShape
  <2>2. DOMAIN g.array \subseteq Int
    BY <1>4, LenProperties DEF IsArrayPart
  <2>3. Nil \notin DOMAIN g.array
    BY <2>2, KeyAssumption
  <2> QED BY <1>4, <1>5, <2>1, <2>3 DEF PartsOK, IsArrayPart
<1>14. WellFormed(g)
  BY <1>7, <1>10, <1>11, <1>12, <1>13 DEF WellFormed
<1>15. Filled(g) /\ NodeKeys(g) = {}
  BY <1>5 DEF Filled, NodeKeys, Holds
<1>16. Size(g) = size
  BY <1>2, <1>5, FS_Interval DEF Size
<1>17. ASSUME NEW k \in Keys PROVE Get(g, k) = IF k \in DOMAIN array THEN array[k] ELSE Nil
  <2>1. CASE InArray(g, k)
    BY <1>4, <2>1 DEF Get, InArray
  <2>2. CASE ~InArray(g, k)
    <3>1. \A v \in Vals : ~Entry(g, k, v)
      BY <1>5, FreeNodeShape, KeyAssumption DEF Entry
    <3>2. Get(g, k) = Nil
      BY <1>14, <2>2, <3>1, GetIsEntry
    <3> QED BY <1>4, <2>2, <3>2 DEF InArray
  <2> QED BY <2>1, <2>2
<1> QED BY <1>1, <1>4, <1>14, <1>15, <1>16, <1>17 DEF g

-----------------------------------------------------------------------------
(* Inserting the entries of a part, one after the other. *)

StepsThrough(g, e, n, f) ==
    f = [i \in 0..n |-> IF i = 0 THEN g ELSE Reinsert(f[i - 1], e[i].key, e[i].val)]

(* The recursion over the entries is well defined. *)
LEMMA StepsExist ==
    ASSUME NEW g, NEW e, NEW n \in Nat
    PROVE  \E f : StepsThrough(g, e, n, f)
<1> DEFINE Bad == {m \in Nat : \A f : ~StepsThrough(g, e, m, f)}
<1> SUFFICES ASSUME Bad # {} PROVE FALSE
  OBVIOUS
<1>1. PICK m \in Bad : \A l \in Bad : m <= l
  BY LeastOf
<1>2. m \in Nat /\ \A f : ~StepsThrough(g, e, m, f)
  OBVIOUS
<1>3. CASE m = 0
  <2> DEFINE f == [i \in 0..0 |-> g]
  <2>1. f = [i \in 0..0 |-> IF i = 0 THEN g ELSE Reinsert(f[i - 1], e[i].key, e[i].val)]
    OBVIOUS
  <2> QED BY <1>2, <1>3, <2>1 DEF StepsThrough
<1>4. CASE m # 0
  <2>1. m - 1 \in Nat /\ m - 1 \notin Bad
    BY <1>1, <1>2, <1>4
  <2>2. PICK f : StepsThrough(g, e, m - 1, f)
    BY <2>1
  <2> DEFINE next(i, x) == Reinsert(x, e[i].key, e[i].val)
             h == [i \in 0..m |-> IF i = m THEN next(m, f[m - 1]) ELSE f[i]]
  <2>3. \A i \in 0..(m - 1) : f[i] = IF i = 0 THEN g ELSE next(i, f[i - 1])
    BY <2>2 DEF StepsThrough
  <2> HIDE DEF next
  <2>4. ASSUME NEW i \in 0..m PROVE h[i] = IF i = 0 THEN g ELSE next(i, h[i - 1])
    <3>1. CASE i = m
      <4>1. m - 1 \in 0..m /\ m - 1 # m
        BY <1>2, <1>4
      <4> QED BY <1>4, <3>1, <4>1
    <3>2. CASE i # m
      <4>1. i \in 0..(m - 1) /\ (i # 0 => i - 1 \in 0..m /\ i - 1 # m)
        BY <1>2, <3>2
      <4> QED BY <2>3, <3>2, <4>1
    <3> QED BY <3>1, <3>2
  <2>5. h = [i \in 0..m |-> h[i]]
    OBVIOUS
  <2> HIDE DEF h
  <2>6. h = [i \in 0..m |-> IF i = 0 THEN g ELSE next(i, h[i - 1])]
    BY <2>4, <2>5
  <2>7. StepsThrough(g, e, m, h)
    BY <2>6 DEF StepsThrough, next
  <2> QED BY <1>2, <2>7
<1> QED BY <1>3, <1>4

(* What may be inserted into g, and what has been after i entries. *)
Fits(g, S, e) ==
    /\ Room(g, S) /\ Len(e) \in Nat
    /\ \A i \in 1..Len(e) : e[i].val # Nil =>
          /\ e[i].val \in Vals /\ e[i].key \in Keys
          /\ e[i].key \in S \/ InArray(g, e[i].key)

Inserted(g, S, e, n, f) ==
    /\ Room(f, S)
    /\ DOMAIN f.array = DOMAIN g.array /\ DOMAIN f.node = DOMAIN g.node
    /\ \A k \in Keys :
          \/ \E i \in 1..n : e[i].key = k /\ e[i].val # Nil /\ Get(f, k) = e[i].val
          \/ (\A i \in 1..n : e[i].key = k => e[i].val = Nil) /\ Get(f, k) = Get(g, k)

(* One more entry is inserted. *)
LEMMA InsertStep ==
    ASSUME NEW g, NEW S, NEW e, Fits(g, S, e), NEW n \in Nat, n < Len(e),
           NEW f, Inserted(g, S, e, n, f)
    PROVE  Inserted(g, S, e, n + 1, Reinsert(f, e[n + 1].key, e[n + 1].val))
<1> DEFINE k == e[n + 1].key
           v == e[n + 1].val
           r == Reinsert(f, k, v)
<1>1. n + 1 \in 1..Len(e) /\ 1..(n + 1) = 1..n \cup {n + 1}
  BY DEF Fits
<1>2. CASE v = Nil
  <2>1. r = f
    BY <1>2 DEF Reinsert
  <2>2. ASSUME NEW j \in Keys
        PROVE  \/ \E i \in 1..(n + 1) : e[i].key = j /\ e[i].val # Nil /\ Get(f, j) = e[i].val
               \/ (\A i \in 1..(n + 1) : e[i].key = j => e[i].val = Nil) /\ Get(f, j) = Get(g, j)
    BY <1>1, <1>2 DEF Inserted
  <2> QED BY <2>1, <2>2 DEF Inserted
<1>3. CASE v # Nil
  <2>1. r = Put(f, k, v)
    BY <1>3 DEF Reinsert
  <2>2. v \in Vals /\ k \in Keys /\ (k \in S \/ InArray(f, k))
    BY <1>1, <1>3 DEF Fits, Inserted, InArray
  <2> HIDE DEF k, v, r
  <2>3. /\ Room(r, S)
        /\ DOMAIN r.array = DOMAIN f.array /\ DOMAIN r.node = DOMAIN f.node
        /\ \A j \in Keys : Get(r, j) = IF j = k THEN v ELSE Get(f, j)
    BY <2>1, <2>2, RoomToPut DEF Inserted
  <2>4. ASSUME NEW j \in Keys
        PROVE  \/ \E i \in 1..(n + 1) : e[i].key = j /\ e[i].val # Nil /\ Get(r, j) = e[i].val
               \/ (\A i \in 1..(n + 1) : e[i].key = j => e[i].val = Nil) /\ Get(r, j) = Get(g, j)
    <3>1. CASE j = k
      <4>1. e[n + 1].key = j /\ e[n + 1].val # Nil /\ Get(r, j) = e[n + 1].val
        BY <1>3, <2>3, <3>1 DEF k, v
      <4> QED BY <1>1, <4>1
    <3>2. CASE j # k
      <4>1. Get(r, j) = Get(f, j) /\ e[n + 1].key # j
        BY <2>3, <3>2 DEF k
      <4> QED BY <1>1, <4>1 DEF Inserted
    <3> QED BY <3>1, <3>2
  <2> QED BY <2>3, <2>4 DEF Inserted, r, k, v
<1> QED BY <1>2, <1>3

(* All entries are, with none left out and none refused. *)
LEMMA InsertAllInserts ==
    ASSUME NEW g, NEW S, NEW e, Fits(g, S, e)
    PROVE  Inserted(g, S, e, Len(e), InsertAll(g, e))
<1> DEFINE N == Len(e)
           P(f) == f = [i \in 0..N |->
                      IF i = 0 THEN g ELSE Reinsert(f[i - 1], e[i].key, e[i].val)]
           done == CHOOSE f : P(f)
<1>1. N \in Nat
  BY DEF Fits
<1>2. InsertAll(g, e) = done[N]
  BY DEF InsertAll
<1>3. P(done)
  <2>1. PICK f : StepsThrough(g, e, N, f)
    BY <1>1, StepsExist
  <2>2. P(f)
    BY <2>1 DEF StepsThrough
  <2> HIDE DEF P
  <2> QED BY <2>2
<1> HIDE DEF done, N
<1>4. done[0] = g /\ \A i \in 1..N : done[i] = Reinsert(done[i - 1], e[i].key, e[i].val)
  BY <1>1, <1>3
<1> HIDE DEF P
<1> DEFINE Bad == {i \in 0..N : ~Inserted(g, S, e, i, done[i])}
<1>5. Bad = {}
  <2> SUFFICES ASSUME Bad # {} PROVE FALSE
    OBVIOUS
  <2>1. Bad \in SUBSET Nat
    BY <1>1
  <2>2. PICK m \in Bad : \A l \in Bad : m <= l
    BY <2>1, LeastOf
  <2>3. m \in 0..N /\ m \in Nat /\ ~Inserted(g, S, e, m, done[m])
    BY <2>1
  <2>4. CASE m = 0
    <3>1. Inserted(g, S, e, 0, g)
      BY DEF Inserted, Fits
    <3> QED BY <1>4, <2>3, <2>4, <3>1
  <2>5. CASE m # 0
    <3> DEFINE n == m - 1
    <3>1. n \in Nat /\ n < N /\ m \in 1..N /\ n + 1 = m /\ n \in 0..N /\ ~(m <= n)
      BY <1>1, <2>3, <2>5
    <3>2. Inserted(g, S, e, n, done[n])
      BY <2>2, <3>1
    <3>3. done[m] = Reinsert(done[n], e[n + 1].key, e[n + 1].val)
      BY <1>4, <3>1
    <3> HIDE DEF n
    <3>4. Inserted(g, S, e, n + 1, done[m])
      BY <3>1, <3>2, <3>3, InsertStep DEF N
    <3> QED BY <2>3, <3>1, <3>4
  <2> QED BY <2>4, <2>5
<1>6. N \in 0..N
  BY <1>1
<1> QED BY <1>2, <1>5, <1>6 DEF N

-----------------------------------------------------------------------------
(* Resizing: every key keeps its value, if the new nodes are enough for    *)
(* what does not go into the new array part.                               *)

Present(h) == {k \in Keys : Get(h, k) # Nil}

(* The array part and the nodes, as lists of entries. *)
ArrayEntries(h) == [i \in 1..Len(h.array) |-> [key |-> i, val |-> h.array[i]]]
NodeEntries(h) == [i \in 1..Size(h) |-> h.node[Size(h) - i]]
NewArray(h, na) == [i \in 1..na |-> IF i <= Len(h.array) THEN h.array[i] ELSE Nil]

(* The new array part has the old values as far as it reaches. *)
LEMMA NewArrayIsPart ==
    ASSUME NEW h, WellFormed(h), NEW na \in Nat
    PROVE  /\ IsArrayPart(NewArray(h, na)) /\ DOMAIN NewArray(h, na) = 1..na
           /\ \A k \in 1..na : NewArray(h, na)[k] = IF InArray(h, k) THEN h.array[k] ELSE Nil
<1>1. /\ h.array \in Seq(Vals \cup {Nil}) /\ Len(h.array) \in Nat
      /\ DOMAIN h.array = 1..Len(h.array)
      /\ \A i \in 1..Len(h.array) : h.array[i] \in Vals \cup {Nil}
  BY TableShape, LenProperties, ElementOfSeq DEF WellFormed
<1>2. \A k \in 1..na : NewArray(h, na)[k] = IF InArray(h, k) THEN h.array[k] ELSE Nil
  BY <1>1 DEF NewArray, InArray
<1>3. DOMAIN NewArray(h, na) = 1..na
  BY DEF NewArray
<1>4. NewArray(h, na) \in [1..na -> Vals \cup {Nil}]
  BY <1>1 DEF NewArray
<1>5. NewArray(h, na) \in Seq(Vals \cup {Nil})
  BY <1>4
<1>6. \A k \in 1..na : NewArray(h, na)[k] # Nil => k \in Ints
  BY <1>2 DEF WellFormed, PartsOK, InArray
<1> QED BY <1>2, <1>3, <1>5, <1>6 DEF IsArrayPart

(* The array part, inserted into new nodes. *)
LEMMA ArrayInserted ==
    ASSUME NEW h, WellFormed(h), NEW na \in Nat, NEW g, NEW T, Room(g, T),
           g.array = NewArray(h, na), Present(h) \ 1..na \subseteq T,
           \A k \in Keys : Get(g, k) = IF k \in 1..na THEN NewArray(h, na)[k] ELSE Nil
    PROVE  LET f == UpFrom(h, g) IN
           /\ Room(f, T) /\ DOMAIN f.array = 1..na /\ DOMAIN f.node = DOMAIN g.node
           /\ \A k \in Keys : Get(f, k) = IF InArray(h, k) THEN Get(h, k) ELSE Nil
<1> DEFINE e == ArrayEntries(h)
           f == InsertAll(g, e)
           N == Len(h.array)
<1>1. /\ N \in Nat /\ DOMAIN h.array = 1..N
      /\ \A i \in 1..N : h.array[i] \in Vals \cup {Nil}
  BY TableShape, LenProperties, ElementOfSeq DEF WellFormed
<1>2. UpFrom(h, g) = f
  BY DEF UpFrom, ArrayEntries
<1>3. Len(e) = N /\ \A i \in 1..N : e[i].key = i /\ e[i].val = h.array[i]
  BY <1>1 DEF ArrayEntries
<1>4. \A i \in 1..N : h.array[i] # Nil => i \in Keys /\ Get(h, i) = h.array[i]
  BY <1>1, GetShape DEF WellFormed, PartsOK, InArray, Keys
<1>5. DOMAIN g.array = 1..na
  BY NewArrayIsPart
<1>6. Fits(g, T, e)
  <2>1. ASSUME NEW i \in 1..N, h.array[i] # Nil PROVE i \in T \/ InArray(g, i)
    BY <1>4, <1>5, <2>1 DEF Present, InArray
  <2> HIDE DEF e, N
  <2> QED BY <1>1, <1>3, <1>4, <2>1 DEF Fits
<1> HIDE DEF e
<1>7. Inserted(g, T, e, N, f)
  BY <1>3, <1>6, InsertAllInserts
<1> HIDE DEF f
<1>8. ASSUME NEW k \in Keys PROVE Get(f, k) = IF InArray(h, k) THEN Get(h, k) ELSE Nil
  <2>1. CASE \E i \in 1..N : e[i].key = k /\ e[i].val # Nil /\ Get(f, k) = e[i].val
    BY <1>1, <1>3, <1>4, <2>1 DEF InArray
  <2>2. CASE /\ \A i \in 1..N : e[i].key = k => e[i].val = Nil
             /\ Get(f, k) = Get(g, k)
    <3>1. InArray(h, k) => h.array[k] = Nil
      BY <1>1, <1>3, <2>2 DEF InArray
    <3>2. InArray(h, k) => Get(h, k) = Nil
      BY <3>1 DEF Get
    <3>3. Get(g, k) = Nil
      BY <3>1, NewArrayIsPart
    <3> QED BY <2>2, <3>2, <3>3
  <2> QED BY <1>7, <2>1, <2>2 DEF Inserted
<1> QED BY <1>2, <1>5, <1>7, <1>8 DEF Inserted

(* And then the old nodes. *)
LEMMA NodesInserted ==
    ASSUME NEW h, WellFormed(h), NEW na \in Nat, NEW g, NEW T, Room(g, T),
           DOMAIN g.array = 1..na, Present(h) \ 1..na \subseteq T,
           \A k \in Keys : Get(g, k) = IF InArray(h, k) THEN Get(h, k) ELSE Nil
    PROVE  LET f == DownNodes(h, g) IN
           /\ Room(f, T) /\ DOMAIN f.array = 1..na /\ DOMAIN f.node = DOMAIN g.node
           /\ \A k \in Keys : Get(f, k) = Get(h, k)
<1> DEFINE e == NodeEntries(h)
           f == InsertAll(g, e)
           N == Size(h)
<1>1. N \in Nat /\ DOMAIN h.node = 0..(N - 1) /\ IsTable(h)
  BY TableShape, SizesBounded DEF WellFormed
<1>2. DownNodes(h, g) = f
  BY DEF DownNodes, NodeEntries
<1> HIDE DEF N
<1>3. Len(e) = N /\ \A i \in 1..N : e[i] = h.node[N - i]
  BY <1>1 DEF NodeEntries, N
<1>4. ASSUME NEW j \in DOMAIN h.node, h.node[j].val # Nil
      PROVE  /\ h.node[j].val \in Vals /\ h.node[j].key \in Keys
             /\ Get(h, h.node[j].key) = h.node[j].val
  BY <1>4, NodeValue
<1>5. \A i \in 1..N : N - i \in DOMAIN h.node
  BY <1>1
<1>6. \A j \in DOMAIN h.node : N - j \in 1..N /\ N - (N - j) = j
  BY <1>1
<1>7. Fits(g, T, e)
  <2>1. ASSUME NEW i \in 1..N, e[i].val # Nil
        PROVE  /\ e[i].val \in Vals /\ e[i].key \in Keys
               /\ e[i].key \in T \/ InArray(g, e[i].key)
    <3> DEFINE j == N - i
    <3>1. j \in DOMAIN h.node /\ e[i] = h.node[j]
      BY <1>3, <1>5
    <3> HIDE DEF j, e
    <3>2. /\ e[i].val \in Vals /\ e[i].key \in Keys /\ Get(h, e[i].key) # Nil
      BY <1>4, <2>1, <3>1
    <3> QED BY <3>2 DEF Present, InArray
  <2> HIDE DEF e
  <2> QED BY <1>1, <1>3, <2>1 DEF Fits
<1> HIDE DEF e
<1>8. Inserted(g, T, e, N, f)
  BY <1>3, <1>7, InsertAllInserts
<1> HIDE DEF f
<1>9. ASSUME NEW k \in Keys PROVE Get(f, k) = Get(h, k)
  <2>1. CASE \E i \in 1..N : e[i].key = k /\ e[i].val # Nil /\ Get(f, k) = e[i].val
    BY <1>3, <1>4, <1>5, <2>1
  <2>2. CASE /\ \A i \in 1..N : e[i].key = k => e[i].val = Nil
             /\ Get(f, k) = Get(g, k)
    <3>1. CASE InArray(h, k)
      BY <2>2, <3>1
    <3>2. CASE ~InArray(h, k)
      <4>1. ASSUME NEW j \in DOMAIN h.node, h.node[j].key = k PROVE h.node[j].val = Nil
        BY <1>3, <1>6, <2>2, <4>1
      <4>2. \A v \in Vals : ~Entry(h, k, v)
        BY <4>1, KeyAssumption DEF Entry
      <4>3. Get(h, k) = Nil
        BY <3>2, <4>2, GetIsEntry
      <4> QED BY <2>2, <3>2, <4>3
    <3> QED BY <3>1, <3>2
  <2> QED BY <1>8, <2>1, <2>2 DEF Inserted
<1> QED BY <1>2, <1>8, <1>9 DEF Inserted

(* luaH_resize, into enough nodes, answers as before and leaves room for the *)
(* keys of T.                                                                *)
LEMMA ResizeKeeps ==
    ASSUME NEW h, WellFormed(h), NEW na \in Nat, NEW nh \in Nat, nh <= MaxASize,
           NEW T \in SUBSET Keys, Present(h) \ 1..na \subseteq T, Cardinality(T) <= nh
    PROVE  LET r == Resize(h, na, nh) IN
           /\ Room(r, T) /\ DOMAIN r.array = 1..na /\ nh <= Size(r)
           /\ \A k \in Keys : Get(r, k) = Get(h, k)
<1> DEFINE array == NewArray(h, na)
           h0 == [h EXCEPT !.array = array]
           g0 == Nodes(h0, nh)
           g1 == UpFrom(h, g0)
           g2 == DownNodes(h, g1)
<1>1. Resize(h, na, nh) = g2
  BY DEF Resize, NewArray
<1>2. IsFiniteSet(T) /\ Cardinality(T) \in Nat
  BY SizeAssumption, FS_Subset, FS_CardinalityType
<1>3. IsArrayPart(array) /\ DOMAIN array = 1..na
  BY NewArrayIsPart
<1>4. /\ h0.array = array
      /\ h0 = [array |-> array, node |-> h0.node, lastfree |-> h0.lastfree, dummy |-> h0.dummy]
  <2>1. h \in TablesOf(Size(h))
    BY TableShape DEF WellFormed
  <2> HIDE DEF array
  <2> QED BY <2>1 DEF TablesOf
<1> HIDE DEF array, h0
<1>5. /\ WellFormed(g0) /\ Filled(g0) /\ NodeKeys(g0) = {}
      /\ g0.array = array /\ nh <= Size(g0) /\ (g0.dummy <=> nh = 0)
      /\ \A k \in Keys : Get(g0, k) = IF k \in DOMAIN array THEN array[k] ELSE Nil
  BY <1>3, <1>4, NodesAreFree
<1> HIDE DEF g0
<1>6. Size(g0) \in Nat
  BY <1>5, TableShape, SizesBounded DEF WellFormed
<1>7. Room(g0, T)
  <2>1. Cardinality(T) <= Size(g0)
    BY <1>2, <1>5, <1>6
  <2>2. g0.dummy => T = {}
    BY <1>2, <1>5, FS_EmptySet
  <2> QED BY <1>2, <1>5, <2>1, <2>2 DEF Room
<1>8. /\ Room(g1, T) /\ DOMAIN g1.array = 1..na /\ DOMAIN g1.node = DOMAIN g0.node
      /\ \A k \in Keys : Get(g1, k) = IF InArray(h, k) THEN Get(h, k) ELSE Nil
  <2>1. g0.array = NewArray(h, na)
    BY <1>5 DEF array
  <2>2. \A k \in Keys : Get(g0, k) = IF k \in 1..na THEN NewArray(h, na)[k] ELSE Nil
    BY <1>3, <1>5 DEF array
  <2> QED BY <1>7, <2>1, <2>2, ArrayInserted
<1> HIDE DEF g1
<1>9. /\ Room(g2, T) /\ DOMAIN g2.array = 1..na /\ DOMAIN g2.node = DOMAIN g1.node
      /\ \A k \in Keys : Get(g2, k) = Get(h, k)
  BY <1>8, NodesInserted
<1>10. nh <= Size(g2)
  BY <1>5, <1>8, <1>9 DEF Size
<1> QED BY <1>1, <1>9, <1>10

-----------------------------------------------------------------------------
(* Rehashing makes room for the keys with a value and the one to come.     *)

(* The keys with a value are those of the array part and of the nodes that *)
(* rehash counts.                                                          *)
LEMMA PresentIs ==
    ASSUME NEW h, WellFormed(h)
    PROVE  Present(h) = {k \in DOMAIN h.array : h.array[k] # Nil}
                        \cup {h.node[i].key : i \in {j \in DOMAIN h.node : h.node[j].val # Nil}}
<1> DEFINE inArray == {k \in DOMAIN h.array : h.array[k] # Nil}
           inHash == {h.node[i].key : i \in {j \in DOMAIN h.node : h.node[j].val # Nil}}
<1>1. ASSUME NEW k \in inArray PROVE k \in Present(h)
  <2>1. k \in Keys /\ InArray(h, k) /\ h.array[k] # Nil
    BY DEF WellFormed, PartsOK, InArray, Keys
  <2> QED BY <2>1, GetShape DEF Present
<1>2. ASSUME NEW k \in inHash PROVE k \in Present(h)
  <2>1. PICK i \in DOMAIN h.node : h.node[i].val # Nil /\ h.node[i].key = k
    OBVIOUS
  <2> QED BY <2>1, NodeValue DEF Present
<1>3. ASSUME NEW k \in Present(h) PROVE k \in inArray \cup inHash
  <2>1. k \in Keys /\ Get(h, k) # Nil
    BY DEF Present
  <2>2. CASE InArray(h, k)
    BY <2>1, <2>2, GetShape DEF InArray
  <2>3. CASE ~InArray(h, k)
    <3>1. PICK v \in Vals : Entry(h, k, v)
      BY <2>1, <2>3, GetIsEntry
    <3>2. PICK i \in DOMAIN h.node : h.node[i].key = k /\ h.node[i].val # Nil
      BY <3>1, KeyAssumption DEF Entry
    <3> QED BY <3>2
  <2> QED BY <2>2, <2>3
<1> QED BY <1>1, <1>2, <1>3

(* computesizes gives a size that is allowed. *)
LEMMA ArraySizeBounded ==
    ASSUME NEW K
    PROVE  ArraySize(K) \in Nat /\ ArraySize(K) <= MaxASize
<1> DEFINE S == {0} \cup {n \in PowersOfTwo :
                  n \div 2 < Cardinality(K) /\ Cardinality({k \in K : k <= n}) > n \div 2}
<1>1. MaxASize \in Nat /\ PowersOfTwo \subseteq 0..MaxASize
  <2>1. \A n \in 1..MaxASize : n \in 0..MaxASize
    OBVIOUS
  <2> QED BY <2>1, SizesBounded
<1>2. S \in SUBSET (0..MaxASize) /\ S # {}
  <2>1. 0 \in 0..MaxASize
    BY <1>1
  <2>2. S \subseteq {0} \cup PowersOfTwo
    OBVIOUS
  <2> QED BY <1>1, <2>1, <2>2, Zenon
<1>3. ArraySize(K) = MaxOf(S)
  BY DEF ArraySize
<1> HIDE DEF S
<1>4. MaxOf(S) \in 0..MaxASize
  BY <1>1, <1>2, LargestOf
<1> QED BY <1>1, <1>3, <1>4

(* rehash changes no answer of get, and there is room for the new key. *)
LEMMA RehashKeeps ==
    ASSUME NEW h, WellFormed(h), NEW k \in Keys
    PROVE  LET r == Rehash(h, k) IN
           /\ WellFormed(r) /\ r # Full
           /\ Known(r, k) \/ Place(r, k) # Full
           /\ \A j \in Keys : Get(r, j) = Get(h, j)
<1> DEFINE all == Present(h) \cup {k}
           K == {j \in all \cap Ints : j <= MaxASize}
           na == ArraySize(K)
           nh == Cardinality(all) - Cardinality({j \in K : j <= na})
           T == all \ 1..na
           r == Resize(h, na, nh)
<1>1. Rehash(h, k) = r
  BY PresentIs DEF Rehash
<1>2. na \in Nat /\ na <= MaxASize /\ MaxASize \in Nat
  BY ArraySizeBounded, SizesBounded
<1> HIDE DEF na
<1>3. {j \in K : j <= na} = all \cap 1..na
  <2>1. ASSUME NEW j \in all, j \in 1..na PROVE j \in Ints /\ j <= MaxASize /\ j <= na
    <3>1. j \in Keys /\ j \in Int
      BY <1>2, <2>1 DEF Present
    <3>2. j \in Ints
      BY <3>1, KeyAssumption DEF Keys
    <3> QED BY <1>2, <2>1, <3>2
  <2>2. ASSUME NEW j \in Ints, j <= na PROVE j \in 1..na
    BY <1>2, <2>2, KeyAssumption
  <2> QED BY <2>1, <2>2
<1>4. all \in SUBSET Keys
  BY DEF Present
<1> HIDE DEF all, K
<1>5. IsFiniteSet(all) /\ Cardinality(all) <= MaxASize /\ Cardinality(all) \in Nat
  <2>1. IsFiniteSet(all) /\ Cardinality(all) <= Cardinality(Keys)
    BY <1>4, SizeAssumption, FS_Subset
  <2>2. Cardinality(Keys) \in Nat /\ Cardinality(Keys) <= MaxASize /\ Cardinality(all) \in Nat
    BY <2>1, SizeAssumption, FS_CardinalityType
  <2> QED BY <1>2, <2>1, <2>2
<1>6. IsFiniteSet(T) /\ Cardinality(T) = nh
  BY <1>3, <1>5, FS_Difference
<1>7. nh \in Nat /\ nh <= MaxASize
  <2>1. Cardinality(T) \in Nat /\ Cardinality(T) <= Cardinality(all)
    BY <1>5, <1>6, FS_Subset, FS_CardinalityType
  <2> HIDE DEF T, nh
  <2> QED BY <1>2, <1>5, <1>6, <2>1
<1>8. T \in SUBSET Keys /\ Present(h) \ 1..na \subseteq T
  BY <1>4 DEF all
<1>9. k \in T \/ k \in 1..na
  BY DEF all
<1> HIDE DEF T, nh, r
<1>10. /\ Room(r, T) /\ DOMAIN r.array = 1..na
       /\ \A j \in Keys : Get(r, j) = Get(h, j)
  <2>1. Cardinality(T) <= nh
    BY <1>6, <1>7
  <2> QED BY <1>2, <1>7, <1>8, <2>1, ResizeKeeps DEF r
<1>11. Known(r, k) \/ Place(r, k) # Full
  BY <1>9, <1>10, RoomForKey DEF Known, InArray
<1>12. WellFormed(r) /\ r # Full
  BY <1>10, TableShape DEF Room, WellFormed
<1> QED BY <1>1, <1>10, <1>11, <1>12

(* So that luaH_set sets. *)
LEMMA SetSets ==
    ASSUME NEW h, WellFormed(h), NEW k \in Keys, NEW v \in Vals \cup {Nil}
    PROVE  LET g == Set(h, k, v) IN
           /\ WellFormed(g)
           /\ \A j \in Keys : Get(g, j) = IF j = k THEN v ELSE Get(h, j)
           /\ Known(h, k) => SameShape(h, g)
<1> DEFINE r == Rehash(h, k)
<1>1. CASE Put(h, k, v) # Full
  BY <1>1, PutSets DEF Set
<1>2. CASE Put(h, k, v) = Full
  <2>1. /\ WellFormed(r) /\ (Known(r, k) \/ Place(r, k) # Full)
        /\ \A j \in Keys : Get(r, j) = Get(h, j)
    BY RehashKeeps
  <2>2. Set(h, k, v) = Put(r, k, v)
    BY <1>2 DEF Set
  <2>3. ~Known(h, k)
    BY <1>2, PutHasPlace
  <2> HIDE DEF r
  <2>4. Put(r, k, v) # Full
    BY <2>1, PutHasPlace
  <2> QED BY <2>1, <2>2, <2>3, <2>4, PutSets
<1> QED BY <1>1, <1>2

-----------------------------------------------------------------------------
(* A larger array part takes in the array part there was, so that as many  *)
(* nodes as before are enough.                                             *)
LEMMA GrownArrayKeeps ==
    ASSUME NEW h, WellFormed(h), NEW n \in Nat, n > Len(h.array)
    PROVE  LET r == Resize(h, n, IF h.dummy THEN 0 ELSE Size(h)) IN
           WellFormed(r) /\ \A k \in Keys : Get(r, k) = Get(h, k)
<1> DEFINE T == Present(h) \ 1..n
           D == DOMAIN h.node
           nh == IF h.dummy THEN 0 ELSE Size(h)
           r == Resize(h, n, nh)
<1>1. /\ Size(h) \in Nat /\ Size(h) <= MaxASize /\ MaxASize \in Nat
      /\ D = 0..(Size(h) - 1) /\ Len(h.array) \in Nat /\ DOMAIN h.array = 1..Len(h.array)
  BY TableShape, SizesBounded, LenProperties DEF WellFormed
<1>2. nh \in Nat /\ nh <= MaxASize
  BY <1>1
<1>3. ASSUME NEW k \in T PROVE \E i \in D : h.node[i].key = k /\ h.node[i].val # Nil
  <2>1. ~InArray(h, k)
    BY <1>1 DEF InArray
  <2>2. k \in Keys /\ Get(h, k) # Nil
    BY DEF Present
  <2>3. PICK v \in Vals : Entry(h, k, v)
    BY <2>1, <2>2, GetIsEntry
  <2> QED BY <2>3, KeyAssumption DEF Entry
<1>4. T \in SUBSET Keys /\ IsFiniteSet(T) /\ Cardinality(T) \in Nat
  <2>1. T \in SUBSET Keys
    BY DEF Present
  <2> HIDE DEF T
  <2> QED BY <2>1, SizeAssumption, FS_Subset, FS_CardinalityType
<1>5. Cardinality(T) <= nh
  <2>1. CASE h.dummy
    <3>1. D = {0} /\ h.node[0] = FreeNode
      BY <2>1 DEF WellFormed, LastFreeOK
    <3>2. T = {}
      BY <1>3, <3>1, FreeNodeShape
    <3> HIDE DEF T, nh
    <3>3. Cardinality(T) = 0
      BY <3>2, FS_EmptySet
    <3> QED BY <1>2, <3>3
  <2>2. CASE ~h.dummy
    <3> SUFFICES ASSUME ~(Cardinality(T) <= Size(h)) PROVE FALSE
      BY <2>2
    <3> DEFINE f == [k \in T |-> CHOOSE i \in D : h.node[i].key = k /\ h.node[i].val # Nil]
    <3>1. IsFiniteSet(D) /\ Cardinality(D) = Size(h)
      BY <1>1, FS_Interval DEF Size
    <3>2. \A k \in T : f[k] \in D /\ h.node[f[k]].key = k
      BY <1>3
    <3>3. f \in [T -> D]
      BY <3>2
    <3> HIDE DEF f, T
    <3>4. Cardinality(D) < Cardinality(T)
      BY <1>1, <1>4, <3>1
    <3>5. PICK k \in T, l \in T : k # l /\ f[k] = f[l]
      BY <1>4, <3>1, <3>3, <3>4, FS_PigeonHole
    <3> QED BY <3>2, <3>5
  <2> QED BY <2>1, <2>2
<1>6. Present(h) \ 1..n \subseteq T
  OBVIOUS
<1> HIDE DEF T, nh, r
<1>7. Room(r, T) /\ \A k \in Keys : Get(r, k) = Get(h, k)
  BY <1>2, <1>4, <1>5, <1>6, ResizeKeeps DEF r
<1> QED BY <1>7 DEF Room, r, nh

-----------------------------------------------------------------------------
(* Traversal. *)

(* findindex and the loop of luaH_next are inverse to one another. *)
LEMMA IndexType ==
    ASSUME NEW h, WellFormed(h), NEW k \in Keys \cup {Nil}
    PROVE  FindIndex(h, k) \in Int /\ (k = Nil => FindIndex(h, k) = -1)
<1>1. Len(h.array) \in Nat /\ DOMAIN h.array = 1..Len(h.array)
  BY TableShape, LenProperties DEF WellFormed
<1>2. CASE k = Nil
  BY <1>2 DEF FindIndex
<1>3. CASE k # Nil
  <2>1. TRUE \in BOOLEAN /\ k \in Keys /\ IsTable(h) /\ LinksOK(h)
    BY <1>3 DEF WellFormed
  <2>2. NodeOf(h, k, TRUE) \in DOMAIN h.node \/ NodeOf(h, k, TRUE) = None
    BY <2>1, FoundHolds
  <2> DEFINE j == NodeOf(h, k, TRUE)
  <2> HIDE DEF j
  <2>3. j \in DOMAIN h.node => j \in Int
    <3>1. DOMAIN h.node = 0..(Size(h) - 1)
      BY <2>1, TableShape
    <3> QED BY <3>1
  <2>4. None \in Int
    BY DEF None
  <2>5. j \in Int
    BY <2>2, <2>3, <2>4 DEF j
  <2>6. CASE InArray(h, k)
    <3>1. FindIndex(h, k) = k - 1 /\ k \in Int
      BY <1>1, <1>3, <2>6 DEF FindIndex, InArray
    <3> QED BY <1>3, <3>1
  <2>7. CASE ~InArray(h, k)
    <3>1. FindIndex(h, k) = Len(h.array) + j
      BY <1>3, <2>7 DEF FindIndex, j
    <3> QED BY <1>1, <1>3, <2>5, <3>1
  <2> QED BY <2>6, <2>7
<1> QED BY <1>2, <1>3

(* A position with a value has a key that is found at it, *)
LEMMA PositionHasKey ==
    ASSUME NEW h, WellFormed(h), NEW p \in 0..(Len(h.array) + Size(h) - 1), ValueAt(h, p) # Nil
    PROVE  KeyAt(h, p) \in Present(h) /\ FindIndex(h, KeyAt(h, p)) = p
<1> DEFINE L == Len(h.array)
<1>1. /\ L \in Nat /\ DOMAIN h.array = 1..L /\ IsTable(h)
      /\ Size(h) \in Nat /\ DOMAIN h.node = 0..(Size(h) - 1)
  BY TableShape, SizesBounded, LenProperties DEF WellFormed
<1>2. CASE p < L
  <2>1. InArray(h, p + 1) /\ KeyAt(h, p) = p + 1 /\ h.array[p + 1] # Nil
    BY <1>1, <1>2 DEF InArray, KeyAt, ValueAt
  <2>2. p + 1 \in Keys
    BY <2>1 DEF WellFormed, PartsOK, InArray, Keys
  <2>3. p + 1 \in Present(h)
    BY <2>1, <2>2, GetShape DEF Present
  <2>4. FindIndex(h, p + 1) = p
    BY <1>1, <2>1, <2>2, KeyAssumption DEF FindIndex
  <2> QED BY <2>1, <2>3, <2>4
<1>3. CASE ~(p < L)
  <2> DEFINE i == p - L
             k == h.node[i].key
  <2>1. i \in DOMAIN h.node /\ KeyAt(h, p) = k /\ h.node[i].val # Nil /\ L + i = p
    BY <1>1, <1>3 DEF KeyAt, ValueAt
  <2> HIDE DEF i
  <2>2. k \in Keys /\ ~InArray(h, k) /\ k \in Present(h)
    BY <2>1, NodeValue DEF Present
  <2>3. Live(h, i) /\ TRUE \in BOOLEAN
    BY <1>1, <2>1, <2>2, NodeShape, KeyAssumption DEF WellFormed, DeadOK, Live, Holds
  <2>4. NodeOf(h, k, TRUE) = i
    BY <2>1, <2>3, LiveIsFound DEF WellFormed
  <2> HIDE DEF k
  <2>5. FindIndex(h, k) = p
    BY <2>1, <2>2, <2>4, KeyAssumption DEF FindIndex
  <2> QED BY <2>1, <2>2, <2>5
<1> QED BY <1>2, <1>3

(* and a key with a value has a position that gives it. *)
LEMMA KeyHasPosition ==
    ASSUME NEW h, WellFormed(h), NEW k \in Present(h)
    PROVE  LET p == FindIndex(h, k) IN
           /\ p \in 0..(Len(h.array) + Size(h) - 1) /\ KeyAt(h, p) = k /\ ValueAt(h, p) # Nil
           /\ InArray(h, k) \/ NodeOf(h, k, TRUE) # None
<1> DEFINE L == Len(h.array)
<1>1. /\ L \in Nat /\ DOMAIN h.array = 1..L /\ IsTable(h)
      /\ Size(h) \in Nat /\ DOMAIN h.node = 0..(Size(h) - 1)
      /\ k \in Keys /\ k # Nil /\ Get(h, k) # Nil
  BY TableShape, SizesBounded, LenProperties, KeyAssumption DEF WellFormed, Present
<1>2. CASE InArray(h, k)
  <2>1. FindIndex(h, k) = k - 1 /\ k \in 1..L /\ h.array[k] # Nil
    BY <1>1, <1>2 DEF FindIndex, InArray, Get
  <2>2. k - 1 < L /\ k - 1 + 1 = k /\ k - 1 \in 0..(L + Size(h) - 1)
    BY <1>1, <2>1
  <2> QED BY <1>2, <2>1, <2>2 DEF KeyAt, ValueAt
<1>3. CASE ~InArray(h, k)
  <2>1. PICK v \in Vals : Entry(h, k, v)
    BY <1>1, <1>3, GetIsEntry
  <2>2. PICK i \in DOMAIN h.node : h.node[i].key = k /\ h.node[i].val # Nil
    BY <2>1, KeyAssumption DEF Entry
  <2>3. Live(h, i) /\ TRUE \in BOOLEAN
    BY <1>1, <2>2, NodeShape DEF WellFormed, DeadOK, Live, Holds
  <2>4. NodeOf(h, k, TRUE) = i
    BY <2>2, <2>3, LiveIsFound DEF WellFormed
  <2>5. FindIndex(h, k) = L + i
    BY <1>1, <1>3, <2>4 DEF FindIndex
  <2> HIDE DEF L
  <2>6. i # None /\ i \in 0..(Size(h) - 1)
    BY <1>1, <2>2, NodeShape
  <2>7. ~(L + i < L) /\ L + i - L = i /\ L + i \in 0..(L + Size(h) - 1)
    BY <1>1, <2>6
  <2>8. KeyAt(h, L + i) = h.node[i].key /\ ValueAt(h, L + i) = h.node[i].val
    <3> DEFINE q == L + i
    <3>1. ~(q < L) /\ q - L = i
      BY <1>1, <2>6 DEF q
    <3>2. L = Len(h.array)
      BY DEF L
    <3> HIDE DEF q
    <3>3. KeyAt(h, q) = h.node[i].key /\ ValueAt(h, q) = h.node[i].val
      BY <3>1, <3>2 DEF KeyAt, ValueAt
    <3> QED BY <3>3 DEF q
  <2>9. NodeOf(h, k, TRUE) # None
    BY <2>4, <2>6
  <2> QED BY <2>2, <2>5, <2>7, <2>8, <2>9 DEF L
<1> QED BY <1>2, <1>3

(* A traversal at key i that has given the keys of s: none of those up to  *)
(* i is missing, and none of those behind is there.                        *)
Traversed(h, i, s) ==
    /\ i \in Keys \cup {Nil, None} /\ s \subseteq Keys
    /\ i = None => s = {}
    /\ i # None => /\ \A k \in Present(h) : FindIndex(h, k) <= FindIndex(h, i) => k \in s
                   /\ \A k \in s : FindIndex(h, k) <= FindIndex(h, i)
    /\ i \in Keys => InArray(h, i) \/ NodeOf(h, i, TRUE) # None

(* A traversal that is not begun, or has begun, stands at no key. *)
LEMMA NoneIsNoKey == None \notin Keys \cup {Nil} /\ Nil \notin Keys
  BY KeyAssumption DEF None, Keys

(* Before its first key a traversal has given nothing, and nothing is due. *)
LEMMA TraversalBegins ==
    ASSUME NEW h, WellFormed(h)
    PROVE  Traversed(h, None, {}) /\ Traversed(h, Nil, {})
<1>1. \A k \in Present(h) : ~(FindIndex(h, k) <= -1)
  <2>1. ASSUME NEW k \in Present(h) PROVE ~(FindIndex(h, k) <= -1)
    <3>1. FindIndex(h, k) \in 0..(Len(h.array) + Size(h) - 1)
      BY KeyHasPosition
    <3>2. FindIndex(h, k) \in Nat
      BY <3>1
    <3> QED BY <3>2
  <2> QED BY <2>1
<1>2. FindIndex(h, Nil) = -1
  BY IndexType
<1> QED BY <1>1, <1>2, NoneIsNoKey DEF Traversed

(* A step of luaH_next gives a key not given before, or is the end and     *)
(* none is left.                                                           *)
LEMMA TraversalGoesOn ==
    ASSUME NEW h, WellFormed(h), NEW i, NEW s, Traversed(h, i, s), i # None
    PROVE  LET left == Remaining(h, i)
               p == CHOOSE q \in left : \A r \in left : q <= r
               k == KeyAt(h, p)
           IN /\ left = {} => Present(h) \subseteq s
              /\ left # {} => k \in Present(h) \ s /\ Traversed(h, k, s \cup {k})
<1> DEFINE left == Remaining(h, i)
           p == CHOOSE q \in left : \A r \in left : q <= r
           k == KeyAt(h, p)
           P == 0..(Len(h.array) + Size(h) - 1)
<1>1. i \in Keys \cup {Nil} /\ FindIndex(h, i) \in Int
  BY IndexType DEF Traversed
<1>2. left = {q \in P : q > FindIndex(h, i) /\ ValueAt(h, q) # Nil}
  BY DEF Remaining
<1>3. ASSUME NEW j \in Present(h), j \notin s PROVE FindIndex(h, j) \in left
  <2>1. FindIndex(h, j) \in P /\ ValueAt(h, FindIndex(h, j)) # Nil
    BY KeyHasPosition
  <2>2. ~(FindIndex(h, j) <= FindIndex(h, i))
    BY <1>3 DEF Traversed
  <2> QED BY <1>1, <1>2, <2>1, <2>2
<1>4. CASE left = {}
  BY <1>3, <1>4
<1>5. CASE left # {}
  <2>1. left \in SUBSET Nat
    BY <1>2
  <2> HIDE DEF left
  <2>2. p \in left /\ \A r \in left : p <= r
    BY <1>5, <2>1, LeastOf
  <2> HIDE DEF p
  <2>3. p \in P /\ p \in Int /\ p > FindIndex(h, i) /\ ValueAt(h, p) # Nil
    BY <1>2, <2>2
  <2>4. k \in Present(h) /\ FindIndex(h, k) = p
    BY <2>3, PositionHasKey
  <2> HIDE DEF k
  <2>5. k \notin s
    BY <1>1, <2>3, <2>4 DEF Traversed
  <2>6. k \in Keys /\ k # None
    BY <2>4, NoneIsNoKey DEF Present
  <2>7. ASSUME NEW j \in Present(h), FindIndex(h, j) <= p PROVE j \in s \cup {k}
    <3> SUFFICES ASSUME j \notin s PROVE j = k
      OBVIOUS
    <3>1. FindIndex(h, j) \in left
      BY <1>3
    <3>2. p <= FindIndex(h, j) /\ p \in Nat /\ FindIndex(h, j) \in Nat
      BY <2>1, <2>2, <3>1
    <3>3. FindIndex(h, j) = p
      BY <2>7, <3>2
    <3> QED BY <3>3, KeyHasPosition DEF k
  <2>8. ASSUME NEW j \in s \cup {k} PROVE FindIndex(h, j) <= p
    <3>1. CASE j \in s
      <4>1. FindIndex(h, j) <= FindIndex(h, i) /\ FindIndex(h, j) \in Int
        BY <3>1, IndexType DEF Traversed
      <4> QED BY <1>1, <2>3, <4>1
    <3>2. CASE j = k
      BY <2>3, <2>4, <3>2
    <3> QED BY <3>1, <3>2
  <2>9. InArray(h, k) \/ NodeOf(h, k, TRUE) # None
    BY <2>4, KeyHasPosition
  <2>10. Traversed(h, k, s \cup {k})
    BY <2>4, <2>6, <2>7, <2>8, <2>9 DEF Traversed
  <2> QED BY <1>5, <2>4, <2>5, <2>10 DEF left, k, p
<1> QED BY <1>4, <1>5

(* What keeps the shape of the table, and brings no key into it, keeps a   *)
(* traversal in progress.                                                  *)
LEMMA TraversalKept ==
    ASSUME NEW h, WellFormed(h), NEW g, WellFormed(g), SameShape(h, g),
           Present(g) \subseteq Present(h), NEW i, NEW s, Traversed(h, i, s)
    PROVE  Traversed(g, i, s)
<1>1. DOMAIN g.array = DOMAIN h.array /\ Len(g.array) = Len(h.array)
  <2>1. /\ DOMAIN g.array = DOMAIN h.array
        /\ DOMAIN h.array = 1..Len(h.array) /\ Len(h.array) \in Nat
        /\ DOMAIN g.array = 1..Len(g.array) /\ Len(g.array) \in Nat
    BY TableShape, LenProperties DEF WellFormed, SameShape
  <2> QED BY <2>1
<1>2. \A k \in Keys : NodeOf(g, k, TRUE) = NodeOf(h, k, TRUE) /\ (InArray(g, k) <=> InArray(h, k))
  BY <1>1, ShapeKeepsIndex DEF WellFormed, InArray
<1>3. \A k \in Keys \cup {Nil} : FindIndex(g, k) = FindIndex(h, k)
  BY <1>1, <1>2 DEF FindIndex
<1>4. \A k \in s : FindIndex(g, k) = FindIndex(h, k)
  BY <1>3 DEF Traversed
<1>5. i # None => FindIndex(g, i) = FindIndex(h, i)
  BY <1>3 DEF Traversed
<1>6. \A k \in Present(g) : k \in Present(h) /\ FindIndex(g, k) = FindIndex(h, k)
  BY <1>3 DEF Present
<1> QED BY <1>2, <1>4, <1>5, <1>6 DEF Traversed

-----------------------------------------------------------------------------
(* The inductive invariant: the table is well formed, and the traversal in *)
(* progress has its place in it.                                           *)
Inv == WellFormed(t) /\ Traversed(t, it, seen)

(* The keys with a value are those the dictionary has. *)
LEMMA DictionaryPresent == Dict!Present = Present(t)
  BY DEF Dict!Present, Present

(* The first table is empty. *)
LEMMA InitHolds == Init => Inv /\ Dict!Init
<1> SUFFICES ASSUME Init PROVE Inv /\ Dict!Init
  OBVIOUS
<1> DEFINE h == [array |-> <<>>, node |-> <<>>, lastfree |-> 0, dummy |-> TRUE]
<1>1. IsArrayPart(<<>>)
  <2>1. DOMAIN <<>> = {} /\ <<>> \in Seq(Vals \cup {Nil})
    OBVIOUS
  <2> QED BY <2>1 DEF IsArrayPart
<1>2. /\ h.array = <<>>
      /\ h = [array |-> <<>>, node |-> h.node, lastfree |-> h.lastfree, dummy |-> h.dummy]
  OBVIOUS
<1>3. t = Nodes(h, 0) /\ it = None /\ seen = {}
  BY DEF Init
<1> HIDE DEF h
<1>4. 0 \in Nat /\ 0 <= MaxASize
  BY SizesBounded
<1>5. WellFormed(t) /\ \A k \in Keys : Get(t, k) = IF k \in DOMAIN <<>> THEN <<>>[k] ELSE Nil
  BY <1>1, <1>2, <1>3, <1>4, NodesAreFree
<1>6. \A k \in Keys : Get(t, k) = Nil
  BY <1>5
<1>7. Traversed(t, it, seen)
  BY <1>3, <1>5, TraversalBegins
<1>8. Dict!Init
  BY <1>3, <1>6 DEF Dict!Init
<1> QED BY <1>5, <1>7, <1>8 DEF Inv

(* Assignment: as the dictionary does it, and under a traversal only to    *)
(* what is there, which moves no key.                                      *)
LEMMA StoreHolds ==
    ASSUME Inv, NEW k \in Keys, NEW v \in Vals \cup {Nil}, Store(k, v)
    PROVE  /\ Inv' /\ UNCHANGED <<it, seen>>
           /\ Dict!Store(k, v) /\ \A j \in Keys : Get(t', j) = IF j = k THEN v ELSE Get(t, j)
<1> DEFINE h == t
           g == Set(t, k, v)
<1>1. /\ WellFormed(h) /\ Traversed(h, it, seen) /\ it' = it /\ seen' = seen /\ t' = g
      /\ it # None => Get(h, k) # Nil
  BY DEF Store, Inv
<1>2. /\ WellFormed(g)
      /\ \A j \in Keys : Get(g, j) = IF j = k THEN v ELSE Get(h, j)
      /\ Known(h, k) => SameShape(h, g)
  BY <1>1, SetSets
<1> HIDE DEF g
<1>3. Traversed(g, it, seen)
  <2>1. CASE it = None
    BY <1>1, <1>2, <2>1, TraversalBegins DEF Traversed
  <2>2. CASE it # None
    <3>1. Get(h, k) # Nil
      BY <1>1, <2>2
    <3>2. Known(h, k)
      BY <3>1 DEF Known, Get
    <3>3. Present(g) \subseteq Present(h)
      BY <1>2, <3>1 DEF Present
    <3> QED BY <1>1, <1>2, <3>2, <3>3, TraversalKept
  <2> QED BY <2>1, <2>2
<1>4. Dict!Store(k, v)
  <2>1. [j \in Keys |-> Get(g, j)] = [[j \in Keys |-> Get(h, j)] EXCEPT ![k] = v]
    BY <1>2
  <2>2. it # None => k \in Dict!Present
    BY <1>1, DictionaryPresent DEF Present
  <2> QED BY <1>1, <2>1, <2>2 DEF Dict!Store
<1> QED BY <1>1, <1>2, <1>3, <1>4 DEF Inv

(* What reorganises the table keeps every value. *)
LEMMA ResizeArrayHolds ==
    ASSUME Inv, NEW n \in Growth, ResizeArray(n)
    PROVE  Inv' /\ UNCHANGED <<it, seen>> /\ \A k \in Keys : Get(t', k) = Get(t, k)
<1> DEFINE h == t
           g == Resize(t, n, IF t.dummy THEN 0 ELSE Size(t))
<1>1. /\ WellFormed(h) /\ it' = it /\ seen' = seen /\ t' = g
      /\ it = None /\ seen = {} /\ n > Len(h.array)
  BY DEF ResizeArray, Inv, Traversed
<1>2. n \in Nat
  BY SizeAssumption, SizesBounded
<1>3. WellFormed(g) /\ \A k \in Keys : Get(g, k) = Get(h, k)
  BY <1>1, <1>2, GrownArrayKeeps
<1> HIDE DEF g
<1>4. Traversed(g, None, {})
  BY <1>3, TraversalBegins
<1> QED BY <1>1, <1>3, <1>4 DEF Inv

(* A collection keeps the invariant, and the dictionary. *)
LEMMA RemoveEntriesHolds ==
    ASSUME Inv, RemoveEntries
    PROVE  Inv' /\ UNCHANGED <<it, seen>> /\ \A k \in Keys : Get(t', k) = Get(t, k)
<1> DEFINE h == t
           g == [h EXCEPT !.node = [i \in DOMAIN h.node |->
                    [h.node[i] EXCEPT !.dead = @ \/ Dies(h.node[i])]]]
<1>1. /\ WellFormed(h) /\ Traversed(h, it, seen) /\ it' = it /\ seen' = seen /\ t' = g
  BY DEF RemoveEntries, Inv, Dies
<1>2. Buried(h, g)
  BY DEF Buried
<1> HIDE DEF g
<1>3. WellFormed(g) /\ SameShape(h, g) /\ \A j \in Keys : Get(g, j) = Get(h, j)
  BY <1>1, <1>2, DeathKeeps
<1>4. Present(g) \subseteq Present(h)
  BY <1>3 DEF Present
<1>5. Traversed(g, it, seen)
  BY <1>1, <1>3, <1>4, TraversalKept
<1> QED BY <1>1, <1>3, <1>5 DEF Inv

(* pairs begins a walk of the dictionary. *)
LEMMA BeginTraversalHolds ==
    ASSUME Inv, BeginTraversal
    PROVE  Inv' /\ Dict!BeginTraversal /\ t' = t
<1>1. WellFormed(t) /\ it' = Nil /\ seen' = {} /\ t' = t
  BY DEF BeginTraversal, Inv, Traversed
<1>2. Traversed(t, Nil, {})
  BY <1>1, TraversalBegins
<1>3. Nil # None
  BY NoneIsNoKey
<1> QED BY <1>1, <1>2, <1>3 DEF Inv, Dict!BeginTraversal

(* next visits a key of the dictionary that was not visited, or ends the walk *)
(* when none is left.                                                         *)
LEMMA NextKeyHolds ==
    ASSUME Inv, NextKey
    PROVE  Inv' /\ (Dict!EndTraversal \/ \E k \in Keys : Dict!Visit(k)) /\ t' = t
<1> DEFINE left == Remaining(t, it)
           p == CHOOSE q \in left : \A r \in left : q <= r
           k == KeyAt(t, p)
<1>1. WellFormed(t) /\ Traversed(t, it, seen) /\ it # None /\ t' = t
  BY DEF NextKey, Inv
<1>2. /\ left = {} => Present(t) \subseteq seen
      /\ left # {} => k \in Present(t) \ seen /\ Traversed(t, k, seen \cup {k})
  BY <1>1, TraversalGoesOn
<1>3. IF left = {} THEN it' = None /\ seen' = {} ELSE it' = k /\ seen' = seen \cup {k}
  BY DEF NextKey
<1> HIDE DEF left, k
<1>4. CASE left = {}
  <2>1. Traversed(t, None, {})
    BY <1>1, TraversalBegins
  <2>2. Dict!EndTraversal
    BY <1>1, <1>2, <1>3, <1>4, DictionaryPresent DEF Dict!EndTraversal
  <2> QED BY <1>1, <1>3, <1>4, <2>1, <2>2 DEF Inv
<1>5. CASE left # {}
  <2>1. k \in Keys /\ k # None
    BY <1>2, <1>5, NoneIsNoKey DEF Present
  <2>2. Dict!Visit(k)
    BY <1>1, <1>2, <1>3, <1>5, <2>1, DictionaryPresent DEF Dict!Visit
  <2> QED BY <1>1, <1>2, <1>3, <1>5, <2>1, <2>2 DEF Inv
<1> QED BY <1>4, <1>5

(* Every step keeps the invariant, and is one of the dictionary or changes *)
(* nothing there.                                                          *)
LEMMA StepHolds ==
    Inv /\ [Next]_vars => Inv' /\ [Dict!Next]_<<[k \in Keys |-> Get(t, k)], seen, it # None>>
<1> DEFINE d == [k \in Keys |-> Get(t, k)]
<1> SUFFICES ASSUME Inv, [Next]_vars
             PROVE  Inv' /\ [Dict!Next]_<<d, seen, it # None>>
  OBVIOUS
<1>1. CASE UNCHANGED vars
  BY <1>1 DEF vars, Inv
<1>2. ASSUME NEW k \in Keys, NEW v \in Vals \cup {Nil}, Store(k, v)
      PROVE  Inv' /\ Dict!Next
  BY <1>2, StoreHolds DEF Dict!Next
<1>3. ASSUME NEW n \in Growth, ResizeArray(n)
      PROVE  Inv' /\ UNCHANGED <<d, seen, it # None>>
  BY <1>3, ResizeArrayHolds
<1>4. CASE RemoveEntries
  BY <1>4, RemoveEntriesHolds
<1>5. CASE BeginTraversal
  BY <1>5, BeginTraversalHolds DEF Dict!Next
<1>6. CASE NextKey
  BY <1>6, NextKeyHolds DEF Dict!Next
<1> QED BY <1>1, <1>2, <1>3, <1>4, <1>5, <1>6 DEF Next

(* The invariant holds always. *)
LEMMA InvAlways == Spec => []Inv
<1>1. Init => Inv
  BY InitHolds
<1>2. Inv /\ [Next]_vars => Inv'
  BY StepHolds
<1> QED BY <1>1, <1>2, PTL DEF Spec

-----------------------------------------------------------------------------
(* lualib/ltable.c: a table is at any time a table, with nodes that are    *)
(* nodes; and dummynode, the node of all tables without a hash part, is as *)
(* it was linked in.                                                       *)
THEOREM TypeCorrect == Spec => []TypeOK
<1>1. Inv => TypeOK
  BY DEF Inv, WellFormed, IsTable, LastFreeOK, Traversed, TypeOK
<1> QED BY <1>1, InvAlways, PTL

(* The main invariant of the comment at the head of ltable.c: a key out of *)
(* its main position was displaced by a key that is in its own.            *)
THEOREM MainPositionsHold == Spec => []BrentInvariant
<1>1. ASSUME Inv, NEW i \in DOMAIN t.node, t.node[i].val # Nil
      PROVE  MainPosition(t, t.node[MainPosition(t, t.node[i].key)].key)
                = MainPosition(t, t.node[i].key)
  <2>1. Holds(t, i)
    BY <1>1, FreeNodeShape DEF Inv, WellFormed, FreeOK
  <2> QED BY <1>1, <2>1 DEF Inv, WellFormed, BrentOK, Home
<1>2. Inv => BrentInvariant
  BY <1>1 DEF BrentInvariant
<1> QED BY <1>2, InvAlways, PTL

(* luaH_set: the table newkey has to grow has, when rehash is done, a node *)
(* for everything that is inserted again and for the new key, whatever the *)
(* number and the hashes of the keys.                                      *)
THEOREM GrowthIsEnough == Spec => []GrowthSuffices
<1>1. Inv => GrowthSuffices
  BY RehashKeeps DEF Inv, GrowthSuffices
<1> QED BY <1>1, InvAlways, PTL

(* The table is the dictionary the language promises: what is assigned is  *)
(* what is read, whatever was moved, and next gives every field that stays *)
(* once, although fields are cleared and their keys die under it.          *)
THEOREM TableIsDictionary == Spec => IsDictionary
<1>1. Init => Dict!Init
  BY InitHolds
<1>2. Inv /\ [Next]_vars => [Dict!Next]_<<[k \in Keys |-> Get(t, k)], seen, it # None>>
  BY StepHolds
<1> QED BY <1>1, <1>2, InvAlways, PTL DEF Spec, IsDictionary, Dict!Spec

(* luaH_set: the value assigned to a key is the value it has then.         *)
THEOREM StoreStores ==
    Spec => [][\A k \in Keys, v \in Vals \cup {Nil} : Store(k, v) => Get(t', k) = v]_vars
<1>1. Inv /\ [Next]_vars =>
        [\A k \in Keys, v \in Vals \cup {Nil} : Store(k, v) => Get(t', k) = v]_vars
  BY StoreHolds
<1> QED BY <1>1, InvAlways, PTL DEF Spec

(* findindex: the key a traversal gave last is found again, dead or not,   *)
(* so that the error `invalid key to next' is not raised by one that keeps *)
(* to the rules.                                                           *)
THEOREM TraversalKeepsItsKey ==
    Spec => [](it \in Keys => InArray(t, it) \/ NodeOf(t, it, TRUE) # None)
<1>1. Inv => (it \in Keys => InArray(t, it) \/ NodeOf(t, it, TRUE) # None)
  BY DEF Inv, Traversed
<1> QED BY <1>1, InvAlways, PTL

-----------------------------------------------------------------------------
(* Functions that call themselves once, as the last thing they do, with an *)
(* argument of smaller measure mu: until the argument is in Stop.          *)

Tails(D, Stop, val, nxt, f) ==
    f = [x \in D |-> IF x \in Stop THEN val[x] ELSE f[nxt[x]]]

Descends(D, Stop, nxt, mu) ==
    /\ mu \in [D -> Nat]
    /\ \A x \in D : x \notin Stop => nxt[x] \in D /\ mu[nxt[x]] < mu[x]

(* They exist: by the functions that are right up to a measure. *)
LEMMA TailExists ==
    ASSUME NEW D, NEW Stop, NEW val, NEW nxt, NEW mu, Descends(D, Stop, nxt, mu),
           NEW b \in Nat, \A x \in D : mu[x] <= b
    PROVE  \E f : Tails(D, Stop, val, nxt, f)
<1> DEFINE Step(g) == [x \in D |-> IF x \in Stop THEN val[x] ELSE g[nxt[x]]]
           Right(g, n) == \A x \in D : mu[x] <= n =>
                             g[x] = IF x \in Stop THEN val[x] ELSE g[nxt[x]]
           Bad == {n \in Nat : \A g : ~Right(g, n)}
<1>1. Bad = {}
  <2> SUFFICES ASSUME Bad # {} PROVE FALSE
    OBVIOUS
  <2>1. PICK n \in Bad : \A l \in Bad : n <= l
    BY LeastOf
  <2>2. n \in Nat /\ \A g : ~Right(g, n)
    OBVIOUS
  <2>3. ASSUME NEW g, \A x \in D : mu[x] < n => g[x] = IF x \in Stop THEN val[x] ELSE g[nxt[x]]
        PROVE  FALSE
    <3> DEFINE h == Step(g)
    <3>1. \A x \in D : h[x] = IF x \in Stop THEN val[x] ELSE g[nxt[x]]
      OBVIOUS
    <3> HIDE DEF h
    <3>2. ASSUME NEW x \in D, mu[x] <= n PROVE h[x] = IF x \in Stop THEN val[x] ELSE h[nxt[x]]
      <4>1. CASE x \in Stop
        BY <3>1, <4>1
      <4>2. CASE x \notin Stop
        <5> DEFINE y == nxt[x]
        <5>1. y \in D /\ mu[y] < n
          <6>1. y \in D /\ mu[y] < mu[x] /\ mu[x] \in Nat /\ mu[y] \in Nat
            BY <4>2 DEF Descends
          <6> QED BY <2>2, <3>2, <6>1
        <5> HIDE DEF y
        <5>2. h[y] = g[y]
          BY <2>3, <3>1, <5>1
        <5> QED BY <3>1, <4>2, <5>2 DEF y
      <4> QED BY <4>1, <4>2
    <3>3. Right(h, n)
      BY <3>2
    <3> QED BY <2>2, <3>3
  <2>4. CASE n = 0
    <3>1. \A x \in D : ~(mu[x] < n)
      BY <2>4 DEF Descends
    <3> QED BY <2>3, <3>1
  <2>5. CASE n # 0
    <3>1. n - 1 \in Nat /\ n - 1 \notin Bad
      BY <2>1, <2>2, <2>5
    <3>2. PICK g : Right(g, n - 1)
      BY <3>1
    <3>3. \A x \in D : mu[x] < n => mu[x] <= n - 1
      BY <2>2 DEF Descends
    <3> QED BY <2>3, <3>2, <3>3
  <2> QED BY <2>4, <2>5
<1>2. PICK g : Right(g, b)
  BY <1>1
<1> DEFINE f == Step(g)
<1>3. \A x \in D : f[x] = IF x \in Stop THEN val[x] ELSE g[nxt[x]]
  OBVIOUS
<1>4. f = [x \in D |-> f[x]]
  OBVIOUS
<1> HIDE DEF f
<1>5. \A x \in D : f[x] = g[x]
  BY <1>2, <1>3
<1>6. \A x \in D : f[x] = IF x \in Stop THEN val[x] ELSE f[nxt[x]]
  BY <1>3, <1>5 DEF Descends
<1>7. f = [x \in D |-> IF x \in Stop THEN val[x] ELSE f[nxt[x]]]
  BY <1>4, <1>6
<1> QED BY <1>7 DEF Tails

(* What is kept by the arguments, and makes the last value be in R, makes  *)
(* every value be in R.                                                    *)
LeadsInto(P, Stop, val, nxt, R) ==
    \A x \in P : IF x \in Stop THEN val[x] \in R ELSE nxt[x] \in P

(* A tail-recursive function whose measure descends has its values in R. *)
LEMMA TailReaches ==
    ASSUME NEW D, NEW Stop, NEW val, NEW nxt, NEW mu, Descends(D, Stop, nxt, mu),
           NEW f, Tails(D, Stop, val, nxt, f), NEW P \in SUBSET D, NEW R,
           LeadsInto(P, Stop, val, nxt, R)
    PROVE  \A x \in P : f[x] \in R
<1> USE DEF LeadsInto
<1> DEFINE Bad == {x \in P : f[x] \notin R}
           M == {mu[x] : x \in Bad}
<1> SUFFICES ASSUME Bad # {} PROVE FALSE
  OBVIOUS
<1>1. M \in SUBSET Nat /\ M # {}
  BY DEF Descends
<1>2. PICK n \in M : \A l \in M : n <= l
  BY <1>1, LeastOf
<1>3. PICK x \in Bad : n = mu[x]
  OBVIOUS
<1>4. x \in P /\ x \in D /\ f[x] \notin R /\ f[x] = IF x \in Stop THEN val[x] ELSE f[nxt[x]]
  BY DEF Tails
<1>5. x \notin Stop
  BY <1>4
<1>6. nxt[x] \in P /\ f[nxt[x]] \notin R
  BY <1>4, <1>5
<1>7. mu[nxt[x]] \in M
  BY <1>6
<1>8. mu[nxt[x]] < mu[x] /\ mu[x] \in Nat /\ mu[nxt[x]] \in Nat
  BY <1>4, <1>5 DEF Descends
<1> QED BY <1>2, <1>3, <1>7, <1>8

-----------------------------------------------------------------------------
(* The length. *)

(* n is there, or 0, and the one behind it is not. *)
Border(there, n) == (n = 0 \/ n \in there) /\ n + 1 \notin there

(* The binary search ends at a border. *)
LEMMA SearchFindsBorder ==
    ASSUME NEW V, NEW lo \in Nat, NEW hi \in Nat, lo < hi, lo = 0 \/ lo \in V, hi \notin V
    PROVE  Search(V, lo, hi) \in 0..hi /\ Border(V, Search(V, lo, hi))
<1> DEFINE D == (0..hi) \X (0..hi)
           m(x) == (x[1] + x[2]) \div 2
           Stop == {x \in D : x[2] - x[1] <= 1}
           val == [x \in D |-> x[1]]
           nxt == [x \in D |-> IF m(x) \in V THEN <<m(x), x[2]>> ELSE <<x[1], m(x)>>]
           mu == [x \in D |-> IF x[2] - x[1] <= 1 THEN 0 ELSE x[2] - x[1]]
           P == {x \in D : x[1] < x[2] /\ (x[1] = 0 \/ x[1] \in V) /\ x[2] \notin V}
           R == {n \in 0..hi : Border(V, n)}
           Q(f) == f = [x \in D |->
                      IF x[2] - x[1] <= 1 THEN x[1]
                      ELSE f[IF m(x) \in V THEN <<m(x), x[2]>> ELSE <<x[1], m(x)>>]]
           between == CHOOSE f : Q(f)
<1>1. Search(V, lo, hi) = between[<<lo, hi>>]
  BY DEF Search
<1>2. ASSUME NEW x \in D
      PROVE  /\ x[1] \in 0..hi /\ x[2] \in 0..hi /\ x = <<x[1], x[2]>>
             /\ x[2] - x[1] > 1 => m(x) \in 0..hi /\ x[1] < m(x) /\ m(x) < x[2]
  <2>1. x[1] \in 0..hi /\ x[2] \in 0..hi /\ x = <<x[1], x[2]>>
    OBVIOUS
  <2> DEFINE i == x[1]
             j == x[2]
  <2>2. i \in Nat /\ j \in Nat /\ j <= hi
    BY <2>1
  <2> HIDE DEF i, j
  <2>3. j - i > 1 => (i + j) \div 2 \in 0..hi /\ i < (i + j) \div 2 /\ (i + j) \div 2 < j
    BY <2>2
  <2> QED BY <2>1, <2>3 DEF i, j
<1> HIDE DEF m
<1>3. ASSUME NEW x \in D, x \notin Stop
      PROVE  /\ nxt[x] \in D /\ mu[nxt[x]] < mu[x]
             /\ x \in P => nxt[x] \in P
  <2> DEFINE i == x[1]
             j == x[2]
             c == m(x)
  <2>1. /\ i \in 0..hi /\ j \in 0..hi /\ c \in 0..hi /\ i < c /\ c < j /\ j - i > 1
    BY <1>2, <1>3
  <2>2. nxt[x] = (IF c \in V THEN <<c, j>> ELSE <<i, c>>) /\ mu[x] = j - i
    BY <1>3
  <2>3. <<c, j>> \in D /\ <<i, c>> \in D
    BY <2>1
  <2>4. mu[<<c, j>>] = (IF j - c <= 1 THEN 0 ELSE j - c) /\ mu[<<i, c>>] = (IF c - i <= 1 THEN 0 ELSE c - i)
    BY <2>3
  <2>5. x \in P => (i = 0 \/ i \in V) /\ j \notin V
    OBVIOUS
  <2>6. /\ <<c, j>> \in P <=> c < j /\ (c = 0 \/ c \in V) /\ j \notin V
        /\ <<i, c>> \in P <=> i < c /\ (i = 0 \/ i \in V) /\ c \notin V
    BY <2>3
  <2> HIDE DEF i, j, c, nxt, mu, D, P
  <2>7. CASE c \in V
    BY <2>1, <2>2, <2>3, <2>4, <2>5, <2>6, <2>7
  <2>8. CASE c \notin V
    BY <2>1, <2>2, <2>3, <2>4, <2>5, <2>6, <2>8
  <2> QED BY <2>7, <2>8
<1>4. mu \in [D -> Nat] /\ \A x \in D : mu[x] <= hi
  <2>1. ASSUME NEW x \in D PROVE mu[x] \in Nat /\ mu[x] <= hi
    <3>1. x[1] \in 0..hi /\ x[2] \in 0..hi
      BY <1>2
    <3>2. mu[x] = IF x[2] - x[1] <= 1 THEN 0 ELSE x[2] - x[1]
      OBVIOUS
    <3> QED BY <3>1, <3>2
  <2> QED BY <2>1
<1>5. Descends(D, Stop, nxt, mu)
  BY <1>3, <1>4 DEF Descends
<1>6. \A f : Tails(D, Stop, val, nxt, f) <=> Q(f)
  <2> SUFFICES ASSUME NEW f PROVE Tails(D, Stop, val, nxt, f) <=> Q(f)
    OBVIOUS
  <2>1. [x \in D |-> IF x \in Stop THEN val[x] ELSE f[nxt[x]]]
        = [x \in D |-> IF x[2] - x[1] <= 1 THEN x[1]
                       ELSE f[IF m(x) \in V THEN <<m(x), x[2]>> ELSE <<x[1], m(x)>>]]
    OBVIOUS
  <2> QED BY <2>1 DEF Tails
<1>7. ASSUME NEW x \in P, x \in Stop PROVE val[x] \in R
  <2> DEFINE i == x[1]
             j == x[2]
  <2>1. i \in 0..hi /\ j \in 0..hi /\ i < j /\ j - i <= 1 /\ (i = 0 \/ i \in V) /\ j \notin V
    BY <1>2, <1>7
  <2>2. val[x] = i
    OBVIOUS
  <2> HIDE DEF i, j
  <2>3. j = i + 1
    BY <2>1
  <2> QED BY <2>1, <2>2, <2>3 DEF Border
<1>8. P \in SUBSET D
  OBVIOUS
<1>9. <<lo, hi>> \in P
  <2>1. <<lo, hi>> \in D
    OBVIOUS
  <2> QED BY <2>1
<1> HIDE DEF D, Stop, val, nxt, mu, P, Q
<1>10. \E f : Tails(D, Stop, val, nxt, f)
  BY <1>4, <1>5, TailExists
<1>11. Q(between)
  BY <1>6, <1>10
<1> HIDE DEF between, R
<1>12. Tails(D, Stop, val, nxt, between)
  BY <1>6, <1>11
<1>13. LeadsInto(P, Stop, val, nxt, R)
  BY <1>3, <1>7, <1>8 DEF LeadsInto
<1>14. \A x \in P : between[x] \in R
  BY <1>5, <1>8, <1>12, <1>13, TailReaches
<1>15. between[<<lo, hi>>] \in R
  BY <1>9, <1>14
<1> QED BY <1>1, <1>15 DEF R

(* The linear search ends before the first position without a value. *)
LEMMA LinearFindsBorder ==
    ASSUME NEW V \in SUBSET (1..MaxInt)
    PROVE  LET n == MaxOf({l \in 0..MaxInt : 1..l \subseteq V}) IN n \in 0..MaxInt /\ Border(V, n)
<1> DEFINE S == {l \in 0..MaxInt : 1..l \subseteq V}
           n == MaxOf(S)
<1>1. MaxInt \in Nat
  BY KeyAssumption
<1>2. S \in SUBSET (0..MaxInt) /\ 0 \in S
  <2>1. 0 \in 0..MaxInt /\ 1..0 = {}
    BY <1>1
  <2> QED BY <2>1
<1>3. \A l : l \in S <=> l \in 0..MaxInt /\ 1..l \subseteq V
  OBVIOUS
<1> HIDE DEF S
<1>4. n \in S /\ \A l \in S : l <= n
  BY <1>1, <1>2, LargestOf
<1> HIDE DEF n
<1>5. n \in Nat /\ n <= MaxInt /\ 1..n \subseteq V
  BY <1>1, <1>3, <1>4
<1>6. n = 0 \/ n \in V
  BY <1>5
<1>7. n + 1 \notin V
  <2> SUFFICES ASSUME n + 1 \in V PROVE FALSE
    OBVIOUS
  <2>1. n + 1 \in 0..MaxInt
    <3>1. n + 1 \in 1..MaxInt
      OBVIOUS
    <3> QED BY <1>1, <1>5, <3>1
  <2>2. 1..(n + 1) \subseteq V
    <3>1. \A l \in 1..(n + 1) : l = n + 1 \/ l \in 1..n
      BY <1>5
    <3> QED BY <1>5, <3>1
  <2>3. n + 1 \in S
    BY <1>3, <2>1, <2>2
  <2> QED BY <1>4, <1>5, <2>3
<1> QED BY <1>1, <1>5, <1>6, <1>7 DEF Border, n, S

(* And so does the doubling. *)
LEMMA UnboundFindsBorder ==
    ASSUME NEW h, NEW start \in 0..MaxInt,
           start = 0 \/ start \in {n \in 1..MaxInt : Value(h, n) # Nil}
    PROVE  LET n == UnboundSearch(h, start) IN
           n \in Nat /\ Border({l \in 1..MaxInt : Value(h, l) # Nil}, n)
<1> DEFINE V == {n \in 1..MaxInt : Value(h, n) # Nil}
           linear == MaxOf({n \in 0..MaxInt : 1..n \subseteq V})
           D == (0..MaxInt) \X (1..(MaxInt + 1))
           Q(f) == f = [x \in D |->
                      IF x[2] \notin V THEN Search(V, x[1], x[2])
                      ELSE IF 2 * x[2] > MaxInt THEN linear ELSE f[<<x[2], 2 * x[2]>>]]
           double == CHOOSE f : Q(f)
           Stop == {x \in D : x[2] \notin V \/ 2 * x[2] > MaxInt}
           val == [x \in D |-> IF x[2] \notin V THEN Search(V, x[1], x[2]) ELSE linear]
           nxt == [x \in D |-> <<x[2], 2 * x[2]>>]
           mu == [x \in D |-> MaxInt + 1 - x[2]]
           P == {x \in D : x[1] < x[2] /\ (x[1] = 0 \/ x[1] \in V)}
           R == {n \in Nat : Border(V, n)}
<1>1. UnboundSearch(h, start) = double[<<start, start + 1>>]
  BY DEF UnboundSearch
<1>2. MaxInt \in Nat \ {0}
  BY KeyAssumption
<1>3. V \in SUBSET (1..MaxInt)
  OBVIOUS
<1>4. start = 0 \/ start \in V
  OBVIOUS
<1> HIDE DEF V
<1>5. linear \in R
  BY <1>2, <1>3, LinearFindsBorder
<1> HIDE DEF linear
<1>6. ASSUME NEW x \in D
      PROVE  x[1] \in 0..MaxInt /\ x[2] \in 1..(MaxInt + 1)
  OBVIOUS
<1>7. ASSUME NEW x \in D, x \notin Stop
      PROVE  nxt[x] \in D /\ mu[nxt[x]] < mu[x] /\ nxt[x] \in P
  <2> DEFINE j == x[2]
  <2>1. j \in V /\ ~(2 * j > MaxInt) /\ j \in 1..MaxInt
    BY <1>3, <1>7
  <2>2. nxt[x] = <<j, 2 * j>> /\ mu[x] = MaxInt + 1 - j
    OBVIOUS
  <2> HIDE DEF j
  <2>3. j \in 0..MaxInt /\ 2 * j \in 1..(MaxInt + 1) /\ j < 2 * j
    BY <1>2, <2>1
  <2>4. <<j, 2 * j>> \in D
    BY <2>3
  <2>5. mu[<<j, 2 * j>>] = MaxInt + 1 - 2 * j
    BY <2>4
  <2>6. <<j, 2 * j>> \in P
    BY <2>1, <2>3, <2>4
  <2>7. MaxInt + 1 - 2 * j < MaxInt + 1 - j
    BY <1>2, <2>1
  <2> HIDE DEF nxt, mu, D, P
  <2> QED BY <2>2, <2>4, <2>5, <2>6, <2>7
<1>8. mu \in [D -> Nat] /\ \A x \in D : mu[x] <= MaxInt
  <2>1. ASSUME NEW x \in D PROVE mu[x] \in Nat /\ mu[x] <= MaxInt
    <3>1. mu[x] = MaxInt + 1 - x[2]
      OBVIOUS
    <3> QED BY <1>2, <1>6, <3>1
  <2> QED BY <2>1
<1>9. Descends(D, Stop, nxt, mu)
  BY <1>7, <1>8 DEF Descends
<1>10. \A f : Tails(D, Stop, val, nxt, f) <=> Q(f)
  <2> SUFFICES ASSUME NEW f PROVE Tails(D, Stop, val, nxt, f) <=> Q(f)
    OBVIOUS
  <2>1. [x \in D |-> IF x \in Stop THEN val[x] ELSE f[nxt[x]]]
        = [x \in D |-> IF x[2] \notin V THEN Search(V, x[1], x[2])
                       ELSE IF 2 * x[2] > MaxInt THEN linear ELSE f[<<x[2], 2 * x[2]>>]]
    OBVIOUS
  <2> QED BY <2>1 DEF Tails
<1>11. ASSUME NEW x \in P, x \in Stop PROVE val[x] \in R
  <2> DEFINE i == x[1]
             j == x[2]
  <2>1. i \in Nat /\ j \in Nat /\ i < j /\ (i = 0 \/ i \in V)
    BY <1>2, <1>6
  <2>2. val[x] = IF j \notin V THEN Search(V, i, j) ELSE linear
    OBVIOUS
  <2> HIDE DEF i, j, val
  <2>3. CASE j \notin V
    <3>1. Search(V, i, j) \in 0..j /\ Border(V, Search(V, i, j))
      BY <2>1, <2>3, SearchFindsBorder
    <3> QED BY <2>1, <2>2, <2>3, <3>1
  <2>4. CASE j \in V
    BY <1>5, <2>2, <2>4
  <2> QED BY <2>3, <2>4
<1>12. P \in SUBSET D
  OBVIOUS
<1>13. <<start, start + 1>> \in P
  <2>1. <<start, start + 1>> \in D
    BY <1>2
  <2> QED BY <1>2, <1>4, <2>1
<1> HIDE DEF D, Stop, val, nxt, mu, P, Q
<1>14. \E f : Tails(D, Stop, val, nxt, f)
  BY <1>2, <1>8, <1>9, TailExists
<1>15. Q(double)
  BY <1>10, <1>14
<1> HIDE DEF double, R
<1>16. Tails(D, Stop, val, nxt, double)
  BY <1>10, <1>15
<1>17. LeadsInto(P, Stop, val, nxt, R)
  BY <1>7, <1>11, <1>12 DEF LeadsInto
<1>18. double[<<start, start + 1>>] \in R
  BY <1>9, <1>12, <1>13, <1>16, <1>17, TailReaches
<1> QED BY <1>1, <1>18 DEF R, V

(* luaH_getn, in the array part, behind it, or behind an empty hash part. *)
LEMMA GetnFindsBorder ==
    ASSUME NEW h, WellFormed(h)
    PROVE  LET n == Getn(h) IN (n = 0 \/ Value(h, n) # Nil) /\ Value(h, n + 1) = Nil
<1> DEFINE L == Len(h.array)
           n == Getn(h)
<1>1. L \in Nat /\ DOMAIN h.array = 1..L /\ IsTable(h)
  BY TableShape, LenProperties DEF WellFormed
<1>2. \A k \in 1..L : Value(h, k) = h.array[k] /\ (h.array[k] # Nil => k \in Ints)
  BY <1>1 DEF Value, Get, InArray, WellFormed, PartsOK
<1>3. Ints \subseteq 1..MaxInt /\ MaxInt \in Nat /\ Ints \subseteq Keys
  BY KeyAssumption DEF Keys
<1>4. CASE L > 0 /\ h.array[L] = Nil
  <2> DEFINE V == {m \in 1..L : h.array[m] # Nil}
  <2>1. n = Search(V, 0, L)
    BY <1>4 DEF Getn
  <2>2. L \notin V /\ 0 \in Nat
    BY <1>4
  <2>3. \A m : m \in V <=> m \in 1..L /\ h.array[m] # Nil
    OBVIOUS
  <2> HIDE DEF V, L, n
  <2>4. n \in 0..L /\ Border(V, n)
    BY <1>1, <1>4, <2>1, <2>2, SearchFindsBorder
  <2>5. n = 0 \/ Value(h, n) # Nil
    BY <1>2, <2>3, <2>4 DEF Border
  <2>6. n # L
    BY <1>4, <2>2, <2>4 DEF Border
  <2>7. n + 1 \in 1..L
    BY <1>1, <2>4, <2>6
  <2>8. Value(h, n + 1) = Nil
    BY <1>2, <2>3, <2>4, <2>7 DEF Border
  <2> QED BY <2>5, <2>8 DEF n
<1>5. CASE ~(L > 0 /\ h.array[L] = Nil)
  <2>1. L = 0 \/ (L \in 1..L /\ h.array[L] # Nil)
    BY <1>1, <1>5
  <2>2. CASE h.dummy
    <3>1. n = L
      BY <1>5, <2>2 DEF Getn
    <3>2. L = 0 \/ Value(h, L) # Nil
      BY <1>2, <2>1
    <3>3. L + 1 \notin DOMAIN h.array
      BY <1>1
    <3>4. ASSUME L + 1 \in Ints PROVE Get(h, L + 1) = Nil
      <4>1. h.node = [i \in {0} |-> FreeNode]
        BY <2>2 DEF WellFormed, LastFreeOK
      <4>2. \A v \in Vals : ~Entry(h, L + 1, v)
        BY <4>1, FreeNodeShape, KeyAssumption DEF Entry
      <4> QED BY <1>3, <3>3, <3>4, <4>2, GetIsEntry DEF InArray
    <3>5. Value(h, L + 1) = Nil
      BY <3>3, <3>4 DEF Value
    <3> QED BY <3>1, <3>2, <3>5
  <2>3. CASE ~h.dummy
    <3> DEFINE V == {m \in 1..MaxInt : Value(h, m) # Nil}
    <3>1. n = UnboundSearch(h, L)
      BY <1>5, <2>3 DEF Getn
    <3>2. L \in 0..MaxInt /\ (L = 0 \/ L \in V)
      BY <1>1, <1>2, <1>3, <2>1
    <3> HIDE DEF n, L
    <3>3. n \in Nat /\ Border(V, n)
      BY <3>1, <3>2, UnboundFindsBorder
    <3>4. n = 0 \/ Value(h, n) # Nil
      BY <3>3 DEF Border
    <3>5. Value(h, n + 1) = Nil
      <4>1. CASE n + 1 \in 1..MaxInt
        BY <3>3, <4>1 DEF Border
      <4>2. CASE n + 1 \notin 1..MaxInt
        <5>1. n + 1 \notin Ints
          BY <1>3, <4>2
        <5>2. n + 1 \in 1..L => Value(h, n + 1) = Nil
          BY <1>2, <5>1
        <5>3. n + 1 \notin 1..L => Value(h, n + 1) = Nil
          BY <1>1, <5>1 DEF Value
        <5> QED BY <5>2, <5>3
      <4> QED BY <4>1, <4>2
    <3> QED BY <3>4, <3>5 DEF n
  <2> QED BY <2>2, <2>3
<1> QED BY <1>4, <1>5

(* luaH_getn and unbound_search: the length operator gives a border, of an *)
(* array part with holes or of the hash part behind it, at the limit of    *)
(* the integers too.                                                       *)
THEOREM LengthIsABorder == Spec => []LengthIsBorder
<1>1. Inv => LengthIsBorder
  BY GetnFindsBorder DEF Inv, LengthIsBorder
<1> QED BY <1>1, InvAlways, PTL
=============================================================================
