------------------------------ MODULE LuaTable ------------------------------
(***************************************************************************)
(* Lua tables (lualib/ltable.c): an array part and a hash part, the hash   *)
(* part a chained scatter table with Brent's variation.  The operations    *)
(* are operators on the value of a table, a record                         *)
(*   array     the array part, a sequence                                  *)
(*   node      the nodes, numbered from 0; as many as a power of two       *)
(*   lastfree  every free node is before this one                          *)
(*   dummy     node is the shared dummynode                                *)
(* and a node has a key, a value, the next node of its chain, and whether  *)
(* its key is dead (LUA_TDEADKEY).                                         *)
(***************************************************************************)
EXTENDS Integers, Sequences, FiniteSets

CONSTANTS
    Ints,     \* the integer keys in use, positive
    Names,    \* keys hashed by `hashpow2': strings
    Objects,  \* keys hashed by `hashmod' on their address: tables, functions
    Vals,     \* the values that are not nil
    Nil,
    Full,     \* result of a search for a free node that finds none
    Hash,     \* [Keys -> Nat]: the number the main position is computed from
    MaxInt,   \* MAX_INT
    Growth    \* bound: sizes asked of luaH_resizearray

Keys == Ints \cup Names \cup Objects
None == -1

-----------------------------------------------------------------------------
(* Tables. *)

NodeFor(k, next) == [key |-> k, val |-> Nil, next |-> next, dead |-> FALSE]
FreeNode == NodeFor(Nil, None)
Size(h) == Cardinality(DOMAIN h.node)

(* The sizes of a hash part, up to 2^MAXBITS, and the largest array part   *)
(* that is counted, MAXASIZE.                                              *)
PowersOfTwo ==
    {1, 2, 4, 8, 16, 32, 64, 128, 256, 512, 1024, 2048, 4096, 8192, 16384, 32768, 65536,
     131072, 262144, 524288, 1048576, 2097152, 4194304, 8388608, 16777216, 33554432, 67108864}
MaxASize == 67108864

Node == [key : Keys \cup {Nil}, val : Vals \cup {Nil}, next : Int, dead : BOOLEAN]
TablesOf(n) ==
    [array : Seq(Vals \cup {Nil}), node : [0..(n - 1) -> Node], lastfree : 0..n, dummy : BOOLEAN]

-----------------------------------------------------------------------------
(* Keys of one kind are not of another, and nil is neither key nor value.  *)
ASSUME KeyAssumption ==
    /\ MaxInt \in Nat \ {0} /\ Ints \subseteq 1..MaxInt
    /\ (Names \cup Objects) \cap Int = {}
    /\ Nil \notin Keys \cup Vals /\ Nil \notin Int
    /\ \A n \in PowersOfTwo : Full \notin TablesOf(n)

ASSUME HashAssumption == Hash \in [Keys -> Nat]

(* With more keys than these setnodevector gives up: table overflow. *)
ASSUME SizeAssumption ==
    /\ IsFiniteSet(Keys) /\ Cardinality(Keys) <= MaxASize
    /\ Growth \subseteq 0..MaxASize

VARIABLES
    t,      \* the table
    it,     \* the key a traversal in progress gave last, Nil before the first, None without one
    seen    \* history: the keys the traversal in progress gave

vars == <<t, it, seen>>

MaxOf(S) == CHOOSE n \in S : \A m \in S : m <= n
CeilPow2(n) == CHOOSE p \in PowersOfTwo : p >= n /\ p \div 2 < n

-----------------------------------------------------------------------------
(* Searching. *)

MainPosition(h, k) ==
    IF k \in Names THEN Hash[k] % Size(h)
    ELSE Hash[k] % (IF Size(h) = 1 THEN 1 ELSE Size(h) - 1)

(* The first node of its chain that holds the key.  A dead key is no key,  *)
(* but findindex accepts it: the traversal that asks still holds it.       *)
NodeOf(h, k, evenDead) ==
    LET find[i \in DOMAIN h.node \cup {None}] ==
            IF i = None THEN None
            ELSE IF h.node[i].key = k /\ (evenDead \/ ~h.node[i].dead) THEN i
            ELSE find[h.node[i].next]
    IN find[MainPosition(h, k)]

InArray(h, k) == k \in DOMAIN h.array

Get(h, k) ==
    IF InArray(h, k) THEN h.array[k]
    ELSE LET i == NodeOf(h, k, FALSE) IN IF i = None THEN Nil ELSE h.node[i].val

-----------------------------------------------------------------------------
(* Inserting. *)

FreePositions(h) ==
    {i \in 0..(h.lastfree - 1) : h.node[i].key = Nil}

(* Mutation: the test for dummynode is missing. *)
PlaceInDummy(h, k) ==
    IF h.node[MainPosition(h, k)].val = Nil
    THEN [h EXCEPT !.node[MainPosition(h, k)].key = k]
    ELSE Full

(* Mutation: the colliding node keeps its place wherever it belongs. *)
PlaceLeavesCollider(h, k) ==
    LET mp == MainPosition(h, k)
        n == MaxOf(FreePositions(h))
    IN IF h.node[mp].val = Nil /\ ~h.dummy
       THEN [h EXCEPT !.node[mp] = NodeFor(k, @.next)]
       ELSE IF FreePositions(h) = {} THEN Full
       ELSE [h EXCEPT !.lastfree = n, !.node[mp].next = n, !.node[n] = NodeFor(k, None)]

(* newkey, unless it has to grow the table.  The main position is taken    *)
(* when its value is nil, with the chain it is part of; otherwise a node   *)
(* that does not belong there moves out, and one that does stays and gets  *)
(* the new node behind it.                                                 *)
Place(h, k) ==
    LET mp == MainPosition(h, k)
        othern == MainPosition(h, h.node[mp].key)
        n == MaxOf(FreePositions(h))
        prev == CHOOSE p \in DOMAIN h.node : h.node[p].next = mp
    IN IF h.node[mp].val = Nil /\ ~h.dummy
       THEN [h EXCEPT !.node[mp] = NodeFor(k, @.next)]
       ELSE IF FreePositions(h) = {} THEN Full
       ELSE IF othern # mp
       THEN [h EXCEPT !.lastfree = n, !.node[prev].next = n, !.node[n] = h.node[mp],
                      !.node[mp] = NodeFor(k, None)]
       ELSE [h EXCEPT !.lastfree = n, !.node[n] = NodeFor(k, h.node[mp].next),
                      !.node[mp].next = n]

Assign(h, k, v) ==
    IF InArray(h, k) THEN [h EXCEPT !.array[k] = v]
    ELSE [h EXCEPT !.node[NodeOf(h, k, FALSE)].val = v]

Known(h, k) == InArray(h, k) \/ NodeOf(h, k, FALSE) # None

(* luaH_set and luaH_setnum with the assignment to what they return, in a  *)
(* table that has room.                                                    *)
Put(h, k, v) ==
    IF h = Full THEN Full
    ELSE IF Known(h, k) THEN Assign(h, k, v)
    ELSE LET placed == Place(h, k)
         IN IF placed = Full THEN Full ELSE Assign(placed, k, v)

-----------------------------------------------------------------------------
(* Growing. *)

(* setnodevector *)
Nodes(h, n) ==
    LET size == IF n = 0 THEN 1 ELSE CeilPow2(n)
    IN [h EXCEPT !.node = [i \in 0..(size - 1) |-> FreeNode],
                 !.dummy = (n = 0),
                 !.lastfree = IF n = 0 THEN 0 ELSE size]

(* The entries of a part, inserted again in the order of the loop. *)
Reinsert(g, k, v) == IF v = Nil THEN g ELSE Put(g, k, v)
InsertAll(g, entries) ==
    LET done[i \in 0..Len(entries)] ==
            IF i = 0 THEN g ELSE Reinsert(done[i - 1], entries[i].key, entries[i].val)
    IN done[Len(entries)]

UpFrom(h, g) ==
    InsertAll(g, [i \in 1..Len(h.array) |-> [key |-> i, val |-> h.array[i]]])
DownNodes(h, g) ==
    InsertAll(g, [i \in 1..Size(h) |-> h.node[Size(h) - i]])

(* resize: the array part grows first or, when it shrinks, what vanishes   *)
(* is inserted again (and what stays is assigned what it has); then the    *)
(* old nodes, downwards.                                                   *)
Resize(h, na, nh) ==
    LET array == [i \in 1..na |-> IF i <= Len(h.array) THEN h.array[i] ELSE Nil]
    IN DownNodes(h, UpFrom(h, Nodes([h EXCEPT !.array = array], nh)))

(* computesizes: the largest power of two n such that more than half the   *)
(* slots up to n are in use.                                               *)
ArraySize(K) ==
    MaxOf({0} \cup {n \in PowersOfTwo :
        n \div 2 < Cardinality(K) /\ Cardinality({k \in K : k <= n}) > n \div 2})

(* Mutation: the new key is not counted. *)
RehashForgetsKey(h, ek) ==
    LET inArray == {k \in DOMAIN h.array : h.array[k] # Nil}
        inHash == {h.node[i].key : i \in {j \in DOMAIN h.node : h.node[j].val # Nil}}
        K == {k \in inArray \cup inHash : k \in Ints}
        na == ArraySize(K)
    IN Resize(h, na, Cardinality(inArray \cup inHash) - Cardinality({k \in K : k <= na}))

(* rehash, for the keys with a value and the extra key *)
Rehash(h, ek) ==
    LET inArray == {k \in DOMAIN h.array : h.array[k] # Nil}
        inHash == {h.node[i].key : i \in {j \in DOMAIN h.node : h.node[j].val # Nil}}
        all == inArray \cup inHash \cup {ek}
        K == {k \in all \cap Ints : k <= MaxASize}
        na == ArraySize(K)
    IN Resize(h, na, Cardinality(all) - Cardinality({k \in K : k <= na}))

(* luaH_set with the assignment to what it returns *)
Set(h, k, v) ==
    LET put == Put(h, k, v) IN IF put # Full THEN put ELSE Put(Rehash(h, k), k, v)

-----------------------------------------------------------------------------
(* The length operator. *)

(* The binary search, among the positions there with a value: that at lo   *)
(* is one (or lo is 0), that at hi is not.                                 *)
Search(there, lo, hi) ==
    LET between[x \in (0..hi) \X (0..hi)] ==
            LET m == (x[1] + x[2]) \div 2
            IN IF x[2] - x[1] <= 1 THEN x[1]
               ELSE between[IF m \in there THEN <<m, x[2]>> ELSE <<x[1], m>>]
    IN between[<<lo, hi>>]

(* unbound_search: doubling from the end of the array part, and a linear   *)
(* search once the integers are exhausted.  Positions beyond Ints are nil. *)
Value(h, n) == IF n \in Ints \/ n \in DOMAIN h.array THEN Get(h, n) ELSE Nil

UnboundSearch(h, start) ==
    LET there == {n \in 1..MaxInt : Value(h, n) # Nil}
        linear == MaxOf({n \in 0..MaxInt : 1..n \subseteq there})
        double[x \in (0..MaxInt) \X (1..(MaxInt + 1))] ==
            IF x[2] \notin there THEN Search(there, x[1], x[2])
            ELSE IF 2 * x[2] > MaxInt THEN linear
            ELSE double[<<x[2], 2 * x[2]>>]
    IN double[<<start, start + 1>>]

(* Mutation: the array part is taken to be full. *)
GetnSkipsArray(h) ==
    IF h.dummy THEN Len(h.array) ELSE UnboundSearch(h, Len(h.array))

Getn(h) ==
    LET j == Len(h.array)
    IN IF j > 0 /\ h.array[j] = Nil THEN Search({m \in 1..j : h.array[m] # Nil}, 0, j)
       ELSE IF h.dummy THEN j
       ELSE UnboundSearch(h, j)

-----------------------------------------------------------------------------
(* Traversal. *)

(* The position of a key: the array part from 0, then the nodes. *)
FindIndex(h, k) ==
    IF k = Nil THEN -1
    ELSE IF InArray(h, k) THEN k - 1
    ELSE Len(h.array) + NodeOf(h, k, TRUE)

KeyAt(h, p) == IF p < Len(h.array) THEN p + 1 ELSE h.node[p - Len(h.array)].key
ValueAt(h, p) == IF p < Len(h.array) THEN h.array[p + 1] ELSE h.node[p - Len(h.array)].val

(* Mutation: the traversal begins behind the array part. *)
NextSkipsArray(h, k) ==
    {p \in Len(h.array)..(Len(h.array) + Size(h) - 1) : p > FindIndex(h, k) /\ ValueAt(h, p) # Nil}

(* luaH_next: the positions it may still return. *)
Remaining(h, k) ==
    {p \in 0..(Len(h.array) + Size(h) - 1) : p > FindIndex(h, k) /\ ValueAt(h, p) # Nil}

-----------------------------------------------------------------------------
Init ==
    /\ t = Nodes([array |-> <<>>, node |-> <<>>, lastfree |-> 0, dummy |-> TRUE], 0)
    /\ it = None
    /\ seen = {}

(* t[k] = v.  During a traversal only fields that are there may be         *)
(* assigned, as the manual asks.                                           *)
Store(k, v) ==
    /\ it # None => Get(t, k) # Nil
    /\ t' = Set(t, k, v)
    /\ UNCHANGED <<it, seen>>

(* A constructor with n values makes room for them first (OP_SETLIST). *)
ResizeArray(n) ==
    /\ it = None /\ n > Len(t.array)
    /\ t' = Resize(t, n, IF t.dummy THEN 0 ELSE Size(t))
    /\ UNCHANGED <<it, seen>>

(* The collector meets the table: keys without a value die (removeentry). *)
RemoveEntries ==
    /\ LET dies(n) == n.val = Nil /\ n.key \in Names \cup Objects
       IN t' = [t EXCEPT !.node = [i \in DOMAIN t.node |->
                    [t.node[i] EXCEPT !.dead = @ \/ dies(t.node[i])]]]
    /\ UNCHANGED <<it, seen>>

BeginTraversal ==
    /\ it = None
    /\ it' = Nil
    /\ UNCHANGED <<t, seen>>

NextKey ==
    /\ it # None
    /\ LET left == Remaining(t, it)
           p == CHOOSE q \in left : \A r \in left : q <= r
       IN IF left = {} THEN it' = None /\ seen' = {}
          ELSE it' = KeyAt(t, p) /\ seen' = seen \cup {KeyAt(t, p)}
    /\ UNCHANGED t

Next ==
    \/ \E k \in Keys, v \in Vals \cup {Nil} : Store(k, v)
    \/ \E n \in Growth : ResizeArray(n)
    \/ RemoveEntries \/ BeginTraversal \/ NextKey

Spec == Init /\ [][Next]_vars

-----------------------------------------------------------------------------
(* dummynode, which all tables without a hash part share, is never written. *)
TypeOK ==
    /\ \E n \in PowersOfTwo : t \in TablesOf(n)
    /\ t.dummy => t.node = [i \in {0} |-> FreeNode]
    /\ it \in Keys \cup {Nil, None}
    /\ seen \subseteq Keys

(* Store with a nil key kept, every key found from its main position, a    *)
(* traversal that meets each field once although fields are cleared and    *)
(* keys die under it: the table is the dictionary the language promises.   *)
Dict == INSTANCE Dictionary WITH
    dict <- [k \in Keys |-> Get(t, k)],
    walking <- it # None

IsDictionary == Dict!Spec

(* The main invariant of the comment at the head of ltable.c: an element   *)
(* out of its main position was displaced by one that is in its own.       *)
BrentInvariant ==
    \A i \in DOMAIN t.node : t.node[i].val # Nil =>
        LET mp == MainPosition(t, t.node[i].key)
        IN mp # i => MainPosition(t, t.node[mp].key) = mp

(* A table that has been grown has room for the key it was grown for and   *)
(* for all that is inserted again: luaH_set, newkey and rehash do not call *)
(* one another a second time.                                              *)
GrowthSuffices ==
    \A k \in Keys : ~Known(t, k) /\ Place(t, k) = Full =>
        LET grown == Rehash(t, k)
        IN grown # Full /\ (Known(grown, k) \/ Place(grown, k) # Full)

(* luaH_getn returns a border: t[n] is there (or n is 0) and t[n + 1] is not. *)
LengthIsBorder ==
    LET n == Getn(t) IN (n = 0 \/ Value(t, n) # Nil) /\ Value(t, n + 1) = Nil
=============================================================================
