----------------------------- MODULE LuaTableLib -----------------------------
(***************************************************************************)
(* The table library of the machine (lualib/ltablib.c): sort, one call of  *)
(* the order function after another, and the operations on lists.          *)
(*                                                                         *)
(* The order function is the script's: it may follow an order of ranks, or *)
(* answer anything.  A sort compares and exchanges elements in place, and  *)
(* reads its neighbours when it is told lies.                              *)
(***************************************************************************)
EXTENDS Integers, Sequences, FiniteSets, SequencesExt

CONSTANTS
    Nil,           \* what a list has outside of its elements
    SortCalls,     \* [list, ranks: [elements -> Nat]; <<>> for a function that answers anything]
    ListCalls      \* [fn, list, args, value, removes, stops]

VARIABLE lib       \* the call, the state of its loop, and its outcome

Indices(n) == -1..(n + 2)
AsTable(list) == [i \in Indices(Len(list)) |-> IF i \in DOMAIN list THEN list[i] ELSE Nil]

-----------------------------------------------------------------------------
(* sort.  auxsort(l, u) is a frame; the frames under it wait for their     *)
(* larger halves.  step is the comparison that is next.                    *)

Range0(l, u) == [l |-> l, u |-> u]
SortCalled(call) ==
    [part |-> "sort", call |-> call, a |-> AsTable(call.list), frames |-> <<Range0(1, Len(call.list))>>,
     step |-> "enter", i |-> 0, j |-> 0, pivot |-> Nil, depth |-> 1, ends |-> "runs"]

Sorting(step) == lib.part = "sort" /\ lib.ends = "runs" /\ lib.step = step
l == Last(lib.frames).l
u == Last(lib.frames).u
a == lib.a
(* sort_comp: what the comparison x < y may answer.  An order of ranks     *)
(* refuses to compare nil.                                                 *)
Answer(less) == IF less THEN "yes" ELSE "no"
Answers(x, y) ==
    CASE lib.call.ranks = <<>> -> {"yes", "no"}
      [] lib.call.ranks # <<>> /\ Nil \in {x, y} -> {"raises"}
      [] OTHER -> {Answer(lib.call.ranks[x] < lib.call.ranks[y])}
Swapped(i, j) == [a EXCEPT ![i] = a[j], ![j] = a[i]]
SwappedIf(answer, i, j) == IF answer = "yes" THEN Swapped(i, j) ELSE a
SortError == lib' = [lib EXCEPT !.ends = "error"]
(* The frame is done; the one under it goes on with its larger half.       *)
Leave(array) == [lib EXCEPT !.a = array, !.frames = Front(@), !.step = "enter"]

Enter ==
    /\ Sorting("enter")
    /\ lib' = IF lib.frames = <<>> THEN [lib EXCEPT !.ends = "done"]
              ELSE IF l < u THEN [lib EXCEPT !.step = "ends"] ELSE Leave(a)

(* a[l], a[(l + u) / 2] and a[u] are put in order. *)
CompareEnds ==
    /\ Sorting("ends")
    /\ \E answer \in Answers(a[u], a[l]) :
          IF answer = "raises" THEN SortError
          ELSE lib' = IF u - l = 1 THEN Leave(SwappedIf(answer, l, u))
                      ELSE [lib EXCEPT !.a = SwappedIf(answer, l, u), !.step = "low", !.i = (l + u) \div 2]
CompareLow ==
    /\ Sorting("low")
    /\ \E answer \in Answers(a[lib.i], a[l]) :
          IF answer = "raises" THEN SortError
          ELSE lib' = IF answer = "yes" THEN [lib EXCEPT !.a = Swapped(lib.i, l), !.step = "pivot"]
                      ELSE [lib EXCEPT !.step = "high"]
CompareHigh ==
    /\ Sorting("high")
    /\ \E answer \in Answers(a[u], a[lib.i]) :
          IF answer = "raises" THEN SortError
          ELSE lib' = [lib EXCEPT !.a = SwappedIf(answer, lib.i, u), !.step = "pivot"]
TakePivot ==
    /\ Sorting("pivot")
    /\ lib' = IF u - l = 2 THEN Leave(a)
              ELSE [lib EXCEPT !.pivot = a[lib.i], !.a = Swapped(lib.i, u - 1),
                               !.i = l + 1, !.j = u - 1, !.step = "up"]

(* Up to an element that is not below the pivot.  The check comes after    *)
(* the comparison with what lies outside, and only if that was "below".    *)
ScanUp ==
    /\ Sorting("up")
    /\ \E answer \in Answers(a[lib.i], lib.pivot) :
          IF answer = "raises" \/ (answer = "yes" /\ lib.i > u) THEN SortError
          ELSE lib' = IF answer = "yes" THEN [lib EXCEPT !.i = @ + 1] ELSE [lib EXCEPT !.j = @ - 1, !.step = "down"]
ScanDown ==
    /\ Sorting("down")
    /\ \E answer \in Answers(lib.pivot, a[lib.j]) :
          IF answer = "raises" \/ (answer = "yes" /\ lib.j < l) THEN SortError
          ELSE lib' = CASE answer = "yes" -> [lib EXCEPT !.j = @ - 1]
                        [] answer = "no" /\ lib.j < lib.i -> [lib EXCEPT !.step = "split"]
                        [] OTHER -> [lib EXCEPT !.a = Swapped(lib.i, lib.j), !.i = @ + 1, !.step = "up"]

(* The pivot goes between the halves, of which the smaller one is sorted   *)
(* by a call of its own and the larger one by this loop.                   *)
(* Mutation: it is the larger one that gets the call. *)
HalvesSwapped(i) ==
    IF i - l >= u - i THEN [called |-> Range0(l, i - 1), kept |-> Range0(i + 1, u)]
    ELSE [called |-> Range0(i + 1, u), kept |-> Range0(l, i - 1)]
Halves(i) ==
    IF i - l < u - i THEN [called |-> Range0(l, i - 1), kept |-> Range0(i + 1, u)]
    ELSE [called |-> Range0(i + 1, u), kept |-> Range0(l, i - 1)]
Split ==
    /\ Sorting("split")
    /\ LET halves == Halves(lib.i)
       IN lib' = [lib EXCEPT !.a = Swapped(u - 1, lib.i), !.step = "enter",
                             !.frames = Append(Append(Front(@), halves.kept), halves.called),
                             !.depth = IF Len(lib.frames) + 1 > @ THEN Len(lib.frames) + 1 ELSE @]

-----------------------------------------------------------------------------
(* The operations on a list, which is read up to the border n it had.      *)

GetN(t) == CHOOSE n \in 0..Cardinality(DOMAIN t) : /\ n + 1 \notin DOMAIN t \/ t[n + 1] = Nil
                                                   /\ \A i \in 1..n : t[i] # Nil
TInsert(t, args, value) ==
    LET e == GetN(t) + 1
        pos == IF args = <<>> THEN e ELSE args[1]
        end == IF pos > e THEN pos ELSE e
    IN [i \in DOMAIN t |-> CASE i = pos -> value
                             [] i > pos /\ i <= end -> t[i - 1]
                             [] OTHER -> t[i]]
TRemove(t, args) ==
    LET e == GetN(t)
        pos == IF args = <<>> THEN e ELSE args[1]
    IN IF pos \notin 1..e THEN t
       ELSE [i \in DOMAIN t |-> CASE i = e -> Nil
                                  [] i >= pos /\ i < e -> t[i + 1]
                                  [] OTHER -> t[i]]
(* A field that is no string, nor a number, is an error. *)
AddField(t, i) == IF i \in DOMAIN t THEN t[i] ELSE Nil
TConcat(t, args) ==
    LET i == args[1]
        last == IF Len(args) > 1 THEN args[2] ELSE GetN(t)
    IN [k \in 1..(IF i <= last THEN 2 * (last - i) + 1 ELSE 0) |->
            IF k % 2 = 0 THEN "separator" ELSE AddField(t, i + (k \div 2))]
MaxN(t) == CHOOSE n \in {i \in DOMAIN t : t[i] # Nil} \cup {0} :
               \A i \in DOMAIN t : t[i] # Nil => i <= n

(* foreachi calls the function with as many elements as there were at first. *)
(* It may remove the element it is given, and stop the walk by a result: the *)
(* elements it does that for are those of removes and of stops.              *)
Visit ==
    /\ lib.part = "list" /\ lib.ends = "runs" /\ lib.call.fn = "foreachi"
    /\ LET i == Len(lib.seen) + 1
       IN lib' = IF i > lib.n THEN [lib EXCEPT !.ends = "done"]
                 ELSE [lib EXCEPT !.seen = Append(@, a[i]),
                                  !.a = IF a[i] \in lib.call.removes THEN TRemove(a, <<i>>) ELSE a,
                                  !.ends = IF a[i] \in lib.call.stops THEN "done" ELSE "runs"]
ListCall ==
    /\ lib.part = "list" /\ lib.ends = "runs" /\ lib.call.fn # "foreachi"
    /\ LET c == lib.call
       IN lib' = CASE c.fn = "insert" -> [lib EXCEPT !.a = TInsert(a, c.args, c.value), !.ends = "done"]
                   [] c.fn = "remove" -> [lib EXCEPT !.a = TRemove(a, c.args), !.ends = "done"]
                   [] c.fn = "maxn" -> [lib EXCEPT !.n = MaxN(a), !.ends = "done"]
                   [] c.fn = "concat" ->
                         [lib EXCEPT !.seen = TConcat(a, c.args),
                                     !.ends = IF Nil \in Range(TConcat(a, c.args)) THEN "error" ELSE "done"]

ListCalled(call) ==
    [part |-> "list", call |-> call, a |-> AsTable(call.list), n |-> GetN(AsTable(call.list)),
     seen |-> <<>>, ends |-> "runs"]

Init ==
    \/ \E call \in SortCalls : lib = SortCalled(call)
    \/ \E call \in ListCalls : lib = ListCalled(call)
Next ==
    \/ Enter \/ CompareEnds \/ CompareLow \/ CompareHigh \/ TakePivot \/ ScanUp \/ ScanDown \/ Split
    \/ Visit \/ ListCall

-----------------------------------------------------------------------------
(* How often x stands in the table. *)
Copies(table, x) == Cardinality({i \in DOMAIN table : table[i] = x})
Log2(n) == CHOOSE k \in 0..n : 2^k <= n /\ n < 2^(k + 1)

(* auxsort, whatever the order function answers, only exchanges elements:  *)
(* none is lost or doubled, though some may leave the list when the        *)
(* answers are no order; and the calls nest no deeper than the logarithm   *)
(* of the length, since the smaller half gets the call (lualib/ltablib.c). *)
SortKeeps ==
    lib.part = "sort" =>
        /\ \A x \in Range(lib.call.list) : Copies(lib.a, x) = Copies(AsTable(lib.call.list), x)
        /\ lib.depth <= Log2(Len(lib.call.list)) + 1

(* With an order, the list ends up in that order, in its place, and the    *)
(* scans, which have no bound of their own, never leave it.                *)
SortSorts ==
    lib.part = "sort" /\ lib.call.ranks # <<>> =>
        /\ lib.ends # "error"
        /\ \A i \in DOMAIN lib.a : lib.a[i] = Nil <=> i \notin DOMAIN lib.call.list
        /\ lib.ends = "done" =>
              \A i \in 2..Len(lib.call.list) : lib.call.ranks[lib.a[i - 1]] <= lib.call.ranks[lib.a[i]]
=============================================================================
