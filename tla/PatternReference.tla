-------------------------- MODULE PatternReference --------------------------
(***************************************************************************)
(* What patterns mean: a pattern is a sequence of items, and the ways it   *)
(* matches from a position are listed in the order of preference, each     *)
(* with its captures.  Nothing is tried, undone or scanned here.           *)
(*                                                                         *)
(* Items: <<"one", set, suffix>> with a set [chars, written], <<"open">>,  *)
(* <<"close">>, <<"position">>, <<"back", n>>, <<"balance", x, y>>,        *)
(* <<"frontier", set>>, <<"end">>.                                         *)
(***************************************************************************)
EXTENDS Integers, Sequences, FiniteSets, SequencesExt

CONSTANTS NoChar,      \* what stands in front of and behind a string
          Capacity     \* the captures a pattern may have

Digit == <<"0", "1", "2", "3">>
WrittenItem(item) ==
    CASE item[1] = "one" -> item[2].written \o item[3]
      [] item[1] = "open" -> <<"(">>
      [] item[1] = "close" -> <<")">>
      [] item[1] = "position" -> <<"(", ")">>
      [] item[1] = "back" -> <<"%", Digit[item[2] + 1]>>
      [] item[1] = "balance" -> <<"%", "b", item[2], item[3]>>
      [] item[1] = "frontier" -> <<"%", "f">> \o item[2].written
      [] item[1] = "end" -> <<"$">>
Written(items) == FlattenSeq([i \in DOMAIN items |-> WrittenItem(items[i])])

CharAt(str, i) == IF i \in DOMAIN str THEN str[i] ELSE NoChar
Refused == <<[at |-> -1, captures |-> <<>>]>>
Down(n) == [i \in 1..(n + 1) |-> n + 1 - i]
Up(n) == [i \in 1..(n + 1) |-> i - 1]

(* Where a text that opens at s with x closes: as many y as x, first time. *)
Balanced(str, s, x, y) ==
    LET count(c, e) == Cardinality({i \in s..e : str[i] = c})
        ends == {e \in (s + 1)..Len(str) : IF x = y THEN str[e] = y ELSE count(x, e) = count(y, e)}
    IN IF CharAt(str, s) # x THEN {} ELSE {e \in ends : \A d \in ends : e <= d}

RECURSIVE Ways(_, _, _, _, _)
Ways(str, items, k, s, captures) ==
    LET item == items[k]
        rest(to, with) == Ways(str, items, k + 1, to, with)
        fits == {n \in 0..(Len(str) + 1 - s) : \A j \in 0..(n - 1) : str[s + j] \in item[2].chars}
        most == CHOOSE n \in fits : \A m \in fits : m <= n
        \* the counts of a repetition, the preferred one first
        counts == CASE item[3] = <<"*">> -> Down(most)
                    [] item[3] = <<"+">> -> Front(Down(most))
                    [] item[3] = <<"?">> -> Down(IF most > 0 THEN 1 ELSE 0)
                    [] item[3] = <<"-">> -> Up(most)
                    [] OTHER -> IF most > 0 THEN <<1>> ELSE <<>>
        opened == {i \in DOMAIN captures : captures[i].to = "open"}
        inner == CHOOSE i \in opened : \A j \in opened : j <= i
    IN IF k > Len(items) THEN <<[at |-> s, captures |-> captures]>>
       ELSE CASE item[1] = "one" -> FlattenSeq([i \in DOMAIN counts |-> rest(s + counts[i], captures)])
              [] item[1] \in {"open", "position"} ->
                    IF Len(captures) = Capacity THEN Refused
                    ELSE rest(s, Append(captures, [from |-> s, to |-> item[1]]))
              [] item[1] = "close" ->
                    IF opened = {} THEN Refused ELSE rest(s, [captures EXCEPT ![inner].to = <<s>>])
              [] item[1] = "back" ->
                    IF item[2] \notin DOMAIN captures \/ item[2] \in opened THEN Refused
                    ELSE IF captures[item[2]].to = "position" THEN <<>>
                    ELSE LET text == SubSeq(str, captures[item[2]].from, captures[item[2]].to[1] - 1)
                         IN IF s + Len(text) - 1 <= Len(str) /\ SubSeq(str, s, s + Len(text) - 1) = text THEN rest(s + Len(text), captures) ELSE <<>>
              [] item[1] = "balance" ->
                    LET ends == Balanced(str, s, item[2], item[3])
                    IN IF ends = {} THEN <<>> ELSE rest((CHOOSE e \in ends : TRUE) + 1, captures)
              [] item[1] = "frontier" ->
                    IF CharAt(str, s - 1) \notin item[2].chars /\ CharAt(str, s) \in item[2].chars
                    THEN rest(s, captures) ELSE <<>>
              [] item[1] = "end" -> IF s = Len(str) + 1 THEN rest(s, captures) ELSE <<>>

(* The first way from s: at is 0 if there is none, -1 if it is refused.    *)
First(str, items, s) ==
    LET ways == Ways(str, items, 1, s, <<>>)
    IN IF ways = <<>> THEN [at |-> 0, captures |-> <<>>] ELSE ways[1]

Capture(str, capture) ==
    CASE capture.to = "open" -> <<"error">>
      [] capture.to = "position" -> <<"position", capture.from>>
      [] OTHER -> <<"text", SubSeq(str, capture.from, capture.to[1] - 1)>>
Captures(str, way) == [i \in DOMAIN way.captures |-> Capture(str, way.captures[i])]
CapturesOrWhole(str, s, way) ==
    IF way.captures = <<>> THEN <<<<"text", SubSeq(str, s, way.at - 1)>>>> ELSE Captures(str, way)
=============================================================================
