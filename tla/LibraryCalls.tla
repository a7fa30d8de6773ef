----------------------------- MODULE LibraryCalls -----------------------------
(***************************************************************************)
(* The calls of the string and the table library that are checked, and     *)
(* what they have to give: a match by PatternReference, a list by what is  *)
(* known of lists.                                                         *)
(***************************************************************************)
EXTENDS Integers, Sequences, FiniteSets, TLC, SequencesExt

Alphabet == <<"NUL", " ", "-", "0", "1", "2", "A", "D", "S", "W", "Z", "]", "^",
              "a", "b", "d", "f", "s", "w", "x", "y", "z">>
MCCode == [c \in Range(Alphabet) |-> 30 + CHOOSE i \in DOMAIN Alphabet : Alphabet[i] = c]

Ref == INSTANCE PatternReference WITH NoChar <- "NUL", Capacity <- 2

Every(set, low, high) == UNION {[1..n -> set] : n \in low..high}
Set(chars, written) == [chars |-> chars, written |-> written]
A == Set({"a"}, <<"a">>)
B == Set({"b"}, <<"b">>)
Dot == Set(Range(Alphabet), <<".">>)
InA == Set({"a"}, <<"[", "a", "]">>)
NotA == Set(Range(Alphabet) \ {"a"}, <<"[", "^", "a", "]">>)
AToB == Set({"a", "b"}, <<"[", "a", "-", "b", "]">>)
AOrDash == Set({"a", "-"}, <<"[", "a", "-", "]">>)
AOrBracket == Set({"a", "]"}, <<"[", "]", "a", "]">>)
AOrDigit == Set({"a", "0", "1", "2"}, <<"[", "%", "d", "a", "]">>)
NoSpace == Set(Range(Alphabet) \ {" "}, <<"%", "S">>)
Word == Set({"a", "b", "d", "f", "s", "w", "z", "A", "D", "S", "W", "Z", "0", "1", "2"}, <<"%", "w">>)
Once(set) == <<"one", set, <<>>>>
Rept(set, suffix) == <<"one", set, <<suffix>>>>
Opens == <<"open">>
Closes == <<"close">>

(* Every sequence of up to three of these, and longer ones that matter.    *)
Common == {Once(A), Once(AToB), Rept(A, "*"), Rept(A, "-"), Rept(Dot, "?"), Rept(B, "+"), Opens, Closes, <<"position">>,
           <<"back", 1>>}
(* Of an open and a close side by side the writing is a position. *)
Patterns(low, high) ==
    {items \in Every(Common, low, high) : \A i \in 2..Len(items) : items[i - 1] = Opens => items[i] # Closes}
Long == {<<Opens, Rept(A, "*"), Closes, <<"back", 1>>, Once(B)>>,
         <<Opens, Rept(AToB, "-"), Closes, Once(B), <<"back", 1>>, <<"end">>>>,
         <<Opens, Rept(A, "-"), Opens, Rept(AToB, "*"), Closes, Closes, Once(B)>>,
         <<Opens, Rept(A, "?"), Closes, Opens, Rept(B, "?"), Closes, <<"back", 2>>, <<"back", 1>>, <<"end">>>>,
         <<Rept(A, "*"), Rept(A, "-"), Rept(A, "?"), Once(B), <<"end">>>>,
         <<<<"balance", "a", "b">>, <<"end">>>>, <<<<"position">>, <<"balance", "a", "b">>, <<"position">>>>,
         <<<<"balance", "a", "a">>>>, <<<<"frontier", InA>>, Rept(A, "+"), <<"frontier", NotA>>>>,
         <<<<"frontier", AToB>>, <<"position">>>>, <<<<"back", 0>>>>}
Classes == {<<Rept(set, "*"), <<"end">>>> : set \in {Dot, NotA, AToB, AOrDash, AOrBracket, AOrDigit, NoSpace, Word}}
Texts == Every({"a", "b"}, 0, 3) \cup {<<"a", "b", "a", "b">>, <<"b", "a", "a", "b", "b">>}
Odd == {<<"a", "-", "1">>, <<"]", "a">>, <<" ", "b">>, <<"1", "Z", " ">>, <<"a", "a", "b", "a", "a">>}

Call(fn, subject, items, anchor) ==
    [fn |-> fn, subject |-> subject, items |-> items, wellFormed |-> TRUE, pattern |-> anchor \o Ref!Written(items), init |-> 1,
     repl |-> <<"function">>, max |-> 9, from |-> 1, to |-> 1]
Repeats == {<<"a", "b", "a", "b">>, <<"b", "a", "a", "b", "b">>}
Finds == {Call("match", s, items, <<>>) : s \in Texts, items \in Patterns(0, 2)}
         \cup {[Call("match", s, items, <<>>) EXCEPT !.init = i] : s \in Repeats, items \in Patterns(0, 2), i \in {2, -1}}
         \cup {Call("match", s, items, <<>>) : s \in {<<"a", "b">>, <<"b", "a", "a">>}, items \in Patterns(3, 3)}
         \cup {Call("find", s, items, a) : s \in Texts \cup Odd, items \in Long \cup Classes, a \in {<<>>, <<"^">>}}
         \cup {[Call("find", s, <<Once(A), Once(B)>>, <<>>) EXCEPT !.init = i] : s \in Texts, i \in -2..5}

Template == <<"string", <<"%", "1", "x", "%", "0", "%", "%", "y">>>>
MCTable == (<<"text", <<"a">>>> :> <<"text", <<"x">>>>) @@ (<<"text", <<"b">>>> :> <<"table">>)
Replacements == {<<"table">>, Template, <<"string", <<"%", "2">>>>, <<"string", <<"x", "%">>>>}
Gsubs == {Call("gsub", s, items, <<>>) : s \in Texts, items \in Patterns(1, 2)}
         \cup {[Call("gsub", s, items, <<>>) EXCEPT !.max = 1] : s \in Repeats, items \in Patterns(1, 2)}
         \cup {Call("gsub", s, items, a) : s \in Repeats \cup Odd, items \in Long \cup Classes, a \in {<<>>, <<"^">>}}
         \cup {[Call("gsub", s, items, <<>>) EXCEPT !.repl = r] :
                  s \in Repeats \cup Odd, items \in Long \cup Classes \cup {<<Rept(AToB, "-")>>}, r \in Replacements}
Gmatches == {Call("gmatch", s, items, <<>>) : s \in Repeats \cup Odd, items \in Patterns(1, 2) \cup Long}
Malformed == {[Call(fn, s, <<>>, <<>>) EXCEPT !.pattern = p, !.wellFormed = FALSE] :
                 fn \in {"match", "gsub"}, s \in Every({"a", "b"}, 0, 2),
                 p \in {<<"a", "%">>, <<"[", "a">>, <<"[", "]">>, <<"[", "^", "]">>, <<"[", "a", "%">>, <<"%", "b", "a">>,
                        <<"%", "f", "a">>, <<"b", "%", "f">>}}
Slices == {[Call(fn, s, <<>>, <<>>) EXCEPT !.from = i, !.to = j] :
              fn \in {"sub", "byte", "rep", "reverse"}, s \in {<<>>, <<"a">>, <<"a", "b", "d">>}, i \in -4..4, j \in -4..4}
Formats == {[Call("format", <<"a", "%">> \o f \o w \o p \o <<c, "%", "%">>, <<>>, <<>>) EXCEPT !.init = 1] :
               f \in Every({"-", "0"}, 0, 2) \cup {<<"-", "+", " ", "#", "0">>, <<"-", "-", "-", "-", "-", "-">>},
               w \in Every({"1"}, 0, 3), p \in {<<>>} \cup {<<".">> \o d : d \in Every({"2"}, 0, 3)}, c \in {"d", "s", "a"}}
MCStringCalls == Finds \cup Gsubs \cup Gmatches \cup Malformed \cup Slices \cup Formats


(* Only the number of the elements matters to a sort that is told lies.    *)
Distinct == <<"a", "b", "d", "f", "s">>
Ranks == [x \in Range(Distinct) |-> CASE x = "a" -> 1 [] x \in {"b", "d"} -> 2 [] OTHER -> 3]
MCSortCalls ==
    {[list |-> SubSeq(Distinct, 1, n), ranks |-> <<>>] : n \in 1..4}
    \cup {[list |-> s, ranks |-> Ranks] : s \in Every({"a", "b", "d"}, 1, 4) \cup Every({"a", "b"}, 5, 6)
                                             \cup Every({"a", "f"}, 8, 8)}
Lists == Every({"a", "b"}, 0, 2) \cup {<<"a", "b", "d">>, <<"d", "b", "b">>}
ListArgs(n) ==
    [insert |-> {<<>>} \cup {<<i>> : i \in 1..(n + 1)}, remove |-> {<<>>} \cup {<<i>> : i \in -1..(n + 1)},
     maxn |-> {<<>>}, concat |-> {<<1>>} \cup {<<i, j>> : i \in 0..2, j \in 0..4}]
ListCall(f, s, x) == [fn |-> f, list |-> s, args |-> x, value |-> "x", removes |-> {}, stops |-> {}]
MCListCalls ==
    UNION {{ListCall(f, s, x) : x \in ListArgs(Len(s))[f]} : s \in Lists, f \in {"insert", "remove", "maxn", "concat"}}
    \cup {[ListCall("foreachi", s, <<>>) EXCEPT !.removes = r, !.stops = t] :
              s \in {t \in Lists : Cardinality({i \in DOMAIN t : t[i] = "a"}) <= 1},
              r \in {{}, {"a"}}, t \in {{}, {"b"}}}

-----------------------------------------------------------------------------
(* What a call has to give. *)

Starts(s) == 1..(Len(s) + 1)
Begun(c) == IF c.init > 0 THEN IF c.init > Len(c.subject) THEN Len(c.subject) + 1 ELSE c.init
            ELSE IF -c.init > Len(c.subject) THEN 1 ELSE IF c.init = 0 THEN 1 ELSE Len(c.subject) + 1 + c.init
IsAnchored(c) == c.pattern # <<>> /\ c.pattern[1] = "^"

Found(c) ==
    LET way[x \in Starts(c.subject)] == Ref!First(c.subject, c.items, x)
        tried == IF IsAnchored(c) THEN {Begun(c)} ELSE {x \in Starts(c.subject) : x >= Begun(c)}
        hits == {x \in tried : way[x].at # 0}
        x == CHOOSE y \in hits : \A z \in hits : y <= z
        values == IF c.fn = "find" THEN <<<<"position", x>>, <<"position", way[x].at - 1>>>> \o Ref!Captures(c.subject, way[x])
                  ELSE Ref!CapturesOrWhole(c.subject, x, way[x])
    IN IF hits = {} THEN [ends |-> "done", out |-> <<>>]
       ELSE IF way[x].at = -1 \/ <<"error">> \in Range(values) THEN [ends |-> "error"]
       ELSE [ends |-> "done", out |-> values]

(* Matches one behind another: each begins at the first place that is not  *)
(* inside or before an earlier one, and an empty one is not taken twice.   *)
RECURSIVE Matches(_, _, _)
Matches(c, x, left) ==
    LET way == Ref!First(c.subject, c.items, x)
        more(y) == IF IsAnchored(c) THEN <<>> ELSE Matches(c, y, IF way.at = 0 THEN left ELSE left - 1)
    IN IF x > Len(c.subject) + 1 \/ left = 0 THEN <<>>
       ELSE IF way.at = 0 THEN more(x + 1)
       ELSE IF way.at = -1 THEN <<[from |-> x, to |-> -1, captures |-> <<<<"error">>>>]>>
       ELSE <<[from |-> x, to |-> way.at, captures |-> Ref!CapturesOrWhole(c.subject, x, way)]>>
            \o more(IF way.at = x THEN x + 1 ELSE way.at)

(* What stands for a match, by the replacement. *)
Template1(c, match) ==
    LET whole == <<"text", SubSeq(c.subject, match.from, match.to - 1)>>
        second == IF Len(match.captures) < 2 THEN <<"error">> ELSE match.captures[2]
    IN CASE c.repl = Template -> <<match.captures[1], <<"text", <<"x">>>>, whole, <<"text", <<"%">>>>, <<"text", <<"y">>>>>>
         [] c.repl[2] = <<"%", "2">> -> <<second>>
         [] c.repl[2] = <<"x", "%">> -> <<<<"text", <<"x">>>>, <<"text", <<"NUL">>>>>>
Replaced(c, match) ==
    LET value == IF match.captures[1] \in DOMAIN MCTable THEN MCTable[match.captures[1]]
                 ELSE <<"text", SubSeq(c.subject, match.from, match.to - 1)>>
    IN CASE c.repl[1] = "function" -> IF <<"error">> \in Range(match.captures) THEN <<<<"error">>>> ELSE <<Last(match.captures)>>
         [] c.repl[1] = "table" -> <<IF match.captures[1] = <<"error">> THEN <<"error">> ELSE value>>
         [] OTHER -> Template1(c, match)
(* The characters outside of the matches stay, in their places. *)
Rebuilt(c, matches) ==
    LET starting(x) == {i \in DOMAIN matches : matches[i].from = x}
        covered(x) == \E i \in DOMAIN matches : matches[i].from <= x /\ x < matches[i].to
        new(x) == IF starting(x) = {} THEN <<>> ELSE Replaced(c, matches[CHOOSE i \in starting(x) : TRUE])
        old(x) == IF x > Len(c.subject) \/ covered(x) THEN <<>> ELSE <<<<"text", <<c.subject[x]>>>>>>
    IN FlattenSeq([x \in Starts(c.subject) |-> new(x) \o old(x)])
(* Texts one behind another are one text. *)
Chars(pieces) == FlattenSeq([i \in DOMAIN pieces |-> IF pieces[i][1] = "text" THEN pieces[i][2] ELSE <<pieces[i]>>])
Bad(pieces) == \E x \in Range(pieces) : x[1] \in {"error", "table"}

Sliced(c) ==
    LET n == Len(c.subject)
        at(i) == IF i < 0 THEN n + 1 + i ELSE i
        picked == SelectSeq([i \in 1..n |-> i], LAMBDA i : at(c.from) <= i /\ i <= at(c.to))
    IN CASE c.fn = "sub" -> [i \in DOMAIN picked |-> c.subject[picked[i]]]
         [] c.fn = "byte" -> [i \in DOMAIN picked |-> MCCode[c.subject[picked[i]]]]
         [] c.fn = "rep" -> IF c.from <= 0 THEN <<>> ELSE [i \in 1..(c.from * n) |-> c.subject[((i - 1) % n) + 1]]
         [] c.fn = "reverse" -> [i \in 1..n |-> c.subject[n + 1 - i]]

FindAgrees(lib, found) == lib.ends = found.ends /\ (lib.ends = "done" => lib.out = found.out)
GmatchAgrees(lib, matches) ==
    IF \E m \in Range(matches) : <<"error">> \in Range(m.captures) THEN lib.ends = "error"
    ELSE lib.ends = "done" /\ lib.out = [i \in DOMAIN matches |-> <<matches[i].from, matches[i].to, matches[i].captures>>]
GsubAgrees(lib, matches, rebuilt) ==
    IF Bad(rebuilt) \/ (\E m \in Range(matches) : m.captures = <<<<"error">>>>) THEN lib.ends = "error"
    ELSE lib.ends = "done" /\ Chars(lib.out) = Chars(rebuilt) /\ lib.n = Len(matches)
(* A malformed pattern is an error when what is wrong with it is reached:   *)
(* at once, or behind a character that the subject has.                    *)
RefusesMalformed(lib) ==
    LET c == lib.call
        lead == Head(c.pattern)
        reached == lead \in {"a", "b"} => lead \in Range(c.subject)
    IN IF reached THEN lib.ends = "error"
       ELSE /\ lib.ends = "done" /\ lib.n = 0
            /\ IF c.fn = "match" THEN lib.out = <<>> ELSE Chars(lib.out) = c.subject
StringAgrees(lib) ==
    LET c == lib.call
    IN CASE ~c.wellFormed -> RefusesMalformed(lib)
         [] c.fn \in {"find", "match"} -> \A found \in {Found(c)} : FindAgrees(lib, found)
         [] c.fn = "gmatch" -> \A matches \in {Matches(c, 1, 99)} : GmatchAgrees(lib, matches)
         [] c.fn = "gsub" -> \A matches \in {Matches(c, 1, c.max)} : GsubAgrees(lib, matches, Rebuilt(c, matches))
         [] c.fn = "format" -> TRUE
         [] OTHER -> lib.ends = "done" /\ lib.out = Sliced(c)

(* What a list is after the call; positions outside of it are left alone. *)
ListAfter(c, seen) ==
    LET n == Len(c.list)
        pos == IF c.args # <<>> THEN c.args[1] ELSE IF c.fn = "insert" THEN n + 1 ELSE n
    IN CASE c.fn = "insert" -> InsertAt(c.list, pos, c.value)
         [] c.fn = "remove" /\ pos \in 1..n -> RemoveAt(c.list, pos)
         [] c.fn = "foreachi" -> SelectSeq(c.list, LAMBDA x : x \notin c.removes \cap Range(seen))
         [] OTHER -> c.list
(* A walk that removes an element does not see the one behind it, but nil  *)
(* at the end.                                                             *)
Walked(c) ==
    LET p == CHOOSE i \in DOMAIN c.list : c.list[i] \in c.removes
        all == IF Range(c.list) \cap c.removes = {} \/ p = Len(c.list) THEN c.list
               ELSE Append(RemoveAt(c.list, p + 1), "nil")
        stops == {i \in DOMAIN all : all[i] \in c.stops}
    IN IF stops = {} THEN all ELSE SubSeq(all, 1, CHOOSE i \in stops : \A j \in stops : i <= j)
Joined(c) ==
    LET last == IF Len(c.args) > 1 THEN c.args[2] ELSE Len(c.list)
        pieces == [i \in 1..(last - c.args[1] + 1) |-> <<c.list[c.args[1] + i - 1], "separator">>]
    IN IF c.args[1] > last THEN <<>> ELSE Front(FlattenSeq(pieces))
ListAgrees(lib) ==
    LET c == lib.call
        inside == c.args[1] >= 1 /\ (Len(c.args) = 1 \/ c.args[2] <= Len(c.list))
    IN CASE c.fn = "concat" /\ ~inside -> lib.ends = "error" \/ c.args[1] > c.args[2]
         [] c.fn = "concat" /\ inside -> lib.ends = "done" /\ lib.seen = Joined(c)
         [] c.fn = "maxn" -> lib.n = Len(c.list)
         [] c.fn = "foreachi" /\ Walked(c) # lib.seen -> FALSE
         [] OTHER -> \A i \in DOMAIN lib.a : lib.a[i] = IF i \in DOMAIN ListAfter(c, lib.seen) THEN ListAfter(c, lib.seen)[i] ELSE "nil"
=============================================================================
