------------------------------ MODULE LuaPattern ------------------------------
(***************************************************************************)
(* The string library of the machine (lualib/lstrlib.c): the matcher of    *)
(* patterns with its captures, the loops of find, match, gmatch and gsub   *)
(* around it, the slices, and the buffers of format.                       *)
(*                                                                         *)
(* A string is the sequence of its characters; NUL is what stands behind   *)
(* its end.  A call is a record, and an iteration of its loop a step.      *)
(***************************************************************************)
EXTENDS Integers, Sequences, FiniteSets, SequencesExt

CONSTANTS
    Code,          \* [characters -> Nat], their order
    MaxCaptures,   \* LUA_MAXCAPTURES
    Replacement,   \* the table that gsub may be given
    StringCalls    \* the calls: [fn, subject, pattern, init, repl, ...]

VARIABLE lib       \* the call, the state of its loop, and its outcome

NUL == "NUL"
At(str, i) == IF i \in DOMAIN str THEN str[i] ELSE NUL

-----------------------------------------------------------------------------
(* Classes of characters. *)

Digits == {"0", "1", "2"}
Lower == {"a", "b", "d", "f", "s", "w", "z"}
UpperOf == [A |-> "a", D |-> "d", S |-> "s", W |-> "w", Z |-> "z"]
Letters == Lower \cup DOMAIN UpperOf
LowerOf(c) == IF c \in DOMAIN UpperOf THEN UpperOf[c] ELSE c

Class(cl) ==
    CASE cl = "a" -> Letters
      [] cl = "d" -> Digits
      [] cl = "s" -> {" "}
      [] cl = "w" -> Letters \cup Digits
      [] cl = "z" -> {NUL}
InClass(c, cl) ==
    IF LowerOf(cl) \in {"a", "d", "s", "w", "z"} THEN (c \in Class(LowerOf(cl))) = (cl \in Lower)
    ELSE c = cl

(* Where the item ends that begins at p; 0 for one that never ends. *)
RECURSIVE BracketEnd(_, _)
BracketEnd(pat, p) ==
    LET next == IF At(pat, p) = "%" /\ At(pat, p + 1) # NUL THEN p + 2 ELSE p + 1
    IN IF At(pat, p) = NUL THEN 0
       ELSE IF At(pat, next) = "]" THEN next + 1
       ELSE BracketEnd(pat, next)
ClassEnd(pat, p) ==
    CASE At(pat, p) = "%" -> IF At(pat, p + 1) = NUL THEN 0 ELSE p + 2
      [] At(pat, p) = "[" -> BracketEnd(pat, IF At(pat, p + 1) = "^" THEN p + 2 ELSE p + 1)
      [] OTHER -> p + 1

(* A set from p, whose bracket closes at ec. *)
RECURSIVE InBracket(_, _, _, _)
InBracket(c, pat, p, ec) ==
    /\ p < ec
    /\ CASE pat[p] = "%" -> InClass(c, pat[p + 1]) \/ InBracket(c, pat, p + 2, ec)
         [] pat[p] # "%" /\ At(pat, p + 1) = "-" /\ p + 2 < ec ->
                Code[c] \in Code[pat[p]]..Code[pat[p + 2]] \/ InBracket(c, pat, p + 3, ec)
         [] OTHER -> pat[p] = c \/ InBracket(c, pat, p + 1, ec)
MatchBracketClass(c, pat, p, ec) ==
    IF At(pat, p + 1) = "^" THEN ~InBracket(c, pat, p + 2, ec) ELSE InBracket(c, pat, p + 1, ec)

SingleMatch(c, pat, p, ep) ==
    CASE pat[p] = "." -> TRUE
      [] pat[p] = "%" -> InClass(c, pat[p + 1])
      [] pat[p] = "[" -> MatchBracketClass(c, pat, p, ep - 1)
      [] OTHER -> pat[p] = c

-----------------------------------------------------------------------------
(* The matcher.  M has the subject, the pattern and the captures, which it *)
(* changes as it goes and takes back when it fails; at is the end of the   *)
(* match, 0 for none and -1 for an error.                                  *)

Unfinished == -1
PositionCapture == -2
Fail(M) == [M EXCEPT !.at = 0]
Error(M) == [M EXCEPT !.at = -1]

CaptureToClose(M) ==
    LET unfinished == {l \in DOMAIN M.captures : M.captures[l].len = Unfinished}
    IN IF unfinished = {} THEN 0 ELSE CHOOSE l \in unfinished : \A k \in unfinished : k <= l

MatchBalance(M, s, p) ==
    LET b == At(M.pat, p)
        e == At(M.pat, p + 1)
        step(x) == IF x = e THEN -1 ELSE IF x = b THEN 1 ELSE 0
        cont[i \in s..Len(M.subject)] == IF i = s THEN 1 ELSE cont[i - 1] + step(M.subject[i])
        closing == {i \in (s + 1)..Len(M.subject) : cont[i] = 0}
    IN IF NUL \in {b, e} THEN Error(M)
       ELSE IF At(M.subject, s) # b \/ closing = {} THEN Fail(M)
       ELSE [M EXCEPT !.at = (CHOOSE i \in closing : \A j \in closing : i <= j) + 1]

MatchCapture(M, s, l) ==
    LET capture == M.captures[l]
        text == SubSeq(M.subject, capture.init, capture.init + capture.len - 1)
    IN IF l \notin DOMAIN M.captures THEN Error(M)
       ELSE IF capture.len = Unfinished THEN Error(M)
       \* the length of a position capture is no size_t a subject reaches
       ELSE IF capture.len = PositionCapture THEN Fail(M)
       ELSE IF Len(M.subject) - s + 1 >= capture.len /\ SubSeq(M.subject, s, s + capture.len - 1) = text
       THEN [M EXCEPT !.at = s + capture.len]
       ELSE Fail(M)

RECURSIVE Match(_, _, _)
(* The repetitions that match are given up one by one. *)
RECURSIVE GiveUp(_, _, _, _)
GiveUp(M, s, i, ep) ==
    LET res == Match(M, s + i, ep + 1)
    IN IF res.at # 0 \/ i = 0 THEN res ELSE GiveUp(res, s, i - 1, ep)
MaxExpand(M, s, p, ep) ==
    LET counts == {n \in 0..(Len(M.subject) + 1 - s) :
                      \A j \in 0..(n - 1) : SingleMatch(M.subject[s + j], M.pat, p, ep)}
    IN GiveUp(M, s, CHOOSE n \in counts : \A k \in counts : k <= n, ep)

RECURSIVE MinExpand(_, _, _, _)
MinExpand(M, s, p, ep) ==
    LET res == Match(M, s, ep + 1)
    IN IF res.at # 0 THEN res
       ELSE IF s <= Len(M.subject) /\ SingleMatch(At(M.subject, s), M.pat, p, ep) THEN MinExpand(res, s + 1, p, ep)
       ELSE res

StartCapture(M, s, p, what) ==
    LET res == Match([M EXCEPT !.captures = Append(@, [init |-> s, len |-> what])], s, p)
    IN IF Len(M.captures) >= MaxCaptures THEN Error(M)
       ELSE IF res.at = 0 THEN [res EXCEPT !.captures = Front(@)] ELSE res

(* Mutation: a capture stays closed when what follows does not match. *)
EndCaptureStaysClosed(M, s, p) ==
    LET l == CaptureToClose(M)
    IN IF l = 0 THEN Error(M)
       ELSE Match([M EXCEPT !.captures[l].len = s - M.captures[l].init], s, p)

EndCapture(M, s, p) ==
    LET l == CaptureToClose(M)
        res == Match([M EXCEPT !.captures[l].len = s - M.captures[l].init], s, p)
    IN IF l = 0 THEN Error(M)
       ELSE IF res.at = 0 THEN [res EXCEPT !.captures[l].len = Unfinished] ELSE res

Frontier(M, s, p) ==
    LET ep == ClassEnd(M.pat, p)
    IN IF At(M.pat, p) # "[" \/ ep = 0 THEN Error(M)
       ELSE IF \/ MatchBracketClass(At(M.subject, s - 1), M.pat, p, ep - 1)
               \/ ~MatchBracketClass(At(M.subject, s), M.pat, p, ep - 1) THEN Fail(M)
       ELSE Match(M, s, ep)

(* An item and what stands behind it. *)
MatchItem(M, s, p) ==
    LET ep == ClassEnd(M.pat, p)
        m == s <= Len(M.subject) /\ SingleMatch(At(M.subject, s), M.pat, p, ep)
        with == Match(M, s + 1, ep + 1)
        suffix == At(M.pat, ep)
    IN IF ep = 0 THEN Error(M)
       ELSE CASE suffix = "?" -> IF m /\ with.at # 0 THEN with
                                 ELSE Match(IF m THEN with ELSE M, s, ep + 1)
              [] suffix = "*" -> MaxExpand(M, s, p, ep)
              [] suffix = "+" -> IF m THEN MaxExpand(M, s + 1, p, ep) ELSE Fail(M)
              [] suffix = "-" -> MinExpand(M, s, p, ep)
              [] OTHER -> IF m THEN Match(M, s + 1, ep) ELSE Fail(M)

Match(M, s, p) ==
    LET c == At(M.pat, p)
        d == At(M.pat, p + 1)
        to == IF d = "b" THEN MatchBalance(M, s, p + 2)
              ELSE MatchCapture(M, s, Code[d] - Code["0"])
    IN CASE c = "(" -> IF d = ")" THEN StartCapture(M, s, p + 2, PositionCapture)
                       ELSE StartCapture(M, s, p + 1, Unfinished)
         [] c = ")" -> EndCapture(M, s, p + 1)
         [] c = "%" /\ d \in Digits \cup {"b"} ->
                IF to.at <= 0 THEN to ELSE Match(M, to.at, IF d = "b" THEN p + 4 ELSE p + 2)
         [] c = "%" /\ d = "f" -> Frontier(M, s, p + 2)
         [] c = NUL -> [M EXCEPT !.at = s]
         [] c = "$" /\ d = NUL -> IF s = Len(M.subject) + 1 THEN [M EXCEPT !.at = s] ELSE Fail(M)
         [] OTHER -> MatchItem(M, s, p)

(* One attempt, from the position s of the subject. *)
Attempt(subject, pat, p, s) == Match([subject |-> subject, pat |-> pat, captures |-> <<>>, at |-> 0], s, p)

-----------------------------------------------------------------------------
(* What the captures give. *)

Piece(str, from, to) == <<"text", SubSeq(str, from, to)>>
Invalid == <<"error">>

PushOneCapture(M, i, s, e) ==
    IF i > Len(M.captures) THEN IF i = 1 THEN Piece(M.subject, s, e - 1) ELSE Invalid
    ELSE LET capture == M.captures[i]
         IN CASE capture.len = Unfinished -> Invalid
              [] capture.len = PositionCapture -> <<"position", capture.init>>
              [] OTHER -> Piece(M.subject, capture.init, capture.init + capture.len - 1)

PushCaptures(M, s, e) ==
    LET nlevels == IF M.captures = <<>> /\ s # 0 THEN 1 ELSE Len(M.captures)
    IN [i \in 1..nlevels |-> PushOneCapture(M, i, s, e)]
-----------------------------------------------------------------------------
(* The calls. *)

Specials == {"^", "$", "*", "+", "?", ".", "(", "[", "%", "-"}
PosRelat(pos, len) == LET p == IF pos < 0 THEN pos + len + 1 ELSE pos IN IF p >= 0 THEN p ELSE 0
AtLeast(x, low) == IF x < low THEN low ELSE x
AtMost(x, high) == IF x > high THEN high ELSE x

Anchored(call) == call.fn # "gmatch" /\ At(call.pattern, 1) = "^"
PatternStart(call) == IF Anchored(call) THEN 2 ELSE 1
FirstAttempt(call) ==
    IF call.fn \in {"find", "match"}
    THEN AtMost(AtLeast(PosRelat(call.init, Len(call.subject)) - 1, 0), Len(call.subject)) + 1
    ELSE 1

Running(fns) == lib.part = "string" /\ lib.ends = "runs" /\ lib.call.fn \in fns
Tried == Attempt(lib.call.subject, lib.call.pattern, PatternStart(lib.call), lib.at)
Throw == lib' = [lib EXCEPT !.ends = "error"]
Return(values) == lib' = [lib EXCEPT !.ends = "done", !.out = values]

Between(s, e) == <<<<"position", s>>, <<"position", e - 1>>>>
(* lmemfind: memchr for the first character of p as long as the rest may   *)
(* fit behind it, memcmp for the rest, and on from the next.               *)
RECURSIVE MemFind(_, _, _)
MemFind(subject, s, p) ==
    LET found == {i \in s..(Len(subject) - Len(p) + 1) : subject[i] = Head(p)}
        init == CHOOSE i \in found : \A j \in found : i <= j
    IN IF p = <<>> THEN s
       ELSE IF found = {} THEN 0
       ELSE IF SubSeq(subject, init + 1, init + Len(p) - 1) = Tail(p) THEN init
       ELSE MemFind(subject, init + 1, p)

FindPlain ==
    /\ Running({"find"})
    /\ Range(lib.call.pattern) \cap Specials = {}
    /\ LET at == MemFind(lib.call.subject, lib.at, lib.call.pattern)
       IN Return(IF at = 0 THEN <<>> ELSE Between(at, at + Len(lib.call.pattern)))

FindTry ==
    /\ Running({"find", "match"})
    /\ lib.call.fn = "find" => Range(lib.call.pattern) \cap Specials # {}
    /\ \E M \in {Tried} :
       LET whole == lib.call.fn = "match"
           captures == PushCaptures(M, IF whole THEN lib.at ELSE 0, IF whole THEN M.at ELSE 0)
       IN CASE M.at = -1 -> Throw
            [] M.at > 0 -> IF Invalid \in Range(captures) THEN Throw
                           ELSE Return(IF whole THEN captures ELSE Between(lib.at, M.at) \o captures)
            [] lib.at <= Len(lib.call.subject) /\ ~Anchored(lib.call) -> lib' = [lib EXCEPT !.at = @ + 1]
            [] OTHER -> Return(<<>>)

(* The iterator looks from one position after another until something      *)
(* matches; the next call begins behind that, one further if it was empty. *)
GmatchEnd ==
    /\ Running({"gmatch"}) /\ lib.at > Len(lib.call.subject) + 1
    /\ Return(lib.out)
GmatchTry ==
    /\ Running({"gmatch"}) /\ lib.at <= Len(lib.call.subject) + 1
    /\ \E M \in {Tried} :
       LET captures == PushCaptures(M, lib.at, M.at)
           newstart == IF M.at = lib.at THEN M.at + 1 ELSE M.at
       IN CASE M.at = -1 -> Throw
            [] M.at > 0 /\ Invalid \in Range(captures) -> Throw
            [] M.at > 0 -> lib' = [lib EXCEPT !.at = newstart, !.out = Append(@, <<lib.at, M.at, captures>>)]
            [] OTHER -> lib' = [lib EXCEPT !.at = @ + 1]

Replacable(value) == value[1] \in {"text", "position"}
(* What a replacement adds for a match: add_value, and add_s for a string, *)
(* where an escape at the very end adds the zero behind the string.        *)
RECURSIVE AddS(_, _, _, _)
AddS(M, news, i, from) ==
    LET c == At(news, i + 1)
        capture == CASE c \notin Digits -> <<"text", <<c>>>>
                     [] c = "0" -> Piece(M.subject, from, M.at - 1)
                     [] OTHER -> PushOneCapture(M, Code[c] - Code["0"], from, M.at)
    IN IF i > Len(news) THEN <<>>
       ELSE IF news[i] # "%" THEN <<<<"text", <<news[i]>>>>>> \o AddS(M, news, i + 1, from)
       ELSE <<capture>> \o AddS(M, news, i + 2, from)
AddValue(M, repl, from) ==
    LET key == PushOneCapture(M, 1, from, M.at)
        value == IF repl[1] = "table" /\ key \in DOMAIN Replacement THEN Replacement[key] ELSE <<"nil">>
        captures == PushCaptures(M, from, M.at)
        result == CASE repl[1] = "table" -> IF key = Invalid THEN Invalid ELSE value
                    [] repl[1] = "function" -> IF Invalid \in Range(captures) THEN Invalid ELSE Last(captures)
    IN CASE repl[1] = "string" -> AddS(M, repl[2], 1, from)
         [] result = <<"nil">> -> <<Piece(M.subject, from, M.at - 1)>>
         [] OTHER -> <<result>>

GsubTry ==
    /\ Running({"gsub"}) /\ ~lib.last /\ lib.n < lib.call.max
    /\ \E M \in {Tried} :
       LET added == IF M.at > 0 THEN AddValue(M, lib.call.repl, lib.at) ELSE <<>>
           skips == M.at <= lib.at /\ lib.at <= Len(lib.call.subject)
           kept == IF skips THEN <<<<"text", <<lib.call.subject[lib.at]>>>>>> ELSE <<>>
       IN IF M.at = -1 \/ ~(\A x \in Range(added) : Replacable(x)) THEN Throw
          ELSE lib' = [lib EXCEPT !.n = IF M.at > 0 THEN @ + 1 ELSE @,
                                  !.out = @ \o added \o kept,
                                  !.at = IF M.at > lib.at THEN M.at ELSE IF skips THEN @ + 1 ELSE @,
                                  !.last = (M.at <= lib.at /\ ~skips) \/ Anchored(lib.call)]
GsubEnd ==
    /\ Running({"gsub"}) /\ (lib.last \/ lib.n >= lib.call.max)
    /\ Return(Append(lib.out, Piece(lib.call.subject, lib.at, Len(lib.call.subject))))

(* Slices: from and to may count from the end, or leave the string. *)
Sub(s, from, to) ==
    LET start == AtLeast(PosRelat(from, Len(s)), 1)
        end == AtMost(PosRelat(to, Len(s)), Len(s))
    IN IF start <= end THEN SubSeq(s, start, end) ELSE <<>>
Byte(s, from, to) ==
    LET posi == AtLeast(PosRelat(from, Len(s)), 1)
        pose == AtMost(PosRelat(to, Len(s)), Len(s))
    IN IF posi > pose THEN <<>> ELSE [i \in 1..(pose - posi + 1) |-> Code[s[posi + i - 1]]]
Rep(s, n) == FlattenSeq([i \in 1..AtLeast(n, 0) |-> s])
Slice ==
    /\ Running({"sub", "byte", "rep", "reverse"})
    /\ LET c == lib.call
       IN Return(CASE c.fn = "sub" -> Sub(c.subject, c.from, c.to)
                   [] c.fn = "byte" -> Byte(c.subject, c.from, c.to)
                   [] c.fn = "rep" -> Rep(c.subject, c.from)
                   [] c.fn = "reverse" -> Reverse(c.subject))

-----------------------------------------------------------------------------
(* The items of format: flags, width, precision and the option are copied  *)
(* to a buffer of fixed size, with a length modifier for integers.         *)

Flags == {"-", "+", " ", "#", "0"}
Span(s, p, chars) ==
    LET runs == {n \in 0..(Len(s) - p + 1) : \A j \in 0..(n - 1) : s[p + j] \in chars}
    IN CHOOSE n \in runs : \A k \in runs : k <= n
TwoDigits(s, p) == AtMost(Span(s, p, Digits), 2)
(* Where the option stands of the item from p; 0 if the item is refused. *)
ScanFormat(s, p) ==
    LET width == p + Span(s, p, Flags)
        dot == width + TwoDigits(s, width)
        option == IF At(s, dot) = "." THEN dot + 1 + TwoDigits(s, dot + 1) ELSE dot
    IN IF width - p > Cardinality(Flags) \/ At(s, option) \in Digits THEN 0 ELSE option

IntLen == 2        \* the bytes of LUA_INTFRMLEN, "l" with its zero
MaxForm == (Cardinality(Flags) + 1) + IntLen + 10
FormLength(s, p, option) ==
    1 + (option - p + 1) + 1 + (IF s[option] = "d" THEN IntLen - 1 ELSE 0)

FormatItem ==
    /\ Running({"format"})
    /\ LET s == lib.call.subject
           p == lib.at + 1
           option == ScanFormat(s, p)
       IN CASE lib.at > Len(s) -> Return(lib.out)
            [] s[lib.at] # "%" -> lib' = [lib EXCEPT !.at = @ + 1]
            [] At(s, p) = "%" -> lib' = [lib EXCEPT !.at = p + 1]
            [] option = 0 \/ At(s, option) \notin {"d", "s"} -> Throw
            [] OTHER -> lib' = [lib EXCEPT !.at = option + 1, !.out = Append(@, FormLength(s, p, option))]

-----------------------------------------------------------------------------
Init ==
    \E call \in StringCalls :
        lib = [part |-> "string", call |-> call, at |-> FirstAttempt(call), n |-> 0, last |-> FALSE,
               out |-> <<>>, ends |-> "runs"]
Next == FindPlain \/ FindTry \/ GmatchTry \/ GmatchEnd \/ GsubTry \/ GsubEnd \/ Slice \/ FormatItem

(* An item of format never leaves the buffer it is copied to (MAX_FORMAT). *)
FormatFits == lib.part = "string" /\ lib.call.fn = "format" => \A n \in Range(lib.out) : n <= MaxForm
=============================================================================
