------------------------------- MODULE LuaLexer -------------------------------
(***************************************************************************)
(* The lexical analyzer of the compiler (lualib/llex.c): it cuts a text    *)
(* into tokens, with one token of look-ahead, and counts its lines.        *)
(*                                                                         *)
(* A token is <<kind, characters>>.  A scan is the state of the analyzer:  *)
(* the text and the place in it, the line, and the characters it saved.    *)
(***************************************************************************)
EXTENDS Literals, FiniteSets

CONSTANT Texts      \* the texts that are read: records with a field text

VARIABLE lib        \* the scan, the look-ahead and the tokens that were read

EOZ == "EOZ"
Newlines == {"LF", "CR"}
Digits == Range(Digit)
Letters == {"a", "b", "e", "f", "i", "l", "n", "r", "s", "t", "u", "x", "E", "_"}
Reserved == {<<"i", "f">>, <<"n", "i", "l">>, <<"t", "r", "u", "e">>, <<"f", "a", "l", "s", "e">>}
EOS == <<"eos", <<>>>>
NoToken == <<"none", <<>>>>
Error == <<"error", <<>>>>

Opened(text) == [text |-> text, at |-> 1, line |-> 1, buff |-> <<>>, token |-> NoToken]
Current(S) == IF S.at \in DOMAIN S.text THEN S.text[S.at] ELSE EOZ
Skip(S) == [S EXCEPT !.at = @ + 1]                            \* next
Save(S, c) == [S EXCEPT !.buff = Append(@, c)]
SaveAndNext(S) == Skip(Save(S, Current(S)))
Token(S, kind, chars) == [S EXCEPT !.token = <<kind, chars>>]
LexError(S) == [S EXCEPT !.token = Error]

(* How many characters from the current one on are of a set. *)
Span(S, chars) ==
    CHOOSE n \in 0..(Len(S.text) - S.at + 1) :
        /\ \A k \in 0..(n - 1) : S.text[S.at + k] \in chars
        /\ Current([S EXCEPT !.at = @ + n]) \notin chars
SaveAll(S, chars) ==
    [S EXCEPT !.at = @ + Span(S, chars), !.buff = @ \o SubSeq(S.text, S.at, S.at + Span(S, chars) - 1)]
CheckNext(S, chars) == IF Current(S) \in chars THEN SaveAndNext(S) ELSE S

(* Two different ones in a row end one line. *)
IncLineNumber(S) ==
    LET next == Skip(S)
        second == Current(next) \in Newlines /\ Current(next) # Current(S)
    IN [(IF second THEN Skip(next) ELSE next) EXCEPT !.line = @ + 1]

(* luaO_str2d *)
IsNumeral(s) ==
    LET mantissa(n) == /\ \E i \in 1..n : s[i] \in Digits
                       /\ \A i \in 1..n : s[i] \in Digits \cup {"."}
                       /\ Cardinality({i \in 1..n : s[i] = "."}) <= 1
        signs(n) == IF s[n] \in {"+", "-"} THEN n + 1 ELSE n
        exponent(n) == s[n] \in {"e", "E"} /\ n < Len(s) /\ signs(n + 1) <= Len(s)
                       /\ \A i \in signs(n + 1)..Len(s) : s[i] \in Digits
    IN \/ mantissa(Len(s))
       \/ \E n \in 2..Len(s) : mantissa(n - 1) /\ exponent(n)
       \/ /\ Len(s) > 2 /\ s[1] = "0" /\ s[2] = "x"
          /\ \A i \in 3..Len(s) : s[i] \in Digits \cup {"a", "b", "e", "f", "E"}
ReadNumeral(S) ==
    LET e == CheckNext(SaveAll(S, Digits \cup {"."}), {"E", "e"})
        signed == IF Last(e.buff) \in {"E", "e"} THEN CheckNext(e, {"+", "-"}) ELSE e
        all == SaveAll(signed, Letters \cup Digits)
    IN IF IsNumeral(all.buff) THEN Token(all, "number", all.buff) ELSE LexError(all)

-----------------------------------------------------------------------------
(* Long brackets, of a string or a comment. *)

(* skip_sep: a bracket and what is between it and the next, which makes it *)
(* a long one, of a level, or not; -1 for a bracket alone.                 *)
SkipSep(S) == SaveAll(SaveAndNext(S), {"="})
Sep(S) ==
    LET count == SkipSep(S).at - S.at - 1
    IN IF Current(SkipSep(S)) = Current(S) THEN count ELSE -count - 1

RECURSIVE LongString(_, _, _)
LongString(S, sep, isString) ==
    LET c == Current(S)
        long == c \in {"[", "]"} /\ Sep(S) = sep
        end == SaveAndNext(SkipSep(S))
        newline == IncLineNumber(Save(S, "LF"))
        more(T) == LongString(T, sep, isString)
    IN CASE c = EOZ -> LexError(S)
         [] c = "[" /\ long -> IF sep = 0 THEN LexError(S) ELSE more(end)
         [] c = "]" /\ long ->
                IF isString THEN Token(end, "string", SubSeq(end.buff, 3 + sep, Len(end.buff) - 2 - sep)) ELSE end
         [] c \in {"[", "]"} /\ ~long -> more(SkipSep(S))
         [] c \in Newlines -> more(IF isString THEN newline ELSE [newline EXCEPT !.buff = <<>>])
         [] OTHER -> more(IF isString THEN SaveAndNext(S) ELSE Skip(S))
ReadLongString(S, sep, isString) ==
    LET first == SaveAndNext(S)
    IN LongString(IF Current(first) \in Newlines THEN IncLineNumber(first) ELSE first, sep, isString)

-----------------------------------------------------------------------------
(* Short strings. *)

Value(S, n) ==
    LET digit(k) == (CHOOSE d \in DOMAIN Digit : Digit[d] = S.text[S.at + k]) - 1
    IN FoldLeft(LAMBDA c, k : 10 * c + digit(k), 0, [k \in 1..n |-> k - 1])
CharOf(n) == IF \E c \in DOMAIN Byte : Byte[c] = n THEN CHOOSE c \in DOMAIN Byte : Byte[c] = n ELSE "other"
NameOf(c) == CHOOSE n \in DOMAIN Named : Named[n] = c

(* Mutation: as many digits as there are belong to an escape. *)
EscapeOfAllDigits(S) ==
    LET n == Span(S, Digits)
    IN IF Value(S, n) > 255 THEN LexError(S)
       ELSE [Save(S, CharOf(Value(S, n))) EXCEPT !.at = @ + n]

(* Up to three digits. *)
EscapeOfDigits(S) ==
    LET n == IF Span(S, Digits) > 3 THEN 3 ELSE Span(S, Digits)
    IN IF Value(S, n) > 255 THEN LexError(S)
       ELSE [Save(S, CharOf(Value(S, n))) EXCEPT !.at = @ + n]
(* What stands behind a backslash. *)
Escape(S) ==
    LET c == Current(S)
    IN CASE c \in Range(Named) -> Skip(Save(S, NameOf(c)))
         [] c \in Newlines -> IncLineNumber(Save(S, "LF"))
         [] c = EOZ -> S
         [] c \in Digits -> EscapeOfDigits(S)
         [] OTHER -> SaveAndNext(S)

RECURSIVE ShortString(_, _)
ShortString(S, del) ==
    LET c == Current(S)
    IN CASE S.token = Error -> S
         [] S.token # Error /\ c = del -> Token(Skip(S), "string", Tail(S.buff))
         [] S.token # Error /\ c \in Newlines \cup {EOZ} -> LexError(S)
         [] S.token # Error /\ c = Backslash -> ShortString(Escape(Skip(S)), del)
         [] OTHER -> ShortString(SaveAndNext(S), del)

-----------------------------------------------------------------------------
(* llex *)

RECURSIVE Llex(_)
ShortComment(S) == Llex([S EXCEPT !.at = @ + Span(S, (Range(S.text) \cup {"-"}) \ Newlines)])
Comment(S) ==
    LET long == Current(S) = "[" /\ Sep(S) >= 0
        over == ReadLongString(SkipSep(S), Sep(S), FALSE)
    IN IF long THEN IF over.token = Error THEN over ELSE Llex(over)
       ELSE ShortComment(IF Current(S) = "[" THEN SkipSep(S) ELSE S)
Minus(S) == IF Current(Skip(S)) = "-" THEN Comment(Skip(Skip(S))) ELSE Token(Skip(S), "op", <<"-">>)
Bracket(S) ==
    CASE Sep(S) >= 0 -> ReadLongString(SkipSep(S), Sep(S), TRUE)
      [] Sep(S) = -1 -> Token(SkipSep(S), "op", <<"[">>)
      [] OTHER -> LexError(S)
Comparison(S) ==
    IF Current(Skip(S)) = "=" THEN Token(Skip(Skip(S)), "op", <<Current(S), "=">>)
    ELSE Token(Skip(S), "op", <<Current(S)>>)
Dots(S) ==
    LET dots == CheckNext(CheckNext(SaveAndNext(S), {"."}), {"."})
        two == CheckNext(SaveAndNext(S), {"."})
    IN IF Len(two.buff) = 1 /\ Current(two) \in Digits THEN ReadNumeral(two)
       ELSE IF Len(two.buff) = 1 THEN Token(two, "op", two.buff) ELSE Token(dots, "op", dots.buff)
Name(S) ==
    LET name == SaveAll(S, Letters \cup Digits)
    IN Token(name, IF name.buff \in Reserved THEN "reserved" ELSE "name", name.buff)

Llex(scan) ==
    LET S == [scan EXCEPT !.buff = <<>>, !.token = NoToken]
        c == Current(S)
    IN CASE c \in Newlines -> Llex(IncLineNumber(S))
         [] c \in {" ", "TAB"} -> Llex(Skip(S))
         [] c = "-" -> Minus(S)
         [] c = "[" -> Bracket(S)
         [] c \in {"=", "<", ">", "~"} -> Comparison(S)
         [] c \in {Quote, "'"} -> ShortString(SaveAndNext(S), c)
         [] c = "." -> Dots(S)
         [] c = EOZ -> [S EXCEPT !.token = EOS]
         [] c \in Digits -> ReadNumeral(S)
         [] c \in Letters -> Name(S)
         [] OTHER -> Token(Skip(S), "op", <<c>>)

-----------------------------------------------------------------------------
(* What the parser asks for: the next token, and, behind a name, a look at *)
(* the one after it.                                                       *)

Init == \E text \in Texts :
    lib = [part |-> "lexer", call |-> text, scan |-> Opened(text.text), ahead |-> NoToken,
           read |-> <<>>, ends |-> "runs"]

Reading == lib.part = "lexer" /\ lib.ends = "runs"
Ends(token) == CASE token = Error -> "error" [] token = EOS -> "done" [] OTHER -> "runs"
Read(token, scan) ==
    lib' = [lib EXCEPT !.scan = scan, !.ahead = NoToken, !.ends = Ends(token),
                       !.read = Append(@, [token |-> token, lastline |-> lib.scan.line, line |-> scan.line])]
Next0 == Reading /\ \E scan \in {Llex(lib.scan)} : lib.ahead = NoToken /\ Read(scan.token, scan)
NextAhead == Reading /\ lib.ahead # NoToken /\ Read(lib.ahead, lib.scan)
LookAhead ==
    /\ Reading /\ lib.ahead = NoToken
    /\ lib.read # <<>> /\ Last(lib.read).token[1] = "name"
    /\ \E scan \in {Llex(lib.scan)} : lib' = [lib EXCEPT !.scan = scan, !.ahead = scan.token,
                                                         !.ends = IF scan.token = Error THEN "error" ELSE "runs"]
Next == Next0 \/ NextAhead \/ LookAhead
===============================================================================
