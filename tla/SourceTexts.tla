----------------------------- MODULE SourceTexts -----------------------------
(***************************************************************************)
(* The texts that the lexical analyzer is given, each with the tokens it   *)
(* was written from and the lines they end in.                             *)
(***************************************************************************)
EXTENDS Literals, FiniteSets

(* What a text is made of: characters, tokens, and how many line ends. *)
Piece(text, tokens, lines) == [text |-> text, tokens |-> tokens, lines |-> lines]
Written1(kind, chars) == Piece(chars, <<<<kind, chars>>>>, 0)
Str(text, chars, lines) == Piece(text, <<<<"string", chars>>>>, lines)
Layout(text, lines) == Piece(text, <<>>, lines)

Q == Quote
Tokens ==
    {Written1("name", s) : s \in {<<"a">>, <<"i">>, <<"i", "f", "1">>, <<"_", "n">>}}
    \cup {Written1("reserved", s) : s \in {<<"i", "f">>, <<"n", "i", "l">>}}
    \cup {Written1("op", s) : s \in {<<"=">>, <<"=", "=">>, <<"<">>, <<"<", "=">>, <<"~", "=">>, <<".">>, <<".", ".">>,
                                     <<".", ".", ".">>, <<"[">>, <<"]">>, <<"-">>, <<"+">>}}
    \cup {Written1("number", s) : s \in {<<"1">>, <<"1", ".", "2">>, <<".", "1">>, <<"1", "e", "-", "2">>, <<"0", "x", "a">>, <<"3", ".">>}}
    \cup {Str(<<"'", "a", Q, "'">>, <<"a", Q>>, 0), Str(<<Q, "a", Backslash, "LF", "b", Q>>, <<"a", "LF", "b">>, 1),
          Str(<<Q, Backslash, "6", Backslash, "0", "3", "1", Q>>, <<"other", "C3">>, 0), Str(<<Q, Q>>, <<>>, 0),
          Str(<<"[", "[", "a", "]", "b", "]", "]">>, <<"a", "]", "b">>, 0), Str(<<"[", "[", "CR", "LF", "a", "LF", "LF", "]", "]">>, <<"a", "LF", "LF">>, 3),
          Str(<<"[", "=", "[", "]", "]", "CR", "LF", "]", "=", "]">>, <<"]", "]", "LF">>, 1),
          Str(<<"[", "=", "[", "[", "[", Backslash, "]", "=", "]">>, <<"[", "[", Backslash>>, 0)}
Layouts ==
    {Layout(<<" ">>, 0), Layout(<<"LF">>, 1), Layout(<<"CR", "LF">>, 1), Layout(<<"LF", "LF", "TAB">>, 2),
     Layout(<<" ", "-", "-", "a", "[", "CR">>, 1), Layout(<<" ", "-", "-", "[", "=", Q, "LF">>, 1),
     Layout(<<" ", "-", "-", "[", "[", "LF", "a", "]", "LF", "CR", "]", "]">>, 2),
     Layout(<<" ", "-", "-", "[", "=", "[", "]", "]", "-", "-", "]", "=", "]">>, 0)}
Hides == Layout(<<" ", "-", "-">>, 0)

Lines(pieces) == FoldLeft(LAMBDA n, p : n + p.lines, 0, pieces)
(* A text of pieces, of which each token ends in the line behind those     *)
(* before it; a comment without an end hides the rest.                     *)
TextOf(pieces) ==
    LET with == {i \in DOMAIN pieces : pieces[i].tokens # <<>>}
        line(i) == 1 + Lines(SubSeq(pieces, 1, i))
    IN [text |-> FlattenSeq([i \in DOMAIN pieces |-> pieces[i].text]),
        tokens |-> FlattenSeq([i \in DOMAIN pieces |-> pieces[i].tokens]),
        lines |-> FlattenSeq([i \in DOMAIN pieces |-> IF i \in with THEN <<line(i)>> ELSE <<>>]),
        read |-> "as written"]

(* Side by side some tokens are others. *)
Seconds == {Written1("name", <<"a">>), Written1("op", <<".", ".">>), Written1("number", <<"1", ".", "2">>),
            Str(<<"[", "[", "CR", "LF", "a", "LF", "LF", "]", "]">>, <<"a", "LF", "LF">>, 3)}
Space == Layout(<<" ">>, 0)
Laid == {TextOf(<<x, l, y>>) : x \in Tokens, l \in Layouts, y \in Seconds}
        \cup {TextOf(<<l, x, Space, k>>) : l \in Layouts, x \in Seconds, k \in Layouts \cup {Hides}}

(* Strings as the tool writes them.  One that has a control character with *)
(* a short number and a digit behind it is read as another.                *)
Chars == {"a", "n", "1", Q, Backslash, "LF", "C1", "C3", "HIGH"}
Strings == UNION {[1..n -> Chars] : n \in 0..3}
IsAmbiguous(s) == \E i \in 2..Len(s) : s[i] \in Range(Digit) /\ s[i - 1] \in {"C1", "C2", "C3", "SO"}
MinusToken == <<"op", <<"-">>>>
Constants ==
    {[text |-> DecriptString(s), tokens |-> <<<<"string", s>>>>, lines |-> <<1>>, read |-> "as written"] :
        s \in {t \in Strings : ~IsAmbiguous(t)} \cup {<<c>> : c \in DOMAIN Byte}}
    \cup {[text |-> DecriptConstant(k), tokens |-> <<<<"reserved", DecriptConstant(k)>>>>, lines |-> <<1>>, read |-> "as written"] :
             k \in {<<"nil">>, <<"bool", TRUE>>, <<"bool", FALSE>>}}
    \cup {[text |-> DecriptConstant(<<"num", n>>), lines |-> [i \in 1..(IF n < 0 THEN 2 ELSE 1) |-> 1], read |-> "as written",
           tokens |-> IF n < 0 THEN <<MinusToken, <<"number", DecriptConstant(<<"num", -n>>)>>>>
                      ELSE <<<<"number", DecriptConstant(<<"num", n>>)>>>>] : n \in {-12, -1, 0, 9, 10, 205}}

Refused ==
    {[text |-> t, tokens |-> <<>>, lines |-> <<>>, read |-> "never"] :
        t \in {<<Q, "a">>, <<Q, "a", "LF", Q>>, <<Q, Backslash>>, <<Q, Backslash, "3", "0", "0", Q>>, <<"[", "[", "a", "]">>,
               <<"[", "=", "a">>, <<"[", "[", "[", "[", "]", "]", "]", "]">>, <<"-", "-", "[", "[">>, <<"1", ".", "2", ".">>,
               <<"1", "e">>, <<"1", "a">>, <<"0", "x">>, <<"[", "=", "[", "]", "]">>}
             \cup {DecriptString(s) : s \in {<<"C3", "9">>}}}
Ambiguous ==
    {[text |-> DecriptString(s), tokens |-> <<<<"string", s>>>>, lines |-> <<1>>, read |-> "otherwise"] :
        s \in {t \in Strings : IsAmbiguous(t)}}
MCTexts == Laid \cup Constants \cup Refused \cup Ambiguous

(* What has to be read of a text, as far as it was: its tokens with their  *)
(* lines, and then the end of it, or an error.  The line before a token is *)
(* that of the last one, or its own when it was looked at ahead.           *)
ReadsText(lib) ==
    LET call == lib.call
        tokens == Append(call.tokens, <<"eos", <<>>>>)
    IN CASE call.read = "never" -> lib.ends # "done"
         [] call.read = "otherwise" -> lib.ends = "done" => lib.read[1].token # tokens[1]
         [] OTHER ->
            /\ lib.ends # "error" /\ Len(lib.read) <= Len(tokens)
            /\ \A i \in DOMAIN lib.read :
                  /\ lib.read[i].token = tokens[i]
                  /\ i \in DOMAIN call.lines => lib.read[i].line = call.lines[i]
                  /\ i > 1 => \/ lib.read[i].lastline = call.lines[i - 1]
                              \/ tokens[i - 1][1] = "name" /\ lib.read[i].lastline = lib.read[i].line
            /\ lib.ends = "done" => Len(lib.read) = Len(tokens)
===============================================================================
