---------------------------- MODULE ManilaFiles ----------------------------
(***************************************************************************)
(* Files as the tool sees them (ML_CommonLib/ManilaFile.cpp) and compiled  *)
(* scripts embedded in a container (m9extract, LuaTool/runMultiDec.cpp).   *)
(*                                                                         *)
(* The characters of a file are a sequence of tokens; a signature is one   *)
(* token, "end" both the signature of a container and the four characters  *)
(* that end a script in it.                                                *)
(***************************************************************************)
EXTENDS Integers, Sequences, SequencesExt

CONSTANTS
    FirstCharacters,   \* 50, how much of a file tells its type
    BarGap             \* 19, where behind the end of a script its bar is

Missing == <<>>        \* what is read of a file that does not exist

(* getFirstN *)
FirstN(text) == SubSeq(text, 1, IF Len(text) < FirstCharacters THEN Len(text) ELSE FirstCharacters)

(* detectManilaType: the first type whose signature is found. *)
Signatures == <<<<"luac", "LUAC">>, <<"xml", "LOC_XML">>, <<"qtc", "QTC">>, <<"end", "MODE9_BIN">>,
                <<"luadec", "LUA">>, <<"mode9", "MODE9_XML">>>>
ManilaType(text) ==
    LET found == SelectSeq(Signatures, LAMBDA s : Contains(FirstN(text), s[1]))
    IN IF found = <<>> THEN "INVALID" ELSE Head(found)[2]

-----------------------------------------------------------------------------
(* str.find(token, at); behind the last token there is nothing to find.    *)
NotFound == 0
Find(text, token, at) ==
    LET places == {n \in at..Len(text) : text[n] = token}
    IN IF places = {} THEN NotFound ELSE CHOOSE n \in places : \A k \in places : n <= k

(* An end without a bar behind it belongs to the script. *)
RECURSIVE EndOf(_, _)
EndOf(text, at) ==
    CASE at = NotFound -> Len(text)
      [] at # NotFound /\ at + BarGap <= Len(text) /\ text[at + BarGap] # "|" ->
             EndOf(text, Find(text, "end", at + BarGap))
      [] OTHER -> at

(* The tokens 0 CR LF of a container were 0 LF in the script. *)
RECURSIVE WithoutReturns(_)
WithoutReturns(text) ==
    LET is(n) == text[n] = "0" /\ text[n + 1] = "CR" /\ text[n + 2] = "LF"
        places == {n \in 1..(Len(text) - 2) : is(n)}
        first == CHOOSE n \in places : \A k \in places : n <= k
    IN IF places = {} THEN text ELSE WithoutReturns(RemoveAt(text, first + 1))

(* Mutation: the next script is looked for behind the first end of the one *)
(* before.                                                                 *)
RECURSIVE ExtractToFirstEnd(_, _)
ExtractToFirstEnd(text, from) ==
    LET start == Find(text, "luac", from)
        end == Find(text, "end", start)
    IN IF start = NotFound \/ end = NotFound THEN <<>>
       ELSE <<WithoutReturns(SubSeq(text, start, end - 1))>> \o ExtractToFirstEnd(text, end)

(* m9extract: the scripts of a container, from a place of it on. *)
RECURSIVE ExtractFrom(_, _)
ExtractFrom(text, from) ==
    LET start == Find(text, "luac", from)
        first == Find(text, "end", start)
        end == EndOf(text, first)
    IN IF start = NotFound \/ first = NotFound THEN <<>>
       ELSE <<WithoutReturns(SubSeq(text, start, end - 1))>> \o ExtractFrom(text, end)
=============================================================================
