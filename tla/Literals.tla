------------------------------- MODULE Literals -------------------------------
(***************************************************************************)
(* How the tool writes a constant into a text (DecriptConstant and         *)
(* DecriptString of LuaDec/RegisterFile.cpp).                              *)
(*                                                                         *)
(* A text is a sequence of characters.  Letters and signs are themselves,  *)
(* the control characters what they are called, C1 to C3 and SO those      *)
(* without an escape of their own, and HIGH a byte above the ASCII ones.                              *)
(***************************************************************************)
EXTENDS Integers, Sequences, SequencesExt

Byte == [NUL |-> 0, C1 |-> 1, C2 |-> 2, SO |-> 14, C3 |-> 31, BELL |-> 7, BS |-> 8, TAB |-> 9, LF |-> 10,
         VT |-> 11, FF |-> 12, CR |-> 13, HIGH |-> 200]
Quote == "\""
Backslash == "\\"
Named == [BELL |-> "a", BS |-> "b", TAB |-> "t", LF |-> "n", VT |-> "v", FF |-> "f", CR |-> "r"]
Digit == <<"0", "1", "2", "3", "4", "5", "6", "7", "8", "9">>

(* sprintf of "%d" *)
RECURSIVE Decimal(_)
Decimal(n) == (IF n < 10 THEN <<>> ELSE Decimal(n \div 10)) \o <<Digit[(n % 10) + 1]>>

(* One character: escaped by itself, by its name or by its number. *)
Written(c) ==
    CASE c \in {Quote, Backslash} -> <<Backslash, c>>
      [] c \in DOMAIN Named -> <<Backslash, Named[c]>>
      [] c \in DOMAIN Byte \ DOMAIN Named -> <<Backslash>> \o Decimal(Byte[c])
      [] OTHER -> <<c>>
DecriptString(s) == <<Quote>> \o FlattenSeq([i \in DOMAIN s |-> Written(s[i])]) \o <<Quote>>

(* A constant is a value whose string is a sequence of characters.  The     *)
(* format of numbers, "%.20g", has digits enough to tell them apart; the    *)
(* whole ones are modelled.                                                 *)
DecriptConstant(k) ==
    CASE k[1] = "nil" -> <<"n", "i", "l">>
      [] k[1] = "bool" -> IF k[2] THEN <<"t", "r", "u", "e">> ELSE <<"f", "a", "l", "s", "e">>
      [] k[1] = "num" -> IF k[2] < 0 THEN <<"-">> \o Decimal(-k[2]) ELSE Decimal(k[2])
      [] k[1] = "str" -> DecriptString(k[2])
===============================================================================
