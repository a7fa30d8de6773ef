------------------------------ MODULE MCLuaTool ------------------------------
(***************************************************************************)
(* The tool as a whole: the way of a script through it, the reading of     *)
(* texts, the libraries that the script may call, the tasks of the tool    *)
(* for one file and the one for a folder.                                  *)
(* They share no state, so each behaviour is one of one of them.           *)
(***************************************************************************)
EXTENDS MCLuaCompiler

CONSTANTS MaxCaptures, FirstCharacters, BarGap, MaxCommands, MaxRuns

VARIABLES
    lib,     \* a call of a library, or a text that is read
    tool     \* the files that the tasks of the tool read and write

Calls == INSTANCE LibraryCalls
Readings == INSTANCE SourceTexts

Pattern == INSTANCE LuaPattern WITH
    Code <- Calls!MCCode, Replacement <- Calls!MCTable, StringCalls <- Calls!MCStringCalls
ListLib == INSTANCE LuaTableLib WITH
    Nil <- "nil", SortCalls <- Calls!MCSortCalls, ListCalls <- Calls!MCListCalls
Lexer == INSTANCE LuaLexer WITH Texts <- Readings!MCTexts
Session == INSTANCE LuaTool WITH Compiles <- Files!Compiles, Sessions <- Files!MCSessions
Folder == INSTANCE MultiDec WITH Compiles <- Files!Compiles, Batches <- Files!MCBatches

Idle == [part |-> "none"]
NoScript ==
    /\ program = <<"none">>
    /\ parser = [last |-> TRUE]
    /\ built = <<>>
    /\ m = [outcome |-> <<"none">>]
ToolInit ==
    \/ Init /\ lib = Idle /\ tool = Idle
    \/ NoScript /\ (Pattern!Init \/ ListLib!Init \/ Lexer!Init) /\ tool = Idle
    \/ NoScript /\ lib = Idle /\ (Session!Init \/ Folder!Init)

Compilation == program # <<"none">> /\ Next /\ UNCHANGED <<lib, tool>>
InLibrary == lib.part # "none" /\ UNCHANGED <<program, parser, built, m, tool>>
CallEnded == InLibrary /\ lib.ends # "runs" /\ UNCHANGED lib
InTool == tool.part # "none" /\ UNCHANGED <<program, parser, built, m, lib>>
ToolNext ==
    \/ Compilation
    \/ InLibrary /\ (Pattern!Next \/ ListLib!Next \/ Lexer!Next)
    \/ CallEnded
    \/ InTool /\ (Session!Next \/ Folder!Next)
ToolSpec == ToolInit /\ [][ToolNext]_<<vars, lib, tool>>

(* A text is read as the tokens it was written from, each in its line,     *)
(* whatever stands between them, and whether or not the parser looked      *)
(* ahead; and a constant that the tool wrote is read as that constant,     *)
(* except just when a control character with a short number stands before  *)
(* a digit (luaX_next of lualib/llex.c, DecriptConstant of                 *)
(* LuaDec/RegisterFile.cpp).                                               *)
TextReadsBack == lib.part = "lexer" => Readings!ReadsText(lib)

(* A call of the string library gives what its pattern means, whatever was *)
(* tried and undone before, and a call of the table library what is known  *)
(* of lists; the piece of a format fits into its buffer (do_match and its  *)
(* callers of lualib/lstrlib.c, lualib/ltablib.c).                         *)
LibraryAgrees ==
    /\ lib.part = "string" /\ lib.ends # "runs" => Calls!StringAgrees(lib)
    /\ lib.part = "list" /\ lib.ends # "runs" => Calls!ListAgrees(lib)
    /\ Pattern!FormatFits

(* A sort ends with the same elements, in order when the comparison is an  *)
(* order, and otherwise still inside of the list or by an error (auxsort   *)
(* of lualib/ltablib.c).                                                   *)
SortIsSound == ListLib!SortKeeps /\ ListLib!SortSorts

(* See LuaTool and MultiDec.                                               *)
ComparesHonestly == ToolIsGivenWhatCompiles /\ Session!ComparesHonestly
ReplacesInPlace == Session!ReplacesInPlace
FoldersTell == Folder!FoldersTell
ExtractsAll == Folder!ExtractsAll
=============================================================================
