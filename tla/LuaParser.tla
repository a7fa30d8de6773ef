----------------------------- MODULE LuaParser -----------------------------
(***************************************************************************)
(* The parser of the Lua compiler (lualib/lparser.c, with its `continue'   *)
(* mod): recursive descent over the tokens of a chunk, generating code as  *)
(* it goes.                                                                *)
(*                                                                         *)
(* The state R of the parser is a record                                   *)
(*   toks    the tokens to come: <<kind>>, or <<kind, value>> for names,   *)
(*           numbers and strings                                           *)
(*   outer   the FuncStates of the enclosing functions, outermost first    *)
(*   fs, e   the current FuncState and the last expression (LuaCode)       *)
(*   n       the length of the last list of expressions                    *)
(* A syntax error makes fs.sound false.  Not modelled: the limits on       *)
(* variables, upvalues and levels of nesting, and line numbers.            *)
(***************************************************************************)
EXTENDS LuaCode, SequencesExt

(* Do(<<operation, argument...>>, R): an operation of the parser that is   *)
(* reached again from within itself, or one of LuaCode.                    *)
RECURSIVE Do(_, _)

Tok(R) == Head(R.toks)[1]
Value(R) == Head(R.toks)[2]
Skip(R) == [R EXCEPT !.toks = Tail(@)]
CheckNext(R, kind) == Skip(Sound(R, Tok(R) = kind))
TestNext(R, kind) == IF Tok(R) = kind THEN Skip(R) ELSE R

-----------------------------------------------------------------------------
(* Variables and blocks. *)

NewLocalVar(R, name, n) ==
    [R EXCEPT !.fs.actvar = Append(SubSeq(@, 1, R.fs.nactvar + n), name)]
AdjustLocalVars(R, nvars) == [R EXCEPT !.fs.nactvar = @ + nvars]

(* indexupvalue *)
UpvalueOf(fs, kind, info) ==
    LET is(u) == u.k = kind /\ u.info = info
    IN IF \E i \in DOMAIN fs.upvalues : is(fs.upvalues[i]) THEN fs
       ELSE [fs EXCEPT !.upvalues = Append(@, [k |-> kind, info |-> info])]
IndexUpvalue(fs, kind, info) ==
    CHOOSE i \in 0..(Len(fs.upvalues) - 1) : fs.upvalues[i + 1] = [k |-> kind, info |-> info]

Named(fs, name) == {i \in 0..(fs.nactvar - 1) : fs.actvar[i + 1] = name}
SearchVar(fs, name) == CHOOSE i \in Named(fs, name) : \A j \in Named(fs, name) : j <= i

(* markupval: the innermost block that the variable is declared in. *)
MarkUpval(fs, level) ==
    LET around == {i \in DOMAIN fs.bl : fs.bl[i].nactvar <= level}
    IN IF around = {} THEN fs
       ELSE [fs EXCEPT !.bl[CHOOSE i \in around : \A j \in around : j <= i].upval = TRUE]

(* singlevaraux, for the functions fss from the outermost. *)
RECURSIVE SingleVarAux(_, _, _)
SingleVarAux(fss, name, base) ==
    IF fss = <<>> THEN [fss |-> fss, k |-> "VGLOBAL", info |-> NoReg]
    ELSE
    LET fs == Last(fss)
        above == SingleVarAux(Front(fss), name, FALSE)
        here == UpvalueOf(fs, above.k, above.info)
        v == SearchVar(fs, name)
    IN IF Named(fs, name) # {}
       THEN [fss |-> Append(Front(fss), IF base THEN fs ELSE MarkUpval(fs, v)),
             k |-> "VLOCAL", info |-> v]
       ELSE IF above.k = "VGLOBAL" THEN [above EXCEPT !.fss = fss]
       ELSE [fss |-> Append(above.fss, here), k |-> "VUPVAL",
             info |-> IndexUpvalue(here, above.k, above.info)]

SingleVar(R) ==
    LET name == Value(R)
        var == SingleVarAux(Append(R.outer, R.fs), name, TRUE)
        found == [Skip(R) EXCEPT !.outer = Front(var.fss), !.fs = Last(var.fss)]
        named == HasConstant(found.fs, String(name))
    IN IF var.k = "VGLOBAL"
       THEN With([found EXCEPT !.fs = named], "VGLOBAL", IndexOfK(named, String(name)))
       ELSE With(found, var.k, var.info)

AdjustAssign(R, nvars, nexps) ==
    LET extra == nvars - nexps
        more == MaxOf2(extra + 1, 0)
        multi == SetReturns(R, more)
        single == IF R.e.k = "VVOID" THEN R ELSE Do(<<"Exp2NextReg">>, R)
    IN IF HasMultRet(R.e)
       THEN IF more > 1 THEN [multi EXCEPT !.fs = ReserveRegs(@, more - 1)] ELSE multi
       ELSE IF extra > 0
       THEN [single EXCEPT !.fs = LoadNil(ReserveRegs(@, extra), single.fs.freereg, extra)]
       ELSE single

EnterBlock(R, breakable) ==
    [R EXCEPT !.fs.bl = Append(@, [breaklist |-> NoJump, continuelist |-> NoJump,
                                   nactvar |-> R.fs.nactvar, upval |-> FALSE,
                                   breakable |-> breakable]),
              !.fs.sound = @ /\ R.fs.freereg = R.fs.nactvar]

LeaveBlock(R) ==
    LET bl == Last(R.fs.bl)
        left == [R.fs EXCEPT !.bl = Front(@), !.nactvar = bl.nactvar]
        closed == IF bl.upval THEN Code(left, "CLOSE", bl.nactvar, 0, 0) ELSE left
    IN [R EXCEPT !.fs = PatchToHere([closed EXCEPT !.freereg = bl.nactvar,
                                                   !.sound = @ /\ ~(bl.breakable /\ bl.upval)],
                                    bl.breaklist)]

-----------------------------------------------------------------------------
(* Functions. *)

OpenFunc(R) ==
    [R EXCEPT !.outer = Append(@, R.fs),
              !.fs = [code |-> <<>>, k |-> <<>>, p |-> <<>>, jpc |-> NoJump, lasttarget |-> -1,
                      freereg |-> 0, maxstacksize |-> 2, nactvar |-> 0, actvar |-> <<>>,
                      bl |-> <<>>, upvalues |-> <<>>, numparams |-> 0, isVararg |-> FALSE,
                      hasArg |-> FALSE, needsArg |-> FALSE, sound |-> TRUE]]

(* What a function is when it is compiled. *)
Proto(fs) ==
    LET f == Ret([fs EXCEPT !.nactvar = 0], 0, 0)
    IN [code |-> f.code, k |-> f.k, p |-> f.p, nups |-> Len(f.upvalues),
        numparams |-> f.numparams, isVararg |-> f.isVararg, hasArg |-> f.hasArg,
        needsArg |-> f.needsArg, maxstacksize |-> f.maxstacksize]

(* close_func, and pushclosure: one pseudo-instruction for each upvalue. *)
CloseFunc(R) ==
    LET fs == Last(R.outer)
        closure == Code([fs EXCEPT !.p = Append(@, Proto(R.fs))], "CLOSURE", 0, Len(fs.p), 0)
        withUpvalue[i \in 0..Len(R.fs.upvalues)] ==
            IF i = 0 THEN closure
            ELSE LET u == R.fs.upvalues[i]
                 IN Code(withUpvalue[i - 1], IF u.k = "VLOCAL" THEN "MOVE" ELSE "GETUPVAL",
                         0, u.info, 0)
        sound == R.fs.sound /\ R.fs.bl = <<>>
        done == [withUpvalue[Len(R.fs.upvalues)] EXCEPT !.sound = @ /\ sound]
    IN With([R EXCEPT !.outer = Front(@), !.fs = done], "VRELOCABLE", Pc(closure) - 1)

(* parlist; `...' makes a parameter arg, for scripts that do not use it    *)
(* themselves.                                                             *)
RECURSIVE Parameters(_, _)
Parameters(R, n) ==
    LET named == NewLocalVar(Skip(R), Value(R), n)
        dots == NewLocalVar(Skip(R), "arg", n)
    IN CASE Tok(R) = "name" /\ Tok(named) = "," -> Parameters(Skip(named), n + 1)
         [] Tok(R) = "name" /\ Tok(named) # "," -> AdjustLocalVars(named, n + 1)
         [] Tok(R) = "..." ->
                AdjustLocalVars([dots EXCEPT !.fs.isVararg = TRUE, !.fs.hasArg = TRUE,
                                             !.fs.needsArg = TRUE], n + 1)
         [] OTHER -> AdjustLocalVars(R, n)

ParList(R) ==
    LET P == Parameters(R, 0)
        arg == IF P.fs.hasArg THEN 1 ELSE 0
    IN [P EXCEPT !.fs = ReserveRegs([@ EXCEPT !.numparams = P.fs.nactvar - arg], P.fs.nactvar)]

-----------------------------------------------------------------------------
(* Expressions. *)

RECURSIVE Operators(_, _), Suffixed(_), Fields(_, _, _, _, _), ExpListFrom(_, _)

Priority == [op \in {"+", "-", "*", "/", "%", "^", "..", "~=", "==", "<", "<=", ">", ">=", "and", "or"} |->
    CASE op \in {"+", "-"} -> <<6, 6>> [] op \in {"*", "/", "%"} -> <<7, 7>>
      [] op = "^" -> <<10, 9>> [] op = ".." -> <<5, 4>>
      [] op = "and" -> <<2, 2>> [] op = "or" -> <<1, 1>> [] OTHER -> <<3, 3>>]
UnaryPriority == 8

ExpList1(R) == ExpListFrom(R, 1)
ExpListFrom(R, n) ==
    LET first == Do(<<"Expr">>, R)
    IN IF Tok(first) = "," THEN ExpListFrom(Skip(Do(<<"Exp2NextReg">>, first)), n + 1)
       ELSE [first EXCEPT !.n = n]

CodeString(R, s) ==
    LET named == HasConstant(R.fs, String(s))
    IN With([R EXCEPT !.fs = named], "VK", IndexOfK(named, String(s)))
CheckName(R) == CodeString(CheckNext(R, "name"), Value(R))

Field(R) == LET object == Do(<<"Exp2AnyReg">>, R) IN Do(<<"Indexed", object.e>>, CheckName(Skip(object)))
YIndex(R) == CheckNext(Do(<<"Exp2Val">>, Do(<<"Expr">>, Skip(R))), "]")

(* body: parameters, chunk, end *)
Body(R, needself) ==
    LET opened == CheckNext(OpenFunc(R), "(")
        self == IF needself THEN AdjustLocalVars(NewLocalVar(opened, "self", 0), 1) ELSE opened
    IN CloseFunc(CheckNext(Do(<<"Chunk">>, CheckNext(ParList(self), ")")), "end"))

(* Constructors: t is the descriptor of the table, R.e the item read last  *)
(* (VVOID if there is none), nh and na count the fields, tostore those     *)
(* that wait in registers.                                                 *)
RecField(R, t) ==
    LET key == Do(<<"Exp2RK">>, IF Tok(R) = "name" THEN CheckName(R) ELSE YIndex(R))
        val == Do(<<"Exp2RK">>, Do(<<"Expr">>, CheckNext(key, "=")))
        coded == Code(val.fs, "SETTABLE", t.info, Operand(key.e), Operand(val.e))
    IN With([val EXCEPT !.fs = [coded EXCEPT !.freereg = R.fs.freereg]], "VVOID", 0)

CloseListField(R, t, na, tostore) ==
    LET closed == With(Do(<<"Exp2NextReg">>, R), "VVOID", 0)
    IN IF R.e.k = "VVOID" THEN R
       ELSE IF tostore = FieldsPerFlush
       THEN [closed EXCEPT !.fs = SetList(@, t.info, na, tostore)] ELSE closed

LastListField(R, t, na, tostore) ==
    LET open == SetReturns(R, MultRet)
        closed == IF R.e.k = "VVOID" THEN R ELSE Do(<<"Exp2NextReg">>, R)
    IN IF tostore = 0 THEN R
       ELSE IF HasMultRet(R.e) THEN [open EXCEPT !.fs = SetList(@, t.info, na, MultRet)]
       ELSE [closed EXCEPT !.fs = SetList(@, t.info, na, tostore)]

Fields(R, t, nh, na, tostore) ==
    LET closed == CloseListField(R, t, na, tostore)
        left == IF R.e.k # "VVOID" /\ tostore = FieldsPerFlush THEN 0 ELSE tostore
        isRecord == Tok(R) = "[" \/ (Tok(R) = "name" /\ R.toks[2][1] = "=")
        item == IF isRecord THEN RecField(closed, t) ELSE Do(<<"Expr">>, closed)
        rest == IF Tok(item) \in {",", ";"} THEN Skip(item) ELSE item
        counted == IF tostore > 0 /\ HasMultRet(R.e) THEN na - 1 ELSE na
        at == t.aux + 1
    IN IF Tok(R) = "}"
       THEN [Skip(LastListField(R, t, na, tostore)) EXCEPT
                !.e = t, !.fs.code[at].b = counted, !.fs.code[at].c = nh]
       ELSE IF isRecord THEN Fields(rest, t, nh + 1, na, left)
       ELSE Fields(rest, t, nh, na + 1, left + 1)

(* The place of the NEWTABLE is kept in aux. *)
Constructor(R) ==
    LET new == Code(R.fs, "NEWTABLE", 0, 0, 0)
        t == Do(<<"Exp2NextReg">>, With([R EXCEPT !.fs = new], "VRELOCABLE", Pc(new) - 1))
        at == [t.e EXCEPT !.aux = Pc(new) - 1]
    IN Fields(With(CheckNext(t, "{"), "VVOID", 0), at, 0, 0, 0)

FuncArgs(R) ==
    LET base == R.e.info
        args == CASE Tok(R) = "(" /\ R.toks[2][1] = ")" -> With(Skip(Skip(R)), "VVOID", 0)
                  [] Tok(R) = "(" /\ R.toks[2][1] # ")" ->
                         CheckNext(SetReturns(Do(<<"ExpList1">>, Skip(R)), MultRet), ")")
                  [] Tok(R) = "{" -> Do(<<"Constructor">>, R)
                  [] Tok(R) = "string" -> CodeString(Skip(R), Value(R))
        isOpen == HasMultRet(args.e)
        closed == IF isOpen \/ args.e.k = "VVOID" THEN args ELSE Do(<<"Exp2NextReg">>, args)
        nparams == IF isOpen THEN MultRet ELSE closed.fs.freereg - (base + 1)
        coded == Code(closed.fs, "CALL", base, nparams + 1, 2)
    IN Sound(With([closed EXCEPT !.fs = [coded EXCEPT !.freereg = base + 1]], "VCALL", Pc(coded) - 1),
             R.e.k = "VNONRELOC")

PrefixExp(R) ==
    IF Tok(R) = "(" THEN Do(<<"DischargeVars">>, CheckNext(Do(<<"Expr">>, Skip(R)), ")"))
    ELSE SingleVar(Sound(R, Tok(R) = "name"))

PrimaryExp(R) == Suffixed(PrefixExp(R))
Suffixed(R) ==
    LET object == Do(<<"Exp2AnyReg">>, R)
        method == CheckName(Skip(R))
    IN CASE Tok(R) = "." -> Suffixed(Field(R))
         [] Tok(R) = "[" -> Suffixed(Do(<<"Indexed", object.e>>, YIndex(object)))
         [] Tok(R) = ":" -> Suffixed(FuncArgs(Do(<<"Self", method.e.info>>, [method EXCEPT !.e = R.e])))
         [] Tok(R) \in {"(", "string", "{"} -> Suffixed(FuncArgs(Do(<<"Exp2NextReg">>, R)))
         [] OTHER -> R

SimpleExp(R) ==
    LET dots == Code([R.fs EXCEPT !.needsArg = FALSE], "VARARG", 0, 1, 0)
    IN CASE Tok(R) = "number" -> [With(Skip(R), "VKNUM", 0) EXCEPT !.e.nval = Value(R)]
         [] Tok(R) = "string" -> CodeString(Skip(R), Value(R))
         [] Tok(R) = "nil" -> With(Skip(R), "VNIL", 0)
         [] Tok(R) = "true" -> With(Skip(R), "VTRUE", 0)
         [] Tok(R) = "false" -> With(Skip(R), "VFALSE", 0)
         [] Tok(R) = "..." ->
                Sound(With([Skip(R) EXCEPT !.fs = dots], "VVARARG", Pc(dots) - 1), R.fs.isVararg)
         [] Tok(R) = "{" -> Do(<<"Constructor">>, R)
         [] Tok(R) = "function" -> Do(<<"Body", FALSE>>, Skip(R))
         [] OTHER -> Do(<<"PrimaryExp">>, R)

SubExpr(R, limit) ==
    Operators(IF Tok(R) \in {"not", "-", "#"}
              THEN Do(<<"Prefix", Tok(R)>>, Do(<<"SubExpr", UnaryPriority>>, Skip(R)))
              ELSE SimpleExp(R), limit)

(* The loop of subexpr: operators of a higher priority than limit. *)
Operators(R, limit) ==
    LET op == Tok(R)
        left == Do(<<"Infix", op>>, Skip(R))
        right == Do(<<"SubExpr", Priority[op][2]>>, left)
    IN IF op \in DOMAIN Priority /\ Priority[op][1] > limit
       THEN Operators(Do(<<"Posfix", op, left.e>>, right), limit)
       ELSE R

-----------------------------------------------------------------------------
(* Statements. *)

Block(R) == LeaveBlock(Do(<<"Chunk">>, EnterBlock(R, FALSE)))

(* check_conflict: an assignment to a local that an earlier target of the  *)
(* same assignment uses as table or key, which gets a copy.                *)
ConflictsWith(lhs, v) ==
    {i \in DOMAIN lhs : lhs[i].k = "VINDEXED" /\ v.info \in {lhs[i].info, lhs[i].aux}}
WithCopy(R, lhs) ==
    IF R.e.k # "VLOCAL" \/ ConflictsWith(lhs, R.e) = {} THEN R.fs
    ELSE ReserveRegs(Code(R.fs, "MOVE", R.fs.freereg, R.e.info, 0), 1)
UsingCopy(R, lhs, copy) ==
    [i \in DOMAIN lhs |->
        IF R.e.k # "VLOCAL" \/ i \notin ConflictsWith(lhs, R.e) THEN lhs[i]
        ELSE [lhs[i] EXCEPT !.info = IF @ = R.e.info THEN copy ELSE @,
                            !.aux = IF @ = R.e.info THEN copy ELSE @]]

(* The targets from the n-th to the first get the topmost registers. *)
RECURSIVE StoreFrom(_, _, _)
StoreFrom(R, lhs, n) ==
    IF n = 0 THEN R
    ELSE StoreFrom(Do(<<"StoreVar", lhs[n]>>, With(R, "VNONRELOC", R.fs.freereg - 1)), lhs, n - 1)

RECURSIVE Assignment(_, _)
Assignment(R, lhs) ==
    LET nvars == Len(lhs)
        target == Do(<<"PrimaryExp">>, Skip(R))
        targets == Append(UsingCopy(target, lhs, target.fs.freereg), target.e)
        list == Do(<<"ExpList1">>, CheckNext(R, "="))
        adjusted == AdjustAssign(list, nvars, list.n)
        surplus == IF list.n > nvars THEN list.n - nvars ELSE 0
    IN IF Tok(R) = "," THEN Assignment([target EXCEPT !.fs = WithCopy(target, lhs)], targets)
       ELSE IF list.n = nvars
       THEN StoreFrom(Do(<<"StoreVar", lhs[nvars]>>, SetOneRet(list)), lhs, nvars - 1)
       ELSE StoreFrom([adjusted EXCEPT !.fs.freereg = @ - surplus], lhs, nvars)

Cond(R) ==
    LET v == Do(<<"Expr">>, R) IN Do(<<"GoIfTrue">>, IF v.e.k = "VNIL" THEN [v EXCEPT !.e.k = "VFALSE"] ELSE v)

(* break and continue leave the given number of loops.  LoopAt is the      *)
(* block of that loop; NeedsClose whether a block left on the way, up to   *)
(* it, has a variable that is an upvalue.                                  *)
Levels(R) == IF Tok(R) = "number" THEN Value(R) ELSE 1
LoopAt(fs, levels) ==
    LET loops == {i \in DOMAIN fs.bl : fs.bl[i].breakable}
    IN CHOOSE i \in loops : Cardinality({j \in loops : j >= i}) = levels
NeedsClose(fs, loop) == \E i \in (loop + 1)..Len(fs.bl) : ~fs.bl[i].breakable /\ fs.bl[i].upval
CloseTo(fs, loop) ==
    IF NeedsClose(fs, loop) THEN Code(fs, "CLOSE", fs.bl[loop].nactvar, 0, 0) ELSE fs

BreakStat(R) ==
    LET loop == LoopAt(R.fs, Levels(R))
        fs == CloseTo(R.fs, loop)
        list == fs.bl[loop].breaklist
    IN [TestNext(R, "number") EXCEPT
           !.fs = [Concat(Jump(fs), list, Pc(fs)) EXCEPT !.bl[loop].breaklist = ConcatList(list, Pc(fs))]]

(* continuestat closes what the loops inside the last one need closed; the *)
(* variables of the last one stay open.                                    *)
ContinueStat(R) ==
    LET loop == LoopAt(R.fs, Levels(R))
        fs == IF Levels(R) = 1 THEN R.fs ELSE CloseTo(R.fs, LoopAt(R.fs, Levels(R) - 1))
        list == fs.bl[loop].continuelist
    IN [TestNext(R, "number") EXCEPT
           !.fs = [Concat(Jump(fs), list, Pc(fs)) EXCEPT !.bl[loop].continuelist = ConcatList(list, Pc(fs))]]

ContinueList(R) == Last(R.fs.bl).continuelist
JumpBack(fs, target) == PatchList(Jump(fs), Pc(fs), target)

(* whilestat; the jumps of continue go behind the jump back. *)
WhileStat(R) ==
    LET condition == Cond([Skip(R) EXCEPT !.fs = GetLabel(@)])
        body == Do(<<"Block">>, CheckNext(EnterBlock(condition, TRUE), "do"))
        looped == [body EXCEPT !.fs = PatchToHere(JumpBack(@, Pc(R.fs)), ContinueList(body))]
        left == LeaveBlock(CheckNext(looped, "end"))
    IN [left EXCEPT !.fs = PatchToHere(@, condition.e.f)]

RepeatStat(R) ==
    LET opened == EnterBlock(EnterBlock([R EXCEPT !.fs = GetLabel(@)], TRUE), FALSE)
        body == Do(<<"Chunk">>, Skip(opened))
        loop == body.fs.bl[Len(body.fs.bl) - 1]
        v == Cond(CheckNext([body EXCEPT !.fs = PatchToHere(@, loop.continuelist)], "until"))
        scope == LeaveBlock(v)
        broken == BreakStat(v)
        else == LeaveBlock([broken EXCEPT !.fs = PatchToHere(@, v.e.f)])
    IN LeaveBlock(IF ~Last(v.fs.bl).upval
                  THEN [scope EXCEPT !.fs = PatchList(@, v.e.f, Pc(R.fs))]
                  ELSE [else EXCEPT !.fs = JumpBack(@, Pc(R.fs))])

ForBody(R, base, nvars, isnum) ==
    LET started == CheckNext(AdjustLocalVars(R, 3), "do")
        prep == Pc(started.fs)
        prepared == [started EXCEPT !.fs =
                        IF isnum THEN Code(@, "FORPREP", base, NoJump, 0) ELSE Jump(@)]
        scope == AdjustLocalVars(EnterBlock(prepared, FALSE), nvars)
        body == LeaveBlock(Do(<<"Block">>, [scope EXCEPT !.fs = ReserveRegs(@, nvars)]))
        here == PatchToHere(PatchToHere(body.fs, ContinueList(body)), prep)
        endfor == Code(here, IF isnum THEN "FORLOOP" ELSE "TFORLOOP", base,
                       IF isnum THEN NoJump ELSE 0, IF isnum THEN 0 ELSE nvars)
    IN [body EXCEPT !.fs = IF isnum THEN PatchList(endfor, Pc(here), prep + 1)
                           ELSE JumpBack(endfor, prep + 1)]

Exp1(R) == Do(<<"Exp2NextReg">>, Do(<<"Expr">>, R))

ControlVars(R, name) ==
    NewLocalVar(NewLocalVar(NewLocalVar(NewLocalVar(R, "(for 1)", 0), "(for 2)", 1), "(for 3)", 2), name, 3)

ForNum(R, name) ==
    LET limit == Exp1(CheckNext(Exp1(CheckNext(ControlVars(R, name), "=")), ","))
        one == LoadK(limit.fs, limit.fs.freereg, Number(1))
        step == IF Tok(limit) = "," THEN Exp1(Skip(limit))
                ELSE [limit EXCEPT !.fs = ReserveRegs(one, 1)]
    IN Do(<<"ForBody", R.fs.freereg, 1, TRUE>>, step)

RECURSIVE ForNames(_, _)
ForNames(R, n) ==
    IF Tok(R) = "," THEN ForNames(NewLocalVar(Skip(Skip(R)), Value(Skip(R)), n), n + 1)
    ELSE [R EXCEPT !.n = n]

ForList(R, name) ==
    LET names == ForNames(ControlVars(R, name), 4)
        list == Do(<<"ExpList1">>, CheckNext(names, "in"))
        three == AdjustAssign(list, 3, list.n)
    IN Do(<<"ForBody", R.fs.freereg, names.n - 3, FALSE>>,
          [three EXCEPT !.fs = CheckStack(@, 3)])

ForStat(R) ==
    LET named == Skip(EnterBlock(R, TRUE))
        name == Value(named)
    IN LeaveBlock(CheckNext(IF R.toks[3][1] = "=" THEN ForNum(Skip(named), name)
                            ELSE ForList(Skip(named), name), "end"))

(* ifstat: flist are the jumps of the condition that failed last, escape   *)
(* those over the remaining parts.                                         *)
RECURSIVE IfParts(_, _)
IfParts(R, escape) ==
    LET condition == Cond(Skip(R))
        flist == condition.e.f
        body == Do(<<"Block">>, CheckNext(condition, "then"))
        jumped == Concat(Jump(body.fs), escape, Pc(body.fs))
        onwards == [body EXCEPT !.fs = PatchToHere(jumped, flist)]
        escape1 == ConcatList(escape, Pc(body.fs))
        else == Do(<<"Block">>, Skip(onwards))
    IN CASE Tok(body) = "elseif" -> IfParts(onwards, escape1)
         [] Tok(body) = "else" ->
                CheckNext([else EXCEPT !.fs = PatchToHere(@, escape1)], "end")
         [] OTHER -> CheckNext([body EXCEPT !.fs =
                         PatchToHere(Concat(@, escape, flist), ConcatList(escape, flist))], "end")

LocalFunc(R) ==
    LET declared == AdjustLocalVars(NewLocalVar(Skip(R), Value(R), 0), 1)
    IN Do(<<"StoreVar", Exp("VLOCAL", R.fs.freereg)>>, Do(<<"Body", FALSE>>, [declared EXCEPT !.fs = ReserveRegs(@, 1)]))

RECURSIVE LocalNames(_, _)
LocalNames(R, n) ==
    LET named == NewLocalVar(Skip(R), Value(R), n)
    IN IF Tok(named) = "," THEN LocalNames(Skip(named), n + 1) ELSE [named EXCEPT !.n = n + 1]

LocalStat(R) ==
    LET names == LocalNames(R, 0)
        list == IF Tok(names) = "=" THEN Do(<<"ExpList1">>, Skip(names)) ELSE With(names, "VVOID", 0)
        nexps == IF Tok(names) = "=" THEN list.n ELSE 0
    IN AdjustLocalVars(AdjustAssign(list, names.n, nexps), names.n)

RECURSIVE FuncFields(_)
FuncFields(R) == IF Tok(R) = "." THEN FuncFields(Field(R)) ELSE R

DefineFunc(name, needself) ==
    Do(<<"StoreVar", name.e>>, Do(<<"Body", needself>>, name))
MethodOrFunc(R) == IF Tok(R) = ":" THEN DefineFunc(Field(R), TRUE) ELSE DefineFunc(R, FALSE)
FuncStat(R) == MethodOrFunc(FuncFields(SingleVar(Skip(R))))

ExprStat(R) ==
    LET first == Do(<<"PrimaryExp">>, R)
    IN IF first.e.k = "VCALL" THEN [first EXCEPT !.fs.code[first.e.info + 1].c = 1]
       ELSE Assignment(first, <<first.e>>)

BlockFollow(kind) == kind \in {"else", "elseif", "end", "until", "eos"}

RetStat(Q) ==
    LET R == Skip(Q)
        list == Do(<<"ExpList1">>, R)
        open == SetReturns(list, MultRet)
        tail == list.e.k = "VCALL" /\ list.n = 1
        call == open.fs.code[list.e.info + 1]
        called == [open EXCEPT !.fs.code[list.e.info + 1].op = "TAILCALL",
                               !.fs.sound = @ /\ call.a = open.fs.nactvar]
        any == Do(<<"Exp2AnyReg">>, list)
        next == Do(<<"Exp2NextReg">>, list)
        ret(S, first, n) == [S EXCEPT !.fs = Ret(@, first, n)]
    IN CASE BlockFollow(Tok(R)) \/ Tok(R) = ";" -> ret(R, 0, 0)
         [] ~(BlockFollow(Tok(R)) \/ Tok(R) = ";") /\ HasMultRet(list.e) ->
                ret(IF tail THEN called ELSE open, open.fs.nactvar, MultRet)
         [] ~(BlockFollow(Tok(R)) \/ Tok(R) = ";") /\ ~HasMultRet(list.e) /\ list.n = 1 ->
                ret(any, any.e.info, 1)
         [] OTHER -> ret(Sound(next, list.n = next.fs.freereg - next.fs.nactvar),
                         next.fs.nactvar, list.n)

Statement(R) ==
    CASE Tok(R) = "if" -> IfParts(R, NoJump)
      [] Tok(R) = "while" -> WhileStat(R)
      [] Tok(R) = "do" -> CheckNext(Do(<<"Block">>, Skip(R)), "end")
      [] Tok(R) = "for" -> ForStat(R)
      [] Tok(R) = "repeat" -> RepeatStat(R)
      [] Tok(R) = "function" -> FuncStat(R)
      [] Tok(R) = "local" -> IF R.toks[2][1] = "function" THEN LocalFunc(Skip(Skip(R)))
                             ELSE LocalStat(Skip(R))
      [] Tok(R) = "return" -> RetStat(R)
      [] Tok(R) = "break" -> BreakStat(Skip(R))
      [] Tok(R) = "continue" -> ContinueStat(Skip(R))
      [] OTHER -> ExprStat(R)

(* One statement of a chunk; its registers are free after it. *)
IsLast(kind) == kind \in {"return", "break", "continue"}
RegistersFreed(R) ==
    [Sound(R, R.fs.maxstacksize >= R.fs.freereg /\ R.fs.freereg >= R.fs.nactvar)
        EXCEPT !.fs.freereg = R.fs.nactvar]
NextStatement(R) == RegistersFreed(TestNext(Do(<<"Statement">>, R), ";"))
Chunk(R) ==
    IF BlockFollow(Tok(R)) THEN R
    ELSE IF IsLast(Tok(R)) THEN NextStatement(R)
    ELSE Do(<<"Chunk">>, NextStatement(R))

Do(call, R) ==
    CASE call[1] = "Expr" -> SubExpr(R, 0)
      [] call[1] = "SubExpr" -> SubExpr(R, call[2])
      [] call[1] = "PrimaryExp" -> PrimaryExp(R)
      [] call[1] = "ExpList1" -> ExpList1(R)
      [] call[1] = "Constructor" -> Constructor(R)
      [] call[1] = "Body" -> Body(R, call[2])
      [] call[1] = "Block" -> Block(R)
      [] call[1] = "Chunk" -> Chunk(R)
      [] call[1] = "ForBody" -> ForBody(R, call[2], call[3], call[4])
      [] call[1] = "Statement" -> Statement(R)
      [] OTHER -> Gen(call, R)

(* luaY_parser: the parser in front of the tokens of a script, and the     *)
(* main function when it is behind its chunk, with whether all assertions  *)
(* held and the syntax was right.                                          *)
Opened(toks) ==
    LET none == [toks |-> toks, outer |-> <<>>, fs |-> <<>>, e |-> Exp("VVOID", 0), n |-> 0]
    IN [OpenFunc(none) EXCEPT !.outer = <<>>, !.fs.isVararg = TRUE]
Compiled(R) ==
    [proto |-> Proto(R.fs),
     sound |-> R.fs.sound /\ R.toks = <<<<"eos">>>> /\ R.fs.bl = <<>> /\ R.fs.upvalues = <<>>]
=============================================================================
