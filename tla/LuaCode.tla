------------------------------ MODULE LuaCode ------------------------------
(***************************************************************************)
(* The code generator of the Lua compiler (lualib/lcode.c): expressions    *)
(* whose value is delayed, jump lists threaded through the code that is    *)
(* being written, constants, and registers used as a stack.                *)
(*                                                                         *)
(* An operation works on a state P of the compiler, a record with the      *)
(* FuncState P.fs and the expression descriptor P.e, and gives the state   *)
(* after it.  Lines, names of locals for the debugger and the text of      *)
(* error messages are left out; fs.sound tells whether the assertions      *)
(* (lua_assert) on the way held.                                           *)
(***************************************************************************)
EXTENDS LuaValue, Sequences, FiniteSets

CONSTANTS
    MaxIndexRK,       \* MAXINDEXRK: the last constant an operand can name
    MaxArgC           \* MAXARG_C

(* Gen(<<operation, argument...>>, P) is the operation applied to P.  The  *)
(* operations that work on expressions call each other through it.         *)
RECURSIVE Gen(_, _)

NoJump == -1
NoReg == 255

MaxOf2(x, y) == IF x > y THEN x ELSE y

Pc(fs) == Len(fs.code)
At(fs, pc) == fs.code[pc + 1]
Sound(P, assertion) == [P EXCEPT !.fs.sound = @ /\ assertion]

Tests == {"EQ", "LT", "LE", "TEST", "TESTSET", "TFORLOOP"}

-----------------------------------------------------------------------------
(* Jump lists: a jump that is not yet fixed holds the next of its list. *)

GetJump(fs, pc) == IF At(fs, pc).b = NoJump THEN NoJump ELSE pc + 1 + At(fs, pc).b
FixJump(fs, pc, dest) == [fs EXCEPT !.code[pc + 1].b = dest - (pc + 1)]

JumpList(fs, list) ==
    LET from[pc \in -1..(Pc(fs) - 1)] ==
            IF pc = NoJump THEN <<>> ELSE <<pc>> \o from[GetJump(fs, pc)]
    IN from[list]

GetJumpControl(fs, pc) == IF pc >= 1 /\ At(fs, pc - 1).op \in Tests THEN pc - 1 ELSE pc

NeedValue(fs, list) ==
    \E i \in DOMAIN JumpList(fs, list) :
        At(fs, GetJumpControl(fs, JumpList(fs, list)[i])).op # "TESTSET"

(* patchtestreg; the value is not needed, or is in its register already:   *)
(* the instruction becomes a TEST.                                         *)
PatchTestReg(fs, node, reg) ==
    LET at == GetJumpControl(fs, node) + 1
        i == fs.code[at]
    IN IF i.op # "TESTSET" THEN fs
       ELSE IF reg # NoReg /\ reg # i.b THEN [fs EXCEPT !.code[at].a = reg]
       ELSE [fs EXCEPT !.code[at] = [op |-> "TEST", a |-> i.b, b |-> 0, c |-> i.c]]

RemoveValues(fs, list) ==
    LET jumps == JumpList(fs, list)
        done[n \in 0..Len(jumps)] ==
            IF n = 0 THEN fs ELSE PatchTestReg(done[n - 1], jumps[n], NoReg)
    IN done[Len(jumps)]

(* patchlistaux: jumps that bring a value go to vtarget. *)
PatchListAux(fs, list, vtarget, reg, dtarget) ==
    LET jumps == JumpList(fs, list)
        done[n \in 0..Len(jumps)] ==
            IF n = 0 THEN fs
            ELSE LET before == done[n - 1]
                     brings == At(before, GetJumpControl(before, jumps[n])).op = "TESTSET"
                 IN FixJump(PatchTestReg(before, jumps[n], reg), jumps[n],
                            IF brings THEN vtarget ELSE dtarget)
    IN done[Len(jumps)]

(* luaK_concat: the list l2 behind l1. *)
ConcatList(l1, l2) == IF l1 = NoJump THEN l2 ELSE l1
Concat(fs, l1, l2) ==
    IF l1 = NoJump \/ l2 = NoJump THEN fs
    ELSE LET list == JumpList(fs, l1) IN FixJump(fs, list[Len(list)], l2)

GetLabel(fs) == [fs EXCEPT !.lasttarget = Pc(fs)]

PatchToHere(fs, list) ==
    [Concat(GetLabel(fs), fs.jpc, list) EXCEPT !.jpc = ConcatList(@, list)]

PatchList(fs, list, target) ==
    IF target = Pc(fs) THEN PatchToHere(fs, list)
    ELSE PatchListAux(fs, list, target, NoReg, target)

-----------------------------------------------------------------------------
(* Writing code. *)

DischargeJpc(fs) == [PatchListAux(fs, fs.jpc, Pc(fs), NoReg, Pc(fs)) EXCEPT !.jpc = NoJump]

Code(fs, op, a, b, c) ==
    [DischargeJpc(fs) EXCEPT !.code = Append(@, [op |-> op, a |-> a, b |-> b, c |-> c])]

(* luaK_jump, whose place is Pc(fs): the jumps to here wait for its target. *)
Jump(fs) ==
    LET coded == Code([fs EXCEPT !.jpc = NoJump], "JMP", 0, NoJump, 0)
    IN Concat(coded, Pc(fs), fs.jpc)

CondJump(fs, op, a, b, c) == Jump(Code(fs, op, a, b, c))

(* Mutation: jumps to the second LOADNIL are not thought of. *)
LoadNilAlways(fs, from, n) ==
    LET previous == fs.code[Pc(fs)]
        connects == previous.op = "LOADNIL" /\ previous.a <= from /\ from <= previous.b + 1
    IN IF Pc(fs) > 0 /\ connects
       THEN [fs EXCEPT !.code[Pc(fs)].b = MaxOf2(@, from + n - 1)]
       ELSE Code(fs, "LOADNIL", from, from + n - 1, 0)

(* luaK_nil: two LOADNIL in a row become one, unless a jump may come       *)
(* between them, and a function begins with its registers nil.             *)
LoadNil(fs, from, n) ==
    LET previous == fs.code[Pc(fs)]
        connects == previous.op = "LOADNIL" /\ previous.a <= from /\ from <= previous.b + 1
    IN IF Pc(fs) > fs.lasttarget /\ Pc(fs) = 0 /\ from >= fs.nactvar THEN fs
       ELSE IF Pc(fs) > fs.lasttarget /\ Pc(fs) > 0 /\ connects
       THEN [fs EXCEPT !.code[Pc(fs)].b = MaxOf2(@, from + n - 1)]
       ELSE Code(fs, "LOADNIL", from, from + n - 1, 0)

Ret(fs, first, nret) == Code(fs, "RETURN", first, nret + 1, 0)

SetList(fs, base, nelems, tostore) ==
    LET c == (nelems - 1) \div FieldsPerFlush + 1
        b == IF tostore = MultRet THEN 0 ELSE tostore
        coded == IF c <= MaxArgC THEN Code(fs, "SETLIST", base, b, c)
                 ELSE Code(Code(fs, "SETLIST", base, b, 0), "COUNT", 0, c, 0)
    IN [coded EXCEPT !.freereg = base + 1]

(* addk: the index of a constant, in what HasConstant gives. *)
Constants(fs) == {fs.k[i] : i \in DOMAIN fs.k}
HasConstant(fs, v) == IF v \in Constants(fs) THEN fs ELSE [fs EXCEPT !.k = Append(@, v)]
IndexOfK(fs, v) == CHOOSE i \in 0..(Len(fs.k) - 1) : fs.k[i + 1] = v

-----------------------------------------------------------------------------
(* Registers. *)

CheckStackShort(fs, n) == [fs EXCEPT !.maxstacksize = MaxOf2(@, fs.freereg + n - 1)]  \* mutation
CheckStack(fs, n) == [fs EXCEPT !.maxstacksize = MaxOf2(@, fs.freereg + n)]
ReserveRegs(fs, n) == [CheckStack(fs, n) EXCEPT !.freereg = @ + n]

FreeReg(fs, reg) ==
    IF IsK(reg) \/ reg < fs.nactvar THEN fs
    ELSE [fs EXCEPT !.freereg = @ - 1, !.sound = @ /\ reg = fs.freereg - 1]

FreeExp(P, e) == IF e.k = "VNONRELOC" THEN [P EXCEPT !.fs = FreeReg(@, e.info)] ELSE P

-----------------------------------------------------------------------------
(* Expressions: what an expression descriptor still has to do is done. *)

Exp(kind, info) == [k |-> kind, info |-> info, aux |-> 0, nval |-> 0, t |-> NoJump, f |-> NoJump]
With(P, kind, info) == [P EXCEPT !.e = Exp(kind, info)]

HasJumps(e) == e.t # e.f
IsNumeral(e) == e.k = "VKNUM" /\ e.t = NoJump /\ e.f = NoJump
HasMultRet(e) == e.k \in {"VCALL", "VVARARG"}

(* The instruction just written has the value, in a register to be chosen. *)
Relocable(P, fs) ==
    [P EXCEPT !.fs = fs, !.e.k = "VRELOCABLE", !.e.info = Pc(fs) - 1]
InReg(P, reg) == [P EXCEPT !.e.k = "VNONRELOC", !.e.info = reg]

SetReturns(P, nresults) ==
    LET at == P.e.info + 1
    IN CASE P.e.k = "VCALL" -> [P EXCEPT !.fs.code[at].c = nresults + 1]
         [] P.e.k = "VVARARG" ->
                [P EXCEPT !.fs = ReserveRegs([P.fs EXCEPT !.code[at].b = nresults + 1,
                                                          !.code[at].a = P.fs.freereg], 1)]
         [] OTHER -> P

SetOneRet(P) ==
    CASE P.e.k = "VCALL" -> InReg(P, At(P.fs, P.e.info).a)
      [] P.e.k = "VVARARG" -> [P EXCEPT !.fs.code[P.e.info + 1].b = 2, !.e.k = "VRELOCABLE"]
      [] OTHER -> P

DischargeVars(P) ==
    LET e == P.e
    IN CASE e.k = "VLOCAL" -> InReg(P, e.info)
         [] e.k = "VUPVAL" -> Relocable(P, Code(P.fs, "GETUPVAL", 0, e.info, 0))
         [] e.k = "VGLOBAL" -> Relocable(P, Code(P.fs, "GETGLOBAL", 0, e.info, 0))
         [] e.k = "VINDEXED" ->
                Relocable(P, Code(FreeReg(FreeReg(P.fs, e.aux), e.info), "GETTABLE", 0, e.info, e.aux))
         [] HasMultRet(e) -> SetOneRet(P)
         [] OTHER -> P

LoadK(fs, reg, v) ==
    LET has == HasConstant(fs, v) IN Code(has, "LOADK", reg, IndexOfK(has, v), 0)

(* discharge2reg; an expression that is a jump has no value yet. *)
Discharge2Reg(Q, reg) ==
    LET P == Gen(<<"DischargeVars">>, Q)
        e == P.e
        coded ==
            CASE e.k = "VNIL" -> LoadNil(P.fs, reg, 1)
              [] e.k \in {"VFALSE", "VTRUE"} ->
                     Code(P.fs, "LOADBOOL", reg, IF e.k = "VTRUE" THEN 1 ELSE 0, 0)
              [] e.k = "VK" -> Code(P.fs, "LOADK", reg, e.info, 0)
              [] e.k = "VKNUM" -> LoadK(P.fs, reg, Number(e.nval))
              [] e.k = "VRELOCABLE" -> [P.fs EXCEPT !.code[e.info + 1].a = reg]
              [] e.k = "VNONRELOC" ->
                     IF reg = e.info THEN P.fs ELSE Code(P.fs, "MOVE", reg, e.info, 0)
              [] OTHER -> P.fs
    IN IF e.k \in {"VVOID", "VJMP"} THEN P ELSE InReg([P EXCEPT !.fs = coded], reg)

Discharge2AnyReg(P) ==
    IF P.e.k = "VNONRELOC" THEN P
    ELSE Discharge2Reg([P EXCEPT !.fs = ReserveRegs(@, 1)], P.fs.freereg)

NeedsLoads(fs, e) == NeedValue(fs, e.t) \/ NeedValue(fs, e.f)

(* A jump that is the value itself is the last of those taken when true. *)
JoinJump(P) ==
    IF P.e.k # "VJMP" THEN P
    ELSE [P EXCEPT !.fs = Concat(@, P.e.t, P.e.info), !.e.t = ConcatList(@, P.e.info)]

LoadBooleans(fs, reg, over) ==
    PatchToHere(Code(GetLabel(Code(GetLabel(fs), "LOADBOOL", reg, 0, 1)), "LOADBOOL", reg, 1, 0), over)

(* The exits of e that bring no value go to the two LOADBOOL before here. *)
ExitsToHere(fs, e, reg, loads) ==
    PatchListAux(PatchListAux(GetLabel(fs), e.f, Pc(fs), reg, IF loads THEN Pc(fs) - 2 ELSE NoJump),
                 e.t, Pc(fs), reg, IF loads THEN Pc(fs) - 1 ELSE NoJump)

(* exp2reg: the exits that bring no value get one from a LOADBOOL. *)
FinishExits(P, reg) ==
    CASE ~HasJumps(P.e) -> P.fs
      [] HasJumps(P.e) /\ ~NeedsLoads(P.fs, P.e) -> ExitsToHere(P.fs, P.e, reg, FALSE)
      [] OTHER ->
             ExitsToHere(IF P.e.k = "VJMP" THEN LoadBooleans(P.fs, reg, NoJump)
                         ELSE LoadBooleans(Jump(P.fs), reg, Pc(P.fs)), P.e, reg, TRUE)
InRegister(P, reg) == With([P EXCEPT !.fs = FinishExits(P, reg)], "VNONRELOC", reg)
Exp2Reg(P, reg) == InRegister(JoinJump(Discharge2Reg(P, reg)), reg)

Exp2NextReg(Q) ==
    LET P == Gen(<<"DischargeVars">>, Q)
        freed == FreeExp(P, P.e)
    IN Gen(<<"Exp2Reg", freed.fs.freereg>>, [freed EXCEPT !.fs = ReserveRegs(@, 1)])

Exp2AnyReg(Q) ==
    LET P == Gen(<<"DischargeVars">>, Q)
    IN IF P.e.k = "VNONRELOC" /\ ~HasJumps(P.e) THEN P
       ELSE IF P.e.k = "VNONRELOC" /\ P.e.info >= P.fs.nactvar THEN Gen(<<"Exp2Reg", P.e.info>>, P)
       ELSE Gen(<<"Exp2NextReg">>, P)

Exp2Val(P) == IF HasJumps(P.e) THEN Gen(<<"Exp2AnyReg">>, P) ELSE Gen(<<"DischargeVars">>, P)

(* luaK_exp2RK: a constant if it has a small index, or a register; Operand *)
(* is what it returns.                                                     *)
Operand(e) == IF e.k = "VK" THEN BitRK + e.info ELSE e.info

Exp2RK(Q) ==
    LET P == Gen(<<"Exp2Val">>, Q)
        v == CASE P.e.k = "VNIL" -> Nil [] P.e.k = "VKNUM" -> Number(P.e.nval)
               [] OTHER -> Bool(P.e.k = "VTRUE")
        has == HasConstant(P.fs, v)
    IN IF P.e.k \in {"VNIL", "VKNUM", "VTRUE", "VFALSE"} /\ Len(P.fs.k) <= MaxIndexRK
       THEN [P EXCEPT !.fs = has, !.e.k = "VK", !.e.info = IndexOfK(has, v)]
       ELSE IF P.e.k = "VK" /\ P.e.info <= MaxIndexRK THEN P
       ELSE Gen(<<"Exp2AnyReg">>, P)

(* luaK_storevar: the expression of P into the variable var. *)
StoreVar(P, var) ==
    LET any == Gen(<<"Exp2AnyReg">>, P)
        rk == Gen(<<"Exp2RK">>, P)
    IN CASE var.k = "VLOCAL" -> Gen(<<"Exp2Reg", var.info>>, FreeExp(P, P.e))
         [] var.k = "VUPVAL" ->
                FreeExp([any EXCEPT !.fs = Code(@, "SETUPVAL", any.e.info, var.info, 0)], any.e)
         [] var.k = "VGLOBAL" ->
                FreeExp([any EXCEPT !.fs = Code(@, "SETGLOBAL", any.e.info, var.info, 0)], any.e)
         [] var.k = "VINDEXED" ->
                FreeExp([rk EXCEPT !.fs = Code(@, "SETTABLE", var.info, var.aux, Operand(rk.e))], rk.e)

Indexed(P, t) == LET key == Gen(<<"Exp2RK">>, P)
                 IN [key EXCEPT !.e = [t EXCEPT !.aux = Operand(key.e), !.k = "VINDEXED"]]

(* luaK_self, for the constant name *)
Self(Q, name) ==
    LET object == Gen(<<"Exp2AnyReg">>, Q)
        freed == FreeExp(object, object.e)
        func == freed.fs.freereg
        key == Gen(<<"Exp2RK">>, With([freed EXCEPT !.fs = ReserveRegs(@, 2)], "VK", name))
        coded == [key EXCEPT !.fs = Code(@, "SELF", func, object.e.info, Operand(key.e))]
    IN InReg([FreeExp(coded, key.e) EXCEPT !.e = object.e], func)

-----------------------------------------------------------------------------
(* Conditions. *)

InvertJump(fs, pc) == [fs EXCEPT !.code[GetJumpControl(fs, pc) + 1].a = 1 - @]

(* jumponcond: the jump is the last instruction of what it gives. *)
JumpOnCond(Q, cond) ==
    LET i == At(Q.fs, Q.e.info)
        P == Discharge2AnyReg(Q)
        freed == FreeExp(P, P.e)
    IN IF Q.e.k = "VRELOCABLE" /\ i.op = "NOT"
       THEN [Q EXCEPT !.fs = CondJump([@ EXCEPT !.code = SubSeq(@, 1, Pc(Q.fs) - 1)],
                                      "TEST", i.b, 0, 1 - cond)]
       ELSE [freed EXCEPT !.fs = CondJump(@, "TESTSET", NoReg, P.e.info, cond)]

(* Where the jump of a condition is, or NoJump if it needs none. *)
GoIf(Q, always, never, cond) ==
    LET P == Gen(<<"DischargeVars">>, Q)
        jumped == JumpOnCond(P, cond)
    IN CASE P.e.k \in always -> [P |-> P, pc |-> NoJump]
         [] P.e.k = never -> [P |-> [P EXCEPT !.fs = Jump(@)], pc |-> Pc(P.fs)]
         [] P.e.k = "VJMP" ->
                [P |-> IF cond = 0 THEN [P EXCEPT !.fs = InvertJump(@, P.e.info)] ELSE P,
                 pc |-> P.e.info]
         [] OTHER -> [P |-> jumped, pc |-> Pc(jumped.fs) - 1]

GoIfTrue(Q) ==
    LET g == Gen(<<"GoIf", {"VK", "VKNUM", "VTRUE"}, "VFALSE", 0>>, Q)
        e == g.P.e
    IN [g.P EXCEPT !.fs = PatchToHere(Concat(@, e.f, g.pc), e.t),
                   !.e.f = ConcatList(e.f, g.pc), !.e.t = NoJump]

GoIfFalse(Q) ==
    LET g == Gen(<<"GoIf", {"VNIL", "VFALSE"}, "VTRUE", 1>>, Q)
        e == g.P.e
    IN [g.P EXCEPT !.fs = PatchToHere(Concat(@, e.t, g.pc), e.f),
                   !.e.t = ConcatList(e.t, g.pc), !.e.f = NoJump]

(* The lists of the exits change places, and none brings a value. *)
ExitsSwapped(P) ==
    [P EXCEPT !.e.t = P.e.f, !.e.f = P.e.t, !.fs = RemoveValues(RemoveValues(@, P.e.t), P.e.f)]
NotOf(P, reg) == Relocable(P, Code(P.fs, "NOT", 0, reg, 0))
FreeOperand(P) == NotOf(FreeExp(P, P.e), P.e.info)
CodeNot(Q) ==
    LET P == Gen(<<"DischargeVars">>, Q)
    IN ExitsSwapped(
           CASE P.e.k \in {"VNIL", "VFALSE"} -> [P EXCEPT !.e.k = "VTRUE"]
             [] P.e.k \in {"VK", "VKNUM", "VTRUE"} -> [P EXCEPT !.e.k = "VFALSE"]
             [] P.e.k = "VJMP" -> [P EXCEPT !.fs = InvertJump(@, P.e.info)]
             [] OTHER -> FreeOperand(Discharge2AnyReg(P)))

-----------------------------------------------------------------------------
(* Operators. *)

(* constfolding: nothing is divided by zero at compile time. *)
Folds(op, e1, e2) ==
    IsNumeral(e1) /\ IsNumeral(e2) /\ op \notin {"LEN", "CONCAT"}
    /\ ~(op \in {"DIV", "MOD"} /\ e2.nval = 0)

(* codearith, for the operands e1 and P.e *)
CodeArith(P, op, e1) ==
    LET e2 == P.e
        P2 == IF op \in {"UNM", "LEN"} THEN P ELSE Gen(<<"Exp2RK">>, P)
        P1 == Gen(<<"Exp2RK">>, [P2 EXCEPT !.e = e1])
        o1 == Operand(P1.e)
        o2 == IF op \in {"UNM", "LEN"} THEN 0 ELSE Operand(P2.e)
        freed == IF o1 > o2 THEN FreeExp(FreeExp(P1, P1.e), P2.e)
                 ELSE FreeExp(FreeExp(P1, P2.e), P1.e)
    IN IF Folds(op, e1, e2)
       THEN [P EXCEPT !.e = [e1 EXCEPT !.nval = Arithmetic(op, e1.nval, e2.nval)]]
       ELSE Relocable(freed, Code(freed.fs, op, 0, o1, o2))

(* codecomp: > and >= are < and <= with their operands exchanged. *)
CodeComp(P, op, cond, e1) ==
    LET P1 == Gen(<<"Exp2RK">>, [P EXCEPT !.e = e1])
        P2 == Gen(<<"Exp2RK">>, [P1 EXCEPT !.e = P.e])
        freed == FreeExp(FreeExp(P2, P2.e), P1.e)
        swap == cond = 0 /\ op # "EQ"
        o1 == Operand(IF swap THEN P2.e ELSE P1.e)
        o2 == Operand(IF swap THEN P1.e ELSE P2.e)
        coded == CondJump(freed.fs, op, IF swap THEN 1 ELSE cond, o1, o2)
    IN [freed EXCEPT !.fs = coded, !.e = [P1.e EXCEPT !.k = "VJMP", !.info = Pc(coded) - 1]]

Zero == [Exp("VKNUM", 0) EXCEPT !.nval = 0]

Prefix(P, op) ==
    LET arith(Q, opcode) == CodeArith([Q EXCEPT !.e = Zero], opcode, Q.e)
    IN CASE op = "-" -> arith(IF IsNumeral(P.e) THEN P ELSE Gen(<<"Exp2AnyReg">>, P), "UNM")
         [] op = "not" -> CodeNot(P)
         [] op = "#" -> arith(Gen(<<"Exp2AnyReg">>, P), "LEN")

ArithOps == [o \in {"+", "-", "*", "/", "%", "^"} |->
    CASE o = "+" -> "ADD" [] o = "-" -> "SUB" [] o = "*" -> "MUL"
      [] o = "/" -> "DIV" [] o = "%" -> "MOD" [] o = "^" -> "POW"]

Infix(P, op) ==
    CASE op = "and" -> GoIfTrue(P)
      [] op = "or" -> GoIfFalse(P)
      [] op = ".." -> Gen(<<"Exp2NextReg">>, P)
      [] op \in DOMAIN ArithOps -> IF IsNumeral(P.e) THEN P ELSE Gen(<<"Exp2RK">>, P)
      [] OTHER -> Gen(<<"Exp2RK">>, P)

CondOf(op) == IF op \in {"~=", ">", ">="} THEN 0 ELSE 1

(* luaK_posfix, for the operands e1 and Q.e *)
Posfix(Q, op, e1) ==
    LET P == Gen(<<"DischargeVars">>, Q)
        val == Gen(<<"Exp2Val">>, Q)
        last == At(val.fs, val.e.info)
        joined == FreeExp(Sound(val, e1.info = last.b - 1), e1)
    IN CASE op = "and" -> [P EXCEPT !.fs = Concat(@, P.e.f, e1.f),
                                    !.e.f = ConcatList(@, e1.f),
                                    !.fs.sound = @ /\ e1.t = NoJump]
         [] op = "or" -> [P EXCEPT !.fs = Concat(@, P.e.t, e1.t),
                                   !.e.t = ConcatList(@, e1.t),
                                   !.fs.sound = @ /\ e1.f = NoJump]
         [] op = ".." ->
                IF val.e.k = "VRELOCABLE" /\ last.op = "CONCAT"
                THEN [joined EXCEPT !.fs.code[val.e.info + 1].b = e1.info,
                                    !.e = [e1 EXCEPT !.k = "VRELOCABLE", !.info = val.e.info]]
                ELSE CodeArith(Gen(<<"Exp2NextReg">>, val), "CONCAT", e1)
         [] op \in DOMAIN ArithOps -> CodeArith(Q, ArithOps[op], e1)
         [] op \in {"==", "~="} -> CodeComp(Q, "EQ", CondOf(op), e1)
         [] op \in {"<", ">"} -> CodeComp(Q, "LT", CondOf(op), e1)
         [] op \in {"<=", ">="} -> CodeComp(Q, "LE", CondOf(op), e1)
Gen(call, P) ==
    CASE call[1] = "DischargeVars" -> DischargeVars(P)
      [] call[1] = "Exp2Reg" -> Exp2Reg(P, call[2])
      [] call[1] = "Exp2NextReg" -> Exp2NextReg(P)
      [] call[1] = "Exp2AnyReg" -> Exp2AnyReg(P)
      [] call[1] = "Exp2Val" -> Exp2Val(P)
      [] call[1] = "Exp2RK" -> Exp2RK(P)
      [] call[1] = "StoreVar" -> StoreVar(P, call[2])
      [] call[1] = "Indexed" -> Indexed(P, call[2])
      [] call[1] = "Self" -> Self(P, call[2])
      [] call[1] = "GoIf" -> GoIf(P, call[2], call[3], call[4])
      [] call[1] = "GoIfTrue" -> GoIfTrue(P)
      [] call[1] = "Prefix" -> Prefix(P, call[2])
      [] call[1] = "Infix" -> Infix(P, call[2])
      [] call[1] = "Posfix" -> Posfix(P, call[2], call[3])
=============================================================================
