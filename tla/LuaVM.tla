------------------------------- MODULE LuaVM -------------------------------
(***************************************************************************)
(* The Lua virtual machine: the loop of instructions (lualib/lvm.c), calls *)
(* and errors (lualib/ldo.c), upvalues (lualib/lfunc.c) and the functions  *)
(* of the base library that drive them (lualib/lbaselib.c).                *)
(*                                                                         *)
(* m is the machine: the main function of the program, the running thread  *)
(* L, the threads, the objects of the heap and what the program has put    *)
(* out.  A thread has its stack (slots from 0), its top, a CallInfo for    *)
(* every active function, its open upvalues from the top of the stack      *)
(* down, and the count nCcalls of the calls that C made.  Operators take a *)
(* machine M to the machine after them.                                    *)
(*                                                                         *)
(* C calls Lua on the C stack; here the field `then' of a CallInfo tells   *)
(* what its caller does when the function returns, and `stage' where a C   *)
(* function is.  Not modelled: hooks, the growth of the stack, conversions *)
(* between numbers and strings but in a concatenation, the order of        *)
(* strings, environments, and the texts of error messages.                 *)
(***************************************************************************)
EXTENDS LuaValue, SequencesExt, FiniteSets, TLC

CONSTANTS
    MaxTagLoop,   \* MAXTAGLOOP
    MaxCCalls,    \* LUAI_MAXCCALLS
    MaxCalls,     \* the CallInfos that a thread may have
    MinStack      \* LUA_MINSTACK

VARIABLE m

Failure == String("error")
Main == 1

Th(M) == M.threads[M.L]
Ci(M) == Last(Th(M).ci)
Slot(M, i) == Th(M).stack[i + 1]
Slots(M, from, to) == SubSeq(Th(M).stack, from + 1, to)
Nils(n) == IF n <= 0 THEN <<>> ELSE [i \in 1..n |-> Nil]
FirstOf(values, n) == SubSeq(values, 1, IF n < Len(values) THEN n ELSE Len(values))

(* The values vs from slot at on; the stack is made as long as needed. *)
Overwritten(stack, at, vs) ==
    SubSeq(stack, 1, IF at < Len(stack) THEN at ELSE Len(stack)) \o Nils(at - Len(stack))
        \o vs \o SubSeq(stack, at + Len(vs) + 1, Len(stack))
Write(M, at, vs) == [M EXCEPT !.threads[M.L].stack = Overwritten(@, at, vs)]
SetTop(M, top) == [M EXCEPT !.threads[M.L].top = top]
Push(M, vs) == SetTop(Write(M, Th(M).top, vs), Th(M).top + Len(vs))
SetCi(M, ci) == [M EXCEPT !.threads[M.L].ci[Len(Th(M).ci)] = ci]

IsLua(M) == Slot(M, Ci(M).func)[1] = "fun"
ClosureAt(M, func) == M.closures[Slot(M, func)[2]]
ProtoOf(main, path) ==
    LET inner[n \in 0..Len(path)] ==
            IF n = 0 THEN main ELSE inner[n - 1].p[path[n] + 1]
    IN inner[Len(path)]
P(M) == ProtoOf(M.main, ClosureAt(M, Ci(M).func).path)
InstructionAt(M, pc) == P(M).code[pc + 1]

Reg(M, r) == Slot(M, Ci(M).base + r)
SetReg(M, r, v) == Write(M, Ci(M).base + r, <<v>>)
K(M, x) == P(M).k[x + 1]
RK(M, x) == IF IsK(x) THEN K(M, x - BitRK) ELSE Reg(M, x)
DoJump(M, offset) == [M EXCEPT !.threads[M.L].ci[Len(Th(M).ci)].pc = @ + offset]

(* Conditional instructions jump by the JMP behind them, or skip it. *)
CondJump(M, jumps) ==
    DoJump(M, 1 + (IF jumps THEN InstructionAt(M, Ci(M).pc).b ELSE 0))

-----------------------------------------------------------------------------
(* Tables; a metatable is 0 or the table that is it. *)

Get(map, key) == IF key \in DOMAIN map THEN map[key] ELSE Nil
Put(map, key, v) ==
    [x \in (DOMAIN map \ {key}) \cup (IF v = Nil THEN {} ELSE {key}) |->
        IF x = key THEN v ELSE map[x]]
RawGet(M, t, key) == Get(M.tables[t[2]].map, key)
RawSet(M, t, key, v) == [M EXCEPT !.tables[t[2]].map = Put(@, key, v)]
Border(map) == CHOOSE n \in 0..Cardinality(DOMAIN map) :
                   (n = 0 \/ Number(n) \in DOMAIN map) /\ Number(n + 1) \notin DOMAIN map

TagMethod(M, v, event) ==
    IF v[1] # "table" THEN Nil
    ELSE IF M.tables[v[2]].meta = 0 THEN Nil
    ELSE Get(M.tables[M.tables[v[2]].meta].map, String(event))

WithTable(M, map) == [M EXCEPT !.tables = Append(@, [map |-> map, meta |-> 0])]
LastTable(M) == Table(Len(M.tables))

-----------------------------------------------------------------------------
(* Upvalues: open ones live in a slot of their thread. *)

Level(M, id) == M.upvals[id].at
UpvalueGet(M, id) ==
    LET u == M.upvals[id] IN IF u.open THEN M.threads[u.th].stack[u.at + 1] ELSE u.val
UpvalueSet(M, id, v) ==
    LET u == M.upvals[id]
    IN IF u.open THEN [M EXCEPT !.threads[u.th].stack[u.at + 1] = v]
       ELSE [M EXCEPT !.upvals[id].val = v]

(* How many of the open upvalues, from the first, are at the level or over *)
Above(M, level) ==
    LET open == Th(M).openupval
        over == {n \in DOMAIN open : \A i \in 1..n : Level(M, open[i]) >= level}
    IN Cardinality(over)

(* luaF_findupval: the upvalue of a slot, which is FoundUpval after it. *)
FoundUpval(M, level) ==
    LET n == Above(M, level)
    IN IF n > 0 /\ Level(M, Th(M).openupval[n]) = level THEN Th(M).openupval[n] ELSE 0
FindUpval(M, level) ==
    LET uv == [open |-> TRUE, th |-> M.L, at |-> level, val |-> Nil]
    IN IF FoundUpval(M, level) # 0 THEN M
       ELSE [M EXCEPT !.upvals = Append(@, uv),
                      !.threads[M.L].openupval = InsertAt(@, Above(M, level) + 1, Len(M.upvals) + 1)]

(* Mutation: an upvalue at the level itself stays open. *)
CloseOver(M, level) ==
    LET n == Above(M, level + 1)
        closing == {Th(M).openupval[i] : i \in 1..n}
    IN [M EXCEPT !.threads[M.L].openupval = SubSeq(@, n + 1, Len(@)),
                 !.upvals = [id \in DOMAIN @ |->
                    IF id \notin closing THEN @[id]
                    ELSE [@[id] EXCEPT !.open = FALSE, !.val = Slot(M, Level(M, id))]]]

(* luaF_close *)
Close(M, level) ==
    LET n == Above(M, level)
        closing == {Th(M).openupval[i] : i \in 1..n}
    IN [M EXCEPT !.threads[M.L].openupval = SubSeq(@, n + 1, Len(@)),
                 !.upvals = [id \in DOMAIN @ |->
                    IF id \notin closing THEN @[id]
                    ELSE [@[id] EXCEPT !.open = FALSE, !.val = Slot(M, Level(M, id))]]]

-----------------------------------------------------------------------------
(* Errors, calls and returns. *)

(* The end of a resume of this thread: its last n values go to the thread  *)
(* that resumed it, whose call of resume goes on.                          *)
BackToResumer(M, n, stage) ==
    LET th == Th(M)
        values == Slots(M, th.top - n, th.top)
        left == [M EXCEPT !.threads[M.L].top = @ - n, !.threads[M.L].nCcalls = @ - 1,
                          !.L = th.from]
    IN Push(SetCi(left, [Ci(left) EXCEPT !.stage = stage]), values)

(* Mutation: the count of calls stays as the error has found it. *)
ThrowCounting(M, v) ==
    LET th == Th(M)
        catching == {n \in DOMAIN th.ci : th.ci[n].stage = "calls"}
        last == CHOOSE n \in catching : \A o \in catching : o <= n
        caught == Close(M, th.ci[last].base)
        unwound == [caught EXCEPT !.threads[M.L].ci = SubSeq(@, 1, last)]
        dead == [M EXCEPT !.threads[M.L].status = "error"]
    IN IF catching # {}
       THEN Push(SetTop(SetCi(unwound, [th.ci[last] EXCEPT !.stage = "failed"]), th.ci[last].base), <<v>>)
       ELSE IF M.L = Main THEN [M EXCEPT !.outcome = <<"error", v>>]
       ELSE BackToResumer(Push(dead, <<v>>), 1, "failed")

(* luaD_throw, up to the luaD_rawrunprotected that catches: the last pcall *)
(* of the thread, the resume of the thread, or the host of the program.    *)
Throw(M, v) ==
    LET th == Th(M)
        catching == {n \in DOMAIN th.ci : th.ci[n].stage = "calls"}
        last == CHOOSE n \in catching : \A o \in catching : o <= n
        caught == Close(M, th.ci[last].base)
        unwound == [caught EXCEPT !.threads[M.L].ci = SubSeq(@, 1, last),
                                  !.threads[M.L].nCcalls = th.ci[last].nCcalls]
        dead == [M EXCEPT !.threads[M.L].status = "error"]
    IN IF catching # {}
       THEN Push(SetTop(SetCi(unwound, [th.ci[last] EXCEPT !.stage = "failed"]), th.ci[last].base), <<v>>)
       ELSE IF M.L = Main THEN [M EXCEPT !.outcome = <<"error", v>>]
       ELSE BackToResumer(Push(dead, <<v>>), 1, "failed")

(* inc_ci: the CallInfo of the function at func. *)
Enter(M, func, base, top, nresults, then) ==
    IF Len(Th(M).ci) >= MaxCalls THEN Throw(M, Failure)
    ELSE [M EXCEPT !.threads[M.L].ci =
             Append(@, [func |-> func, base |-> base, top |-> top, pc |-> 0, nresults |-> nresults,
                        tailcalls |-> 0, then |-> then, stage |-> "entered", nCcalls |-> 0])]

(* adjust_varargs: the surplus arguments stay below the base. *)
VarargFrame(M, func, p) ==
    LET args == Slots(M, func + 1, Th(M).top)
        fixed == [i \in 1..p.numparams |-> IF i <= Len(args) THEN args[i] ELSE Nil]
        surplus == SubSeq(args, p.numparams + 1, Len(args))
        arg == [x \in {Number(i) : i \in {j \in DOMAIN surplus : surplus[j] # Nil}} \cup {String("n")} |->
                   IF x = String("n") THEN Number(Len(surplus)) ELSE surplus[x[2]]]
        N == IF p.needsArg THEN WithTable(M, arg) ELSE M
        params == fixed \o (IF p.needsArg THEN <<LastTable(N)>> ELSE <<>>)
    IN [M |-> Write(N, func + 1, Nils(p.numparams) \o surplus \o params
                                 \o Nils(p.maxstacksize - Len(params))),
        base |-> func + 1 + p.numparams + Len(surplus)]

FixedFrame(M, func, p) ==
    LET args == Slots(M, func + 1, Th(M).top)
        params == FirstOf(args, p.numparams)
    IN [M |-> Write(M, func + 1, params \o Nils(p.maxstacksize - Len(params))), base |-> func + 1]

(* luaD_precall; a C function is entered and runs in a step of its own, a  *)
(* value that is not a function is called by its __call.                   *)
FrameOf(M, func, p) == IF p.isVararg THEN VarargFrame(M, func, p) ELSE FixedFrame(M, func, p)
EnterLua(frame, func, size, nresults, then) ==
    Enter(SetTop(frame.M, frame.base + size), func, frame.base, frame.base + size, nresults, then)
EnterFunction(M, func, p, nresults, then) ==
    IF Slot(M, func)[1] = "fun" THEN EnterLua(FrameOf(M, func, p), func, p.maxstacksize, nresults, then)
    ELSE Enter(M, func, func + 1, Th(M).top + MinStack, nresults, then)

WithTagMethod(M, func, tm) ==
    SetTop(Write(M, func, <<tm>> \o Slots(M, func, Th(M).top)), Th(M).top + 1)
Callable(M, func) ==
    IF IsFunction(Slot(M, func)) THEN M ELSE WithTagMethod(M, func, TagMethod(M, Slot(M, func), "__call"))
Prepared(M, func, nresults, then) ==
    IF ~IsFunction(Slot(M, func)) THEN Throw(M, Failure)
    ELSE EnterFunction(M, func, ProtoOf(M.main, ClosureAt(M, func).path), nresults, then)
Precall(M, func, nresults, then) == Prepared(Callable(M, func), func, nresults, then)

(* luaD_call *)
Call(M, func, nresults, then) ==
    LET N == [M EXCEPT !.threads[M.L].nCcalls = @ + 1]
        n == Th(N).nCcalls
    IN IF n = MaxCCalls THEN Throw(N, Failure)
       ELSE IF n >= MaxCCalls + MaxCCalls \div 8 THEN Throw(N, String("error in error handling"))
       ELSE Precall(N, func, nresults, then)

(* callTMres and callTM: the function f, from the top of the stack on. *)
CallTM(M, f, args, nresults, then) == Call(Push(M, <<f>> \o args), Th(M).top, nresults, then)

(* luaV_concat of the registers from last - total + 1 to last; the result  *)
(* is moved to register a.                                                 *)
Text(v) == IF v[1] = "num" THEN ToString(v[2]) ELSE v[2]
IsText(v) == v[1] \in {"num", "str"}

RECURSIVE ConcatRegs(_, _, _, _)
ConcatRegs(M, total, last, a) ==
    LET x == Reg(M, last - 1)
        y == Reg(M, last)
        tm == IF TagMethod(M, x, "__concat") # Nil THEN TagMethod(M, x, "__concat")
              ELSE TagMethod(M, y, "__concat")
    IN IF total = 1 THEN SetReg(M, a, Reg(M, last))
       ELSE IF IsText(x) /\ IsText(y)
       THEN ConcatRegs(SetReg(M, last - 1, String(Text(x) \o Text(y))), total - 1, last - 1, a)
       ELSE IF tm = Nil THEN Throw(M, Failure)
       ELSE CallTM(M, tm, <<x, y>>, 1, <<"concat", total - 1, last - 1, a>>)

(* Mutation: the instruction after a call finds the top of the results. *)
ReturnedUnrestored(M, then, nresults) ==
    LET called == [M EXCEPT !.threads[M.L].nCcalls = @ - 1]
        top == Th(M).top
        popped == SetTop(called, top - 1)
        result == Slot(M, top - 1)
        next == Reg(called, then[2] + 3)
    IN CASE then[1] = "lua" -> M
         [] then[1] = "pcall" -> SetCi(called, [Ci(M) EXCEPT !.stage = "returned"])
         [] then[1] = "chunk" -> [called EXCEPT !.outcome = <<"done">>]
         [] then[1] = "coroutine" -> BackToResumer(M, top - Ci(M).base, "returned")
         [] then[1] = "settable" -> called
         [] then[1] = "result" -> SetReg(popped, then[2], result)
         [] then[1] = "condition" -> CondJump(popped, IsFalse(result) # then[2])
         [] then[1] = "concat" ->
                ConcatRegs(SetReg(popped, then[3], result), then[2], then[3], then[4])
         [] then[1] = "for" -> CondJump(SetReg(SetTop(called, Ci(M).top), then[2] + 2, next), TRUE)

(* What the caller does when a function has returned to it: luaV_execute   *)
(* goes on after its OP_CALL (`lua'), or a luaD_call ends.                 *)
Returned(M, then, nresults) ==
    LET restored == SetTop(M, Ci(M).top)
        called == [M EXCEPT !.threads[M.L].nCcalls = @ - 1]
        top == Th(M).top
        popped == SetTop(called, top - 1)
        result == Slot(M, top - 1)
        next == Reg(called, then[2] + 3)
    IN CASE then[1] = "lua" -> IF nresults = MultRet THEN M ELSE restored
         [] then[1] = "pcall" -> SetCi(called, [Ci(M) EXCEPT !.stage = "returned"])
         [] then[1] = "chunk" -> [called EXCEPT !.outcome = <<"done">>]
         [] then[1] = "coroutine" -> BackToResumer(M, top - Ci(M).base, "returned")
         [] then[1] = "settable" -> called
         [] then[1] = "result" -> SetReg(popped, then[2], result)
         [] then[1] = "condition" -> CondJump(popped, IsFalse(result) # then[2])
         [] then[1] = "concat" ->
                ConcatRegs(SetReg(popped, then[3], result), then[2], then[3], then[4])
         [] then[1] = "for" ->
                LET N == SetTop(called, Ci(M).top)
                IN IF next = Nil THEN CondJump(N, FALSE)
                   ELSE CondJump(SetReg(N, then[2] + 2, next), TRUE)

(* luaD_poscall: the results from slot first on go where the function was. *)
Poscall(M, first) ==
    LET ci == Ci(M)
        results == Slots(M, first, Th(M).top)
        wanted == IF ci.nresults = MultRet THEN results
                  ELSE FirstOf(results, ci.nresults) \o Nils(ci.nresults - Len(results))
        left == [Write(M, ci.func, wanted) EXCEPT !.threads[M.L].ci = Front(@)]
    IN Returned(SetTop(left, ci.func + Len(wanted)), ci.then, ci.nresults)

-----------------------------------------------------------------------------
(* Instructions with tag methods. *)

(* luaV_gettable, into register reg *)
RECURSIVE GetTable(_, _, _, _, _)
GetTable(M, t, key, reg, loop) ==
    LET tm == TagMethod(M, t, "__index")
        raw == IF t[1] = "table" THEN RawGet(M, t, key) ELSE Nil
    IN IF loop = MaxTagLoop \/ (t[1] # "table" /\ tm = Nil) THEN Throw(M, Failure)
       ELSE IF t[1] = "table" /\ (raw # Nil \/ tm = Nil) THEN SetReg(M, reg, raw)
       ELSE IF IsFunction(tm) THEN CallTM(M, tm, <<t, key>>, 1, <<"result", reg>>)
       ELSE GetTable(M, tm, key, reg, loop + 1)

(* luaV_settable; a table takes no nil as a key, whatever its metatable. *)
RECURSIVE SetTable(_, _, _, _, _)
SetTable(M, t, key, v, loop) ==
    LET tm == TagMethod(M, t, "__newindex")
        raw == IF t[1] = "table" THEN RawGet(M, t, key) ELSE Nil
    IN IF loop = MaxTagLoop \/ (t[1] = "table" /\ key = Nil /\ raw = Nil)
          \/ (t[1] # "table" /\ tm = Nil) THEN Throw(M, Failure)
       ELSE IF t[1] = "table" /\ (raw # Nil \/ tm = Nil) THEN RawSet(M, t, key, v)
       ELSE IF IsFunction(tm) THEN CallTM(M, tm, <<t, key, v>>, 0, <<"settable">>)
       ELSE SetTable(M, tm, key, v, loop + 1)

(* arith_op, and Arith behind it *)
EventOf(op) == CASE op = "ADD" -> "__add" [] op = "SUB" -> "__sub" [] op = "MUL" -> "__mul"
                 [] op = "DIV" -> "__div" [] op = "MOD" -> "__mod" [] op = "POW" -> "__pow"
                 [] op = "UNM" -> "__unm" [] op = "LEN" -> "__len"

(* call_binTM *)
BinaryTM(M, x, y, reg, event) ==
    LET tm == IF TagMethod(M, x, event) # Nil THEN TagMethod(M, x, event) ELSE TagMethod(M, y, event)
    IN IF tm = Nil THEN Throw(M, Failure) ELSE CallTM(M, tm, <<x, y>>, 1, <<"result", reg>>)

Arith(M, op, x, y, reg) ==
    IF x[1] = "num" /\ y[1] = "num" THEN SetReg(M, reg, Number(Arithmetic(op, x[2], y[2])))
    ELSE BinaryTM(M, x, y, reg, EventOf(op))

(* get_compTM and the test of call_orderTM: both operands have the same    *)
(* function.                                                               *)
CompareTM(M, x, y, event) ==
    IF TagMethod(M, x, event) = TagMethod(M, y, event) THEN TagMethod(M, x, event) ELSE Nil

EqualObj(M, x, y, wanted) ==
    LET tm == CompareTM(M, x, y, "__eq")
    IN IF x[1] # "table" \/ y[1] # "table" \/ x = y \/ tm = Nil THEN CondJump(M, (x = y) = wanted)
       ELSE CallTM(M, tm, <<x, y>>, 1, <<"condition", wanted>>)

LessThan(M, x, y, wanted) ==
    LET lt == CompareTM(M, x, y, "__lt")
    IN IF x[1] = "num" /\ y[1] = "num" THEN CondJump(M, (x[2] < y[2]) = wanted)
       ELSE IF TypeOf(x) # TypeOf(y) \/ lt = Nil THEN Throw(M, Failure)
       ELSE CallTM(M, lt, <<x, y>>, 1, <<"condition", wanted>>)

(* lessequal: without an __le, x <= y is not (y < x). *)
LessEqual(M, x, y, wanted) ==
    LET le == CompareTM(M, x, y, "__le")
    IN IF x[1] = "num" /\ y[1] = "num" THEN CondJump(M, (x[2] <= y[2]) = wanted)
       ELSE IF TypeOf(x) = TypeOf(y) /\ le # Nil
       THEN CallTM(M, le, <<x, y>>, 1, <<"condition", wanted>>)
       ELSE LessThan(M, y, x, ~wanted)

-----------------------------------------------------------------------------
(* luaV_execute: the instruction i, on the machine N that has fetched it. *)

Running == m.outcome = <<"running">>
N == DoJump(m, 1)
i == InstructionAt(m, Ci(m).pc)
Fetches(ops) == Running /\ IsLua(m) /\ i.op \in ops

OpLoad ==
    /\ Fetches({"MOVE", "LOADK", "LOADNIL"})
    /\ m' = CASE i.op = "MOVE" -> SetReg(N, i.a, Reg(N, i.b))
              [] i.op = "LOADK" -> SetReg(N, i.a, K(N, i.b))
              [] i.op = "LOADNIL" -> Write(N, Ci(N).base + i.a, Nils(i.b - i.a + 1))

OpLoadBool ==
    /\ Fetches({"LOADBOOL"})
    /\ m' = DoJump(SetReg(N, i.a, Bool(i.b # 0)), IF i.c # 0 THEN 1 ELSE 0)

UpvalueId(M, n) == ClosureAt(M, Ci(M).func).upvals[n + 1]

OpUpvalue ==
    /\ Fetches({"GETUPVAL", "SETUPVAL"})
    /\ m' = IF i.op = "GETUPVAL" THEN SetReg(N, i.a, UpvalueGet(N, UpvalueId(N, i.b)))
            ELSE UpvalueSet(N, UpvalueId(N, i.b), Reg(N, i.a))

Globals == Table(1)
OpGlobal ==
    /\ Fetches({"GETGLOBAL", "SETGLOBAL"})
    /\ m' = IF i.op = "GETGLOBAL" THEN GetTable(N, Globals, K(N, i.b), i.a, 0)
            ELSE SetTable(N, Globals, K(N, i.b), Reg(N, i.a), 0)

OpTable ==
    /\ Fetches({"GETTABLE", "SETTABLE", "SELF"})
    /\ m' = CASE i.op = "GETTABLE" -> GetTable(N, Reg(N, i.b), RK(N, i.c), i.a, 0)
              [] i.op = "SETTABLE" -> SetTable(N, Reg(N, i.a), RK(N, i.b), RK(N, i.c), 0)
              [] i.op = "SELF" ->
                     LET object == Reg(N, i.b)
                         M == SetReg(N, i.a + 1, object)
                     IN GetTable(M, object, RK(M, i.c), i.a, 0)

OpNewTable ==
    /\ Fetches({"NEWTABLE"})
    /\ LET M == WithTable(N, <<>>) IN m' = SetReg(M, i.a, LastTable(M))

OpArith ==
    /\ Fetches({"ADD", "SUB", "MUL", "DIV", "MOD", "POW", "UNM"})
    /\ m' = IF i.op = "UNM" THEN Arith(N, i.op, Reg(N, i.b), Reg(N, i.b), i.a)
            ELSE Arith(N, i.op, RK(N, i.b), RK(N, i.c), i.a)

OpNot == Fetches({"NOT"}) /\ m' = SetReg(N, i.a, Bool(IsFalse(Reg(N, i.b))))

OpLen ==
    /\ Fetches({"LEN"})
    /\ LET v == Reg(N, i.b)
       IN m' = CASE v[1] = "table" -> SetReg(N, i.a, Number(Border(N.tables[v[2]].map)))
                 [] v[1] = "str" -> SetReg(N, i.a, Number(Len(v[2])))
                 [] v[1] \notin {"table", "str"} -> BinaryTM(N, v, Nil, i.a, "__len")

OpConcat == Fetches({"CONCAT"}) /\ m' = ConcatRegs(N, i.c - i.b + 1, i.c, i.a)

OpJmp == Fetches({"JMP"}) /\ m' = DoJump(N, i.b)

OpCompare ==
    /\ Fetches({"EQ", "LT", "LE"})
    /\ LET x == RK(N, i.b)
           y == RK(N, i.c)
       IN m' = CASE i.op = "EQ" -> EqualObj(N, x, y, i.a = 1)
                 [] i.op = "LT" -> LessThan(N, x, y, i.a = 1)
                 [] i.op = "LE" -> LessEqual(N, x, y, i.a = 1)

OpTest ==
    /\ Fetches({"TEST", "TESTSET"})
    /\ LET v == Reg(N, IF i.op = "TEST" THEN i.a ELSE i.b)
           jumps == IsFalse(v) # (i.c = 1)
       IN m' = CondJump(IF i.op = "TESTSET" /\ jumps THEN SetReg(N, i.a, v) ELSE N, jumps)

RA(M) == Ci(M).base + i.a
WithArgs(M) == IF i.b # 0 THEN SetTop(M, RA(M) + i.b) ELSE M

OpCall == Fetches({"CALL"}) /\ m' = Precall(WithArgs(N), RA(N), i.c - 1, <<"lua">>)

(* The new frame takes the place of the frame of its caller. *)
MovedDown(M) ==
    LET ci == Th(M).ci
        new == Last(ci)
        old == ci[Len(ci) - 1]
        top == old.func + (Th(M).top - new.func)
        closed == [Close([M EXCEPT !.threads[M.L].ci = Front(@)], old.base)
                      EXCEPT !.threads[M.L].ci[Len(ci) - 1] =
                          [old EXCEPT !.base = old.func + (new.base - new.func), !.top = top,
                                      !.pc = 0, !.tailcalls = @ + 1]]
    IN SetTop(Write(closed, old.func, Slots(M, new.func, Th(M).top)), top)

OpTailCall ==
    /\ Fetches({"TAILCALL"})
    /\ LET called == Precall(WithArgs(N), RA(N), MultRet, <<"lua">>)
           isLua == called.L = m.L /\ Len(Th(called).ci) > Len(Th(m).ci) /\ IsLua(called)
       IN m' = IF isLua THEN MovedDown(called) ELSE called

OpReturn ==
    /\ Fetches({"RETURN"})
    /\ LET M == IF i.b # 0 THEN SetTop(N, RA(N) + i.b - 1) ELSE N
       IN m' = Poscall(Close(M, Ci(M).base), RA(M))

OpForPrep ==
    /\ Fetches({"FORPREP"})
    /\ m' = IF \E r \in 0..2 : Reg(N, i.a + r)[1] # "num" THEN Throw(N, Failure)
            ELSE DoJump(SetReg(N, i.a, Number(Reg(N, i.a)[2] - Reg(N, i.a + 2)[2])), i.b)

OpForLoop ==
    /\ Fetches({"FORLOOP"})
    /\ LET step == Reg(N, i.a + 2)[2]
           idx == Reg(N, i.a)[2] + step
           limit == Reg(N, i.a + 1)[2]
       IN m' = IF IF 0 < step THEN idx <= limit ELSE limit <= idx
               THEN DoJump(SetReg(SetReg(N, i.a, Number(idx)), i.a + 3, Number(idx)), i.b)
               ELSE N

OpTForLoop ==
    /\ Fetches({"TFORLOOP"})
    /\ LET cb == RA(N) + 3
           M == SetTop(Write(N, cb, Slots(N, RA(N), RA(N) + 3)), cb + 3)
       IN m' = Call(M, cb, i.c, <<"for", i.a>>)

OpSetList ==
    /\ Fetches({"SETLIST"})
    /\ LET n == IF i.b = 0 THEN Th(N).top - RA(N) - 1 ELSE i.b
           M == IF i.b = 0 THEN SetTop(N, Ci(N).top) ELSE N
           c == IF i.c = 0 THEN InstructionAt(M, Ci(M).pc).b ELSE i.c
           counted == IF i.c = 0 THEN DoJump(M, 1) ELSE M
           stored[j \in 0..n] ==
               IF j = 0 THEN counted
               ELSE RawSet(stored[j - 1], Reg(N, i.a), Number((c - 1) * FieldsPerFlush + j),
                           Reg(N, i.a + j))
       IN m' = stored[n]

OpClose == Fetches({"CLOSE"}) /\ m' = Close(N, RA(N))

OpClosure ==
    /\ Fetches({"CLOSURE"})
    /\ LET parent == ClosureAt(N, Ci(N).func)
           nup == P(N).p[i.b + 1].nups
           pseudo(j) == InstructionAt(N, Ci(N).pc + j - 1)
           level(j) == Ci(N).base + pseudo(j).b
           found[j \in 0..nup] ==
               IF j = 0 THEN N
               ELSE IF pseudo(j).op = "GETUPVAL" THEN found[j - 1] ELSE FindUpval(found[j - 1], level(j))
           M == found[nup]
           upvals == [j \in 1..nup |-> IF pseudo(j).op = "GETUPVAL" THEN parent.upvals[pseudo(j).b + 1]
                                       ELSE FoundUpval(M, level(j))]
           closed == [M EXCEPT !.closures = Append(@, [path |-> Append(parent.path, i.b),
                                                       upvals |-> upvals])]
       IN m' = DoJump(SetReg(closed, i.a, LuaFunction(Len(closed.closures))), nup)

OpVararg ==
    /\ Fetches({"VARARG"})
    /\ LET n == Ci(N).base - Ci(N).func - P(N).numparams - 1
           wanted == IF i.b = 0 THEN n ELSE i.b - 1
           surplus == Slots(N, Ci(N).base - n, Ci(N).base)
           M == Write(N, RA(N), FirstOf(surplus, wanted) \o Nils(wanted - n))
       IN m' = IF i.b = 0 THEN SetTop(M, RA(N) + n) ELSE M

-----------------------------------------------------------------------------
(* Functions written in C.  CReturn is their return with results. *)

Runs(name, stages) ==
    /\ Running
    /\ Slot(m, Ci(m).func) = CFunction(name)
    /\ Ci(m).stage \in stages
Args == Slots(m, Ci(m).base, Th(m).top)
Arg(n) == IF n <= Len(Args) THEN Args[n] ELSE Nil
CReturn(M, results) == Poscall(Push(M, results), Th(M).top)

(* The function that the programs are observed by. *)
Out ==
    /\ Runs("out", {"entered"})
    /\ m' = CReturn([m EXCEPT !.out = @ \o Args], <<>>)

LuaError ==
    /\ Runs("error", {"entered"})
    /\ m' = Throw(m, IF IsText(Arg(1)) THEN String("at: " \o Text(Arg(1))) ELSE Arg(1))

(* luaB_setmetatable *)
SetMetatable ==
    /\ Runs("setmetatable", {"entered"})
    /\ LET meta == IF Arg(2) = Nil THEN 0 ELSE Arg(2)[2]
           wrong == Arg(1)[1] # "table" \/ Len(Args) < 2 \/ Arg(2)[1] \notin {"nil", "table"}
       IN m' = IF wrong \/ TagMethod(m, Arg(1), "__metatable") # Nil THEN Throw(m, Failure)
               ELSE CReturn([m EXCEPT !.tables[Arg(1)[2]].meta = meta], <<Arg(1)>>)

(* luaB_ipairs and ipairsaux *)
IPairs ==
    /\ Runs("ipairs", {"entered"})
    /\ m' = IF Arg(1)[1] # "table" THEN Throw(m, Failure)
            ELSE CReturn(m, <<CFunction("inext"), Arg(1), Number(0)>>)
INext ==
    /\ Runs("inext", {"entered"})
    /\ LET next == Number(Arg(2)[2] + 1)
       IN m' = CReturn(m, IF RawGet(m, Arg(1), next) = Nil THEN <<>> ELSE <<next, RawGet(m, Arg(1), next)>>)

(* luaB_pcall and lua_pcall; the CallInfo keeps what luaD_pcall restores. *)
Pcall ==
    /\ Runs("pcall", {"entered"})
    /\ m' = IF Args = <<>> THEN Throw(m, Failure)
            ELSE Call(SetCi(m, [Ci(m) EXCEPT !.stage = "calls", !.nCcalls = Th(m).nCcalls]),
                      Ci(m).base, MultRet, <<"pcall">>)
PcallReturns ==
    /\ Runs("pcall", {"returned", "failed"})
    /\ m' = CReturn(m, <<Bool(Ci(m).stage = "returned")>> \o Args)

(* costatus, of a thread that is not the running one *)
CoStatus(M, co) ==
    LET th == M.threads[co]
    IN IF co = M.L THEN "running"
       ELSE IF th.status = "yield" THEN "suspended"
       ELSE IF th.status = "error" THEN "dead"
       ELSE IF Len(th.ci) > 1 THEN "normal"
       ELSE IF th.top = th.ci[1].base THEN "dead" ELSE "suspended"

(* What a new thread is (lua_newthread), with the values vs on its stack. *)
NewThread(vs) ==
    [stack |-> <<Nil>> \o vs, top |-> 1 + Len(vs), status |-> "ok", openupval |-> <<>>,
     nCcalls |-> 0, baseCcalls |-> 0, from |-> 0,
     ci |-> <<[func |-> 0, base |-> 1, top |-> 1 + MinStack, pc |-> 0, nresults |-> 0,
               tailcalls |-> 0, then |-> <<"base">>, stage |-> "base", nCcalls |-> 0]>>]

CoCreate ==
    /\ Runs("create", {"entered"})
    /\ m' = IF Arg(1)[1] # "fun" THEN Throw(m, Failure)
            ELSE CReturn([m EXCEPT !.threads = Append(@, NewThread(<<Arg(1)>>))],
                         <<Thread(Len(m.threads) + 1)>>)

CoStatusOf ==
    /\ Runs("status", {"entered"})
    /\ m' = IF Arg(1)[1] # "thread" THEN Throw(m, Failure)
            ELSE CReturn(m, <<String(CoStatus(m, Arg(1)[2]))>>)

(* auxresume and lua_resume: the arguments move to the coroutine, which    *)
(* starts its function, or returns from the yield it is in.                *)
CoResume ==
    /\ Runs("resume", {"entered"})
    /\ LET co == Arg(1)[2]
           args == Tail(Args)
           waits == [SetTop(SetCi(m, [Ci(m) EXCEPT !.stage = "resumes"]), Ci(m).base + 1)
                        EXCEPT !.L = co, !.threads[co].from = m.L, !.threads[co].status = "ok",
                               !.threads[co].nCcalls = @ + 1,
                               !.threads[co].baseCcalls = m.threads[co].nCcalls + 1]
           given == Push(waits, args)
           firstArg == Th(waits).top
       IN m' = IF Arg(1)[1] # "thread" THEN Throw(m, Failure)
               ELSE IF CoStatus(m, co) # "suspended"
               THEN CReturn(m, <<Bool(FALSE), String(CoStatus(m, co))>>)
               ELSE IF m.threads[co].status = "ok"
               THEN Precall(given, firstArg - 1, MultRet, <<"coroutine">>)
               ELSE Poscall(given, firstArg)
ResumeReturns ==
    /\ Runs("resume", {"returned", "failed"})
    /\ m' = CReturn(m, <<Bool(Ci(m).stage = "returned")>> \o Tail(Args))

(* lua_yield; not across a call that C made. *)
CoYield ==
    /\ Runs("yield", {"entered"})
    /\ m' = IF Th(m).nCcalls > Th(m).baseCcalls THEN Throw(m, Failure)
            ELSE BackToResumer([m EXCEPT !.threads[m.L].status = "yield"], Len(Args), "returned")

-----------------------------------------------------------------------------
(* A program is started by its host (docall of lua.c, without a handler). *)

Library == {"out", "error", "pcall", "setmetatable", "ipairs", "create", "resume", "yield", "status"}

Loaded(main) ==
    [main |-> main, L |-> Main, threads |-> <<NewThread(<<LuaFunction(1)>>)>>,
     closures |-> <<[path |-> <<>>, upvals |-> <<>>]>>, upvals |-> <<>>,
     tables |-> <<[map |-> [x \in {String(f) : f \in Library} |-> CFunction(x[2])], meta |-> 0]>>,
     out |-> <<>>, outcome |-> <<"loaded">>]

Start ==
    /\ m.outcome = <<"loaded">>
    /\ m' = Call([m EXCEPT !.outcome = <<"running">>], 1, 0, <<"chunk">>)

Execute ==
    \/ OpLoad \/ OpLoadBool \/ OpUpvalue \/ OpGlobal \/ OpTable \/ OpNewTable \/ OpArith \/ OpNot
    \/ OpLen \/ OpConcat \/ OpJmp \/ OpCompare \/ OpTest \/ OpCall \/ OpTailCall \/ OpReturn
    \/ OpForPrep \/ OpForLoop \/ OpTForLoop \/ OpSetList \/ OpClose \/ OpClosure \/ OpVararg

CallsC ==
    \/ Out \/ LuaError \/ SetMetatable \/ IPairs \/ INext \/ Pcall \/ PcallReturns
    \/ CoCreate \/ CoStatusOf \/ CoResume \/ ResumeReturns \/ CoYield

Ended == m.outcome[1] \in {"done", "error"} /\ UNCHANGED m

Next == Start \/ Execute \/ CallsC \/ Ended
-----------------------------------------------------------------------------
(* Properties. *)

(* Between two instructions of a Lua function the top of the stack is the  *)
(* top of its frame, but in front of an instruction that takes all values  *)
(* up to the top (the assertion of luaV_execute, lualib/lvm.c): a call, a  *)
(* metamethod or an error that was caught must each leave it so.           *)
TopDiscipline ==
    m.outcome = <<"running">> =>
        \/ ~IsLua(m)
        \/ Th(m).top = Ci(m).top
        \/ LET next == InstructionAt(m, Ci(m).pc)
           IN next.op \in {"CALL", "TAILCALL", "RETURN", "SETLIST"} /\ next.b = 0

(* Every open upvalue lies in the frame of an active Lua function, under   *)
(* the functions it has called, and each thread has them from the top      *)
(* down, one for a slot: a return, a tail call, the end of a block and an  *)
(* error that is caught close those of the frames they leave               *)
(* (luaF_findupval and luaF_close of lualib/lfunc.c).                      *)
UpvaluesLive ==
    m.outcome = <<"running">> =>
        \A t \in DOMAIN m.threads :
            LET th == m.threads[t]
                at == [n \in DOMAIN th.openupval |-> m.upvals[th.openupval[n]].at]
                inFrame(c, level) ==
                    /\ th.stack[th.ci[c].func + 1][1] = "fun"
                    /\ th.ci[c].base <= level /\ level < th.ci[c].top
                    /\ c < Len(th.ci) => level < th.ci[c + 1].func
            IN /\ \A n \in DOMAIN at : n > 1 => at[n] < at[n - 1]
               /\ \A n \in DOMAIN at :
                     /\ m.upvals[th.openupval[n]].open /\ m.upvals[th.openupval[n]].th = t
                     /\ \E c \in DOMAIN th.ci : inFrame(c, at[n])

(* A thread counts the calls that C has made and that have not returned,   *)
(* and the resume it runs in: whichever way such a call ends, by a return, *)
(* an error or a yield, the count is right again (nCcalls of               *)
(* lualib/ldo.c), or the limit of LUAI_MAXCCALLS is met too early or late. *)
CallsCounted ==
    m.outcome = <<"running">> =>
        \A t \in DOMAIN m.threads :
            LET th == m.threads[t]
                byC == {c \in DOMAIN th.ci : th.ci[c].then[1] \notin {"base", "lua", "coroutine"}}
                resumes == IF t # Main /\ th.status = "ok" /\ Len(th.ci) > 1 THEN 1 ELSE 0
            IN th.status = "error" \/ th.nCcalls = Cardinality(byC) + resumes
=============================================================================
