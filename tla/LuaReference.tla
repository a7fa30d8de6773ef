---------------------------- MODULE LuaReference ----------------------------
(***************************************************************************)
(* What Lua programs mean: programs as trees, the tokens they are written  *)
(* with, and an evaluator that follows the tree.  It knows neither code    *)
(* nor registers; the compiler and the virtual machine are compared with   *)
(* it.                                                                     *)
(*                                                                         *)
(* Expressions: a constant, <<"var", name>>, <<"dots">>, <<"paren", e>>,   *)
(* <<"un", op, e>>, <<"bin", op, e1, e2>>, <<"index", t, k>>,              *)
(* <<"call", f, args>>, <<"method", object, name, args>>,                  *)
(* <<"function", params, isVararg, body>>, and <<"record", items>> where   *)
(* an item is <<"item", e>> or <<"field", k, e>>.                          *)
(***************************************************************************)
EXTENDS LuaValue, SequencesExt, FiniteSets, TLC

-----------------------------------------------------------------------------
(* Tokens. *)

Level(e) ==
    CASE e[1] = "un" -> 7
      [] e[1] = "bin" -> (CASE e[2] = "or" -> 1 [] e[2] = "and" -> 2 [] e[2] = ".." -> 4
                            [] e[2] \in {"+", "-"} -> 5 [] e[2] \in {"*", "/", "%"} -> 6
                            [] e[2] = "^" -> 8 [] OTHER -> 3)
      [] OTHER -> 9
RightAssociative == {"..", "^"}

Word(w) == <<<<w>>>>
Name(x) == <<<<"name", x>>>>
Flat(ss) == FlattenSeq(ss)
Separated(ss) == Flat([n \in DOMAIN ss |-> IF n = 1 THEN ss[n] ELSE Word(",") \o ss[n]])
Names(xs) == Separated([n \in DOMAIN xs |-> Name(xs[n])])

RECURSIVE Tokens(_), Statements(_)
Around(e, needed) == IF needed THEN Word("(") \o Tokens(e) \o Word(")") ELSE Tokens(e)
List(es) == Separated([n \in DOMAIN es |-> Tokens(es[n])])
PrefixTokens(e) == Around(e, e[1] \notin {"var", "call", "method", "index", "paren"})
Arguments(es) ==
    IF Len(es) = 1 /\ es[1][1] \in {"str", "record"} THEN Tokens(es[1])
    ELSE Word("(") \o List(es) \o Word(")")
FunctionBody(params, isVararg, body) ==
    Word("(") \o Names(params)
    \o (IF ~isVararg THEN <<>> ELSE IF params = <<>> THEN Word("...") ELSE Word(",") \o Word("..."))
    \o Word(")") \o Statements(body) \o Word("end")
Item(it) ==
    IF it[1] = "item" THEN Tokens(it[2])
    ELSE (IF it[2][1] = "str" THEN Name(it[2][2]) ELSE Word("[") \o Tokens(it[2]) \o Word("]"))
         \o Word("=") \o Tokens(it[3])

Tokens(e) ==
    CASE e[1] = "nil" -> Word("nil")
      [] e[1] = "bool" -> Word(IF e[2] THEN "true" ELSE "false")
      [] e[1] = "num" -> <<<<"number", e[2]>>>>
      [] e[1] = "str" -> <<<<"string", e[2]>>>>
      [] e[1] = "var" -> Name(e[2])
      [] e[1] = "dots" -> Word("...")
      [] e[1] = "paren" -> Around(e[2], TRUE)
      [] e[1] = "un" -> Word(e[2]) \o Around(e[3], Level(e[3]) < 7)
      [] e[1] = "bin" ->
             LET right == e[2] \in RightAssociative
             IN Around(e[3], Level(e[3]) < Level(e) \/ (Level(e[3]) = Level(e) /\ right))
                \o Word(e[2])
                \o Around(e[4], Level(e[4]) < Level(e) \/ (Level(e[4]) = Level(e) /\ ~right))
      [] e[1] = "index" ->
             PrefixTokens(e[2]) \o (IF e[3][1] = "str" THEN Word(".") \o Name(e[3][2])
                                    ELSE Word("[") \o Tokens(e[3]) \o Word("]"))
      [] e[1] = "call" -> PrefixTokens(e[2]) \o Arguments(e[3])
      [] e[1] = "method" -> PrefixTokens(e[2]) \o Word(":") \o Name(e[3]) \o Arguments(e[4])
      [] e[1] = "function" -> Word("function") \o FunctionBody(e[2], e[3], e[4])
      [] e[1] = "record" ->
             Word("{") \o Separated([n \in DOMAIN e[2] |-> Item(e[2][n])]) \o Word("}")

(* Statements, as they are listed in Exec below. *)
StatementTokens(s) ==
    CASE s[1] = "local" ->
             Word("local") \o Names(s[2]) \o (IF s[3] = <<>> THEN <<>> ELSE Word("=") \o List(s[3]))
             \o Word(";")
      [] s[1] = "set" -> List(s[2]) \o Word("=") \o List(s[3])
      [] s[1] = "do" -> Word("do") \o Statements(s[2]) \o Word("end")
      [] s[1] = "if" ->
             Word("if") \o Tokens(s[2]) \o Word("then") \o Statements(s[3])
             \o (CASE s[4] = <<>> -> Word("end")
                   [] Len(s[4]) = 1 /\ s[4][1][1] = "if" ->
                          Word("elseif") \o Tail(Statements(s[4]))
                   [] OTHER -> Word("else") \o Statements(s[4]) \o Word("end"))
      [] s[1] = "while" ->
             Word("while") \o Tokens(s[2]) \o Word("do") \o Statements(s[3]) \o Word("end")
      [] s[1] = "repeat" -> Word("repeat") \o Statements(s[2]) \o Word("until") \o Tokens(s[3])
      [] s[1] = "fornum" ->
             Word("for") \o Name(s[2]) \o Word("=") \o List(s[3]) \o Word("do") \o Statements(s[4])
             \o Word("end")
      [] s[1] = "forin" ->
             Word("for") \o Names(s[2]) \o Word("in") \o List(s[3]) \o Word("do") \o Statements(s[4])
             \o Word("end")
      [] s[1] = "localfunction" ->
             Word("local") \o Word("function") \o Name(s[2]) \o Tail(Tokens(s[3]))
      [] s[1] = "defun" -> Word("function") \o Tokens(s[2]) \o Tail(Tokens(s[3]))
      [] s[1] = "expr" -> Tokens(s[2])
      [] s[1] \in {"break", "continue"} ->
             Word(s[1]) \o (IF s[2] = 1 THEN <<>> ELSE <<<<"number", s[2]>>>>)
      [] s[1] = "return" -> Word("return") \o List(s[2])
Statements(body) == Flat([n \in DOMAIN body |-> StatementTokens(body[n])])

Source(body) == Statements(body) \o Word("eos")

-----------------------------------------------------------------------------
(* Evaluation.  A result is [ok, vs, S]: the values, or the error if it is *)
(* not ok, and the store: cells of variables, tables, functions, output.   *)

Ok(vs, S) == [ok |-> TRUE, vs |-> vs, S |-> S]
Fails(v, S) == [ok |-> FALSE, vs |-> <<v>>, S |-> S]
Wrong(S) == Fails(String("error"), S)
FirstOf(r) == IF ~r.ok THEN r ELSE [r EXCEPT !.vs = IF @ = <<>> THEN <<Nil>> ELSE <<@[1]>>]
ValueAt(vs, n) == IF n <= Len(vs) THEN vs[n] ELSE Nil

Lookup(S, t, key) == IF key \in DOMAIN S.tables[t[2]].map THEN S.tables[t[2]].map[key] ELSE Nil
Store(S, t, key, v) ==
    [S EXCEPT !.tables[t[2]].map =
        [x \in (DOMAIN @ \ {key}) \cup (IF v = Nil THEN {} ELSE {key}) |->
            IF x = key THEN v ELSE @[x]]]
Meta(S, v, event) ==
    IF v[1] # "table" THEN Nil
    ELSE IF S.tables[v[2]].meta = 0 THEN Nil ELSE Lookup(S, Table(S.tables[v[2]].meta), String(event))

NewCells(S, vs) == [S EXCEPT !.cells = @ \o vs]
Declared(env, S, xs) ==
    [x \in DOMAIN env \cup ToSet(xs) |->
        IF x \in ToSet(xs) THEN Len(S.cells) + (CHOOSE n \in DOMAIN xs : xs[n] = x) ELSE env[x]]
Adjusted(vs, n) == [j \in 1..n |-> ValueAt(vs, j)]

(* By(<<operation, argument...>>, S): an operation on the store S. *)
RECURSIVE By(_, _)

Index(t, key, S) ==
    LET h == Meta(S, t, "__index")
    IN IF t[1] = "table" /\ (h = Nil \/ Lookup(S, t, key) # Nil) THEN Ok(<<Lookup(S, t, key)>>, S)
       ELSE IF h = Nil THEN Wrong(S)
       ELSE IF IsFunction(h) THEN FirstOf(By(<<"Apply", h, <<t, key>>>>, S)) ELSE By(<<"Index", h, key>>, S)

Assign(t, key, v, S) ==
    LET h == Meta(S, t, "__newindex")
    IN IF t[1] = "table" /\ (h = Nil \/ Lookup(S, t, key) # Nil)
       THEN IF key = Nil THEN Wrong(S) ELSE Ok(<<>>, Store(S, t, key, v))
       ELSE IF h = Nil THEN Wrong(S)
       ELSE IF IsFunction(h) THEN By(<<"Apply", h, <<t, key, v>>>>, S) ELSE By(<<"Assign", h, key, v>>, S)

Truth(r, yes) == IF r.ok THEN Ok(<<Bool(IsFalse(FirstOf(r).vs[1]) # yes)>>, r.S) ELSE r
ByMeta(x, y, S, event) ==
    LET h == IF Meta(S, x, event) # Nil THEN Meta(S, x, event) ELSE Meta(S, y, event)
    IN IF h = Nil THEN Wrong(S) ELSE FirstOf(By(<<"Apply", h, <<x, y>>>>, S))
BothMeta(x, y, S, event) ==
    IF Meta(S, x, event) = Meta(S, y, event) THEN Meta(S, x, event) ELSE Nil
IsNum(v) == v[1] = "num"
AsText(v) == IF IsNum(v) THEN ToString(v[2]) ELSE v[2]

Equals(x, y, S, yes) ==
    LET h == BothMeta(x, y, S, "__eq")
    IN IF x = y \/ h = Nil THEN Ok(<<Bool((x = y) = yes)>>, S) ELSE Truth(By(<<"Apply", h, <<x, y>>>>, S), yes)
Less(x, y, S, yes) ==
    LET h == BothMeta(x, y, S, "__lt")
    IN IF IsNum(x) /\ IsNum(y) THEN Ok(<<Bool((x[2] < y[2]) = yes)>>, S)
       ELSE IF h = Nil THEN Wrong(S) ELSE Truth(By(<<"Apply", h, <<x, y>>>>, S), yes)
AtMost(x, y, S) ==
    LET h == BothMeta(x, y, S, "__le")
    IN IF IsNum(x) /\ IsNum(y) THEN Ok(<<Bool(x[2] <= y[2])>>, S)
       ELSE IF h # Nil THEN Truth(By(<<"Apply", h, <<x, y>>>>, S), TRUE) ELSE Less(y, x, S, FALSE)

Arithmetics == [op \in {"+", "-", "*", "/", "%", "^"} |->
    CASE op = "+" -> <<"ADD", "__add">> [] op = "-" -> <<"SUB", "__sub">>
      [] op = "*" -> <<"MUL", "__mul">> [] op = "/" -> <<"DIV", "__div">>
      [] op = "%" -> <<"MOD", "__mod">> [] op = "^" -> <<"POW", "__pow">>]

Binary(op, x, y, S) ==
    CASE op = "==" -> Equals(x, y, S, TRUE)
      [] op = "~=" -> Equals(x, y, S, FALSE)
      [] op = "<" -> Less(x, y, S, TRUE)
      [] op = ">" -> Less(y, x, S, TRUE)
      [] op = "<=" -> AtMost(x, y, S)
      [] op = ">=" -> AtMost(y, x, S)
      [] op = ".." -> IF x[1] \in {"num", "str"} /\ y[1] \in {"num", "str"}
                      THEN Ok(<<String(AsText(x) \o AsText(y))>>, S) ELSE ByMeta(x, y, S, "__concat")
      [] OTHER -> IF IsNum(x) /\ IsNum(y)
                  THEN Ok(<<Number(Arithmetic(Arithmetics[op][1], x[2], y[2]))>>, S)
                  ELSE ByMeta(x, y, S, Arithmetics[op][2])

LengthOf(v, S) == CHOOSE n \in 0..Cardinality(DOMAIN S.tables[v[2]].map) :
    (n = 0 \/ Lookup(S, v, Number(n)) # Nil) /\ Lookup(S, v, Number(n + 1)) = Nil
Unary(op, x, S) ==
    CASE op = "not" -> Ok(<<Bool(IsFalse(x))>>, S)
      [] op = "-" -> IF IsNum(x) THEN Ok(<<Number(-x[2])>>, S) ELSE ByMeta(x, x, S, "__unm")
      [] op = "#" -> IF x[1] = "table" THEN Ok(<<Number(LengthOf(x, S))>>, S)
                     ELSE IF x[1] = "str" THEN Ok(<<Number(Len(x[2]))>>, S) ELSE Wrong(S)

(* The items of a constructor from the n-th on, at of them in the list. *)
RECURSIVE Items(_, _, _, _, _, _)
Items(items, n, at, t, env, S) ==
    LET it == items[n]
        key == FirstOf(By(<<"Eval", it[2], env>>, S))
        val == FirstOf(By(<<"Eval", it[3], env>>, key.S))
        all == By(<<"Eval", it[2], env>>, S)
        one == IF n = Len(items) THEN all ELSE FirstOf(all)
        stored[j \in 0..Len(one.vs)] ==
            IF j = 0 THEN one.S ELSE Store(stored[j - 1], t, Number(at + j), one.vs[j])
    IN IF n > Len(items) THEN Ok(<<t>>, S)
       ELSE IF it[1] = "item"
       THEN IF ~one.ok THEN one ELSE Items(items, n + 1, at + 1, t, env, stored[Len(one.vs)])
       ELSE IF ~key.ok THEN key ELSE IF ~val.ok THEN val
       ELSE IF key.vs[1] = Nil THEN Wrong(val.S)
       ELSE Items(items, n + 1, at, t, env, Store(val.S, t, key.vs[1], val.vs[1]))

Eval(e, env, S) ==
    LET one == FirstOf(By(<<"Eval", e[2], env>>, S))
        left == FirstOf(By(<<"Eval", e[3], env>>, S))
        right == FirstOf(By(<<"Eval", e[4], env>>, left.S))
        key == FirstOf(By(<<"Eval", e[3], env>>, one.S))
        operand == FirstOf(By(<<"Eval", e[3], env>>, S))
        args == By(<<"EvalList", e[3], env>>, one.S)
        method == By(<<"Index", one.vs[1], String(e[3])>>, one.S)
        margs == By(<<"EvalList", e[4], env>>, method.S)
        fun == [params |-> e[2], isVararg |-> e[3], body |-> e[4], env |-> env]
        table == [S EXCEPT !.tables = Append(@, [map |-> <<>>, meta |-> 0])]
    IN CASE e[1] \in {"nil", "bool", "num", "str"} -> Ok(<<e>>, S)
         [] e[1] = "var" -> IF e[2] \in DOMAIN env THEN Ok(<<S.cells[env[e[2]]]>>, S)
                            ELSE By(<<"Index", Table(1), String(e[2])>>, S)
         [] e[1] = "dots" -> Ok(S.cells[env["..."]], S)
         [] e[1] = "paren" -> one
         [] e[1] = "un" -> IF operand.ok THEN Unary(e[2], operand.vs[1], operand.S) ELSE operand
         [] e[1] = "bin" ->
                IF ~left.ok \/ (e[2] \in {"and", "or"} /\ IsFalse(left.vs[1]) = (e[2] = "and")) THEN left
                ELSE IF ~right.ok \/ e[2] \in {"and", "or"} THEN right
                ELSE Binary(e[2], left.vs[1], right.vs[1], right.S)
         [] e[1] = "index" -> IF ~one.ok THEN one ELSE IF ~key.ok THEN key
                              ELSE By(<<"Index", one.vs[1], key.vs[1]>>, key.S)
         [] e[1] = "call" -> IF ~one.ok THEN one ELSE IF ~args.ok THEN args
                             ELSE By(<<"Apply", one.vs[1], args.vs>>, args.S)
         [] e[1] = "method" -> IF ~one.ok THEN one ELSE IF ~method.ok THEN method
                               ELSE IF ~margs.ok THEN margs
                               ELSE By(<<"Apply", method.vs[1], one.vs \o margs.vs>>, margs.S)
         [] e[1] = "function" -> Ok(<<LuaFunction(Len(S.funs) + 1)>>, [S EXCEPT !.funs = Append(@, fun)])
         [] e[1] = "record" -> Items(e[2], 1, 0, Table(Len(table.tables)), env, table)

EvalList(es, env, S) ==
    LET done[n \in 0..Len(es)] ==
            IF n = 0 THEN Ok(<<>>, S)
            ELSE LET before == done[n - 1]
                     all == By(<<"Eval", es[n], env>>, before.S)
                     one == IF n = Len(es) THEN all ELSE FirstOf(all)
                 IN IF ~before.ok THEN before ELSE IF ~one.ok THEN one
                    ELSE Ok(before.vs \o one.vs, one.S)
    IN done[Len(es)]

(* Functions of the library, and those of the program. *)
Builtin(name, args, S) ==
    LET a == ValueAt(args, 1)
        b == ValueAt(args, 2)
        next == Number(b[2] + 1)
        tried == By(<<"Apply", a, Tail(args)>>, S)
    IN CASE name = "out" -> Ok(<<>>, [S EXCEPT !.out = @ \o args])
         [] name = "error" -> Fails(IF a[1] \in {"num", "str"} THEN String("at: " \o AsText(a)) ELSE a, S)
         [] name = "setmetatable" ->
                IF a[1] # "table" \/ Meta(S, a, "__metatable") # Nil THEN Wrong(S)
                ELSE Ok(<<a>>, [S EXCEPT !.tables[a[2]].meta = IF b = Nil THEN 0 ELSE b[2]])
         [] name = "ipairs" -> Ok(<<CFunction("inext"), a, Number(0)>>, S)
         [] name = "inext" -> Ok(IF Lookup(S, a, next) = Nil THEN <<>> ELSE <<next, Lookup(S, a, next)>>, S)
         [] name = "pcall" -> IF args = <<>> THEN Wrong(S)
                              ELSE Ok(<<Bool(tried.ok)>> \o tried.vs, tried.S)

Apply(f, args, S) ==
    LET fun == S.funs[f[2]]
        xs == fun.params \o (IF fun.isVararg THEN <<"...">> ELSE <<>>)
        surplus == SubSeq(args, Len(fun.params) + 1, Len(args))
        given == Adjusted(args, Len(fun.params)) \o (IF fun.isVararg THEN <<surplus>> ELSE <<>>)
        r == By(<<"Body", fun.body, Declared(fun.env, S, xs)>>, NewCells(S, given))
    IN IF f[1] = "cfun" THEN Builtin(f[2], args, S)
       ELSE IF f[1] = "fun"
       THEN [ok |-> r.ok, vs |-> IF r.ok /\ r.k # "return" THEN <<>> ELSE r.vs, S |-> r.S]
       ELSE IF Meta(S, f, "__call") # Nil THEN By(<<"Apply", Meta(S, f, "__call"), <<f>> \o args>>, S)
       ELSE Wrong(S)

(* A statement ends with k: next, break or continue of the loop that is    *)
(* vs[1] levels up, or return of vs.                                       *)
Goes(k, vs, env, S) == [ok |-> TRUE, k |-> k, vs |-> vs, env |-> env, S |-> S]
Stops(r, env) == [ok |-> FALSE, k |-> "next", vs |-> r.vs, env |-> env, S |-> r.S]
Nexts(env, S) == Goes("next", <<>>, env, S)

(* How a loop goes on after its body ended with r. *)
Continues(r) == r.ok /\ (r.k = "next" \/ (r.k = "continue" /\ r.vs = <<1>>))
Leaves(r, env) ==
    IF ~r.ok \/ r.k = "return" THEN [r EXCEPT !.env = env]
    ELSE IF r.vs = <<1>> THEN Nexts(env, r.S)
    ELSE Goes(r.k, <<r.vs[1] - 1>>, env, r.S)

RECURSIVE While(_, _, _, _), Repeat(_, _, _, _), ForNumber(_, _, _, _, _, _, _), ForIn(_, _, _, _, _, _)
While(cond, body, env, S) ==
    LET c == FirstOf(By(<<"Eval", cond, env>>, S))
        r == By(<<"Body", body, env>>, c.S)
    IN IF ~c.ok THEN Stops(c, env) ELSE IF IsFalse(c.vs[1]) THEN Nexts(env, c.S)
       ELSE IF Continues(r) THEN While(cond, body, env, r.S) ELSE Leaves(r, env)
Repeat(body, cond, env, S) ==
    LET r == By(<<"Body", body, env>>, S)
        c == FirstOf(By(<<"Eval", cond, r.env>>, r.S))
    IN IF ~Continues(r) THEN Leaves(r, env) ELSE IF ~c.ok THEN Stops(c, env)
       ELSE IF IsFalse(c.vs[1]) THEN Repeat(body, cond, env, c.S) ELSE Nexts(env, c.S)
ForNumber(x, n, limit, step, body, env, S) ==
    LET r == By(<<"Body", body, Declared(env, S, <<x>>)>>, NewCells(S, <<Number(n)>>))
    IN IF (step > 0 /\ n > limit) \/ (step <= 0 /\ n < limit) THEN Nexts(env, S)
       ELSE IF Continues(r) THEN ForNumber(x, n + step, limit, step, body, env, r.S)
       ELSE Leaves(r, env)
ForIn(xs, f, s, control, stat, S) ==
    LET called == By(<<"Apply", f, <<s, control>>>>, S)
        vs == Adjusted(called.vs, Len(xs))
        env == stat[2]
        r == By(<<"Body", stat[1], Declared(env, called.S, xs)>>, NewCells(called.S, vs))
    IN IF ~called.ok THEN Stops(called, env) ELSE IF vs[1] = Nil THEN Nexts(env, called.S)
       ELSE IF Continues(r) THEN ForIn(xs, f, s, vs[1], stat, r.S) ELSE Leaves(r, env)

(* The targets of an assignment: their tables and keys come first, the     *)
(* values next, and the assignments last, from the last to the first.      *)
Places(targets) ==
    Flat([n \in DOMAIN targets |->
        IF targets[n][1] = "var" THEN <<Nil, Nil>>
        ELSE <<<<"paren", targets[n][2]>>, <<"paren", targets[n][3]>>>>])
AssignVar(x, v, env, S) ==
    IF x \in DOMAIN env THEN Ok(<<>>, [S EXCEPT !.cells[env[x]] = v]) ELSE By(<<"Assign", Table(1), String(x), v>>, S)
SetAll(targets, es, env, S) ==
    LET places == By(<<"EvalList", Places(targets), env>>, S)
        values == By(<<"EvalList", es, env>>, places.S)
        n == Len(targets)
        done[j \in 0..n] ==
            IF j = 0 THEN Ok(<<>>, values.S)
            ELSE LET before == done[j - 1]
                     k == n + 1 - j
                     v == ValueAt(values.vs, k)
                 IN IF ~before.ok THEN before
                    ELSE IF targets[k][1] = "var" THEN AssignVar(targets[k][2], v, env, before.S)
                    ELSE By(<<"Assign", places.vs[2 * k - 1], places.vs[2 * k], v>>, before.S)
    IN IF ~places.ok THEN places ELSE IF ~values.ok THEN values ELSE done[n]

Exec(s, env, S) ==
    LET block(body) == LET r == By(<<"Body", body, env>>, S) IN [r EXCEPT !.env = env]
        then(r) == IF r.ok THEN Nexts(env, r.S) ELSE Stops(r, env)
        list == By(<<"EvalList", s[3], env>>, S)
        cond == FirstOf(By(<<"Eval", s[2], env>>, S))
        taken == By(<<"Body", IF IsFalse(cond.vs[1]) THEN s[4] ELSE s[3], env>>, cond.S)
        inner == Declared(env, S, <<s[2]>>)
        fun == By(<<"Eval", s[3], inner>>, NewCells(S, <<Nil>>))
        returned == By(<<"EvalList", s[2], env>>, S)
    IN CASE s[1] = "local" ->
                IF list.ok THEN Nexts(Declared(env, list.S, s[2]), NewCells(list.S, Adjusted(list.vs, Len(s[2]))))
                ELSE Stops(list, env)
         [] s[1] = "set" -> then(SetAll(s[2], s[3], env, S))
         [] s[1] = "do" -> block(s[2])
         [] s[1] = "if" -> IF cond.ok THEN [taken EXCEPT !.env = env] ELSE Stops(cond, env)
         [] s[1] = "while" -> While(s[2], s[3], env, S)
         [] s[1] = "repeat" -> Repeat(s[2], s[3], env, S)
         [] s[1] = "fornum" ->
                IF ~list.ok THEN Stops(list, env)
                ELSE IF \E n \in DOMAIN list.vs : ~IsNum(list.vs[n]) THEN Stops(Wrong(list.S), env)
                ELSE ForNumber(s[2], list.vs[1][2], list.vs[2][2],
                               IF Len(list.vs) = 3 THEN list.vs[3][2] ELSE 1, s[4], env, list.S)
         [] s[1] = "forin" ->
                IF list.ok THEN ForIn(s[2], ValueAt(list.vs, 1), ValueAt(list.vs, 2), ValueAt(list.vs, 3),
                                      <<s[4], env>>, list.S)
                ELSE Stops(list, env)
         [] s[1] = "localfunction" ->
                Nexts(inner, [fun.S EXCEPT !.cells[inner[s[2]]] = fun.vs[1]])
         [] s[1] = "defun" -> then(SetAll(<<s[2]>>, <<s[3]>>, env, S))
         [] s[1] = "expr" -> then(By(<<"Eval", s[2], env>>, S))
         [] s[1] \in {"break", "continue"} -> Goes(s[1], <<s[2]>>, env, S)
         [] s[1] = "return" -> IF returned.ok THEN Goes("return", returned.vs, env, returned.S)
                               ELSE Stops(returned, env)

Body(body, env, S) ==
    LET done[n \in 0..Len(body)] ==
            IF n = 0 THEN Nexts(env, S)
            ELSE LET before == done[n - 1]
                 IN IF before.ok /\ before.k = "next" THEN By(<<"Exec", body[n], before.env>>, before.S) ELSE before
    IN done[Len(body)]

By(call, S) ==
    CASE call[1] = "Eval" -> Eval(call[2], call[3], S)
      [] call[1] = "EvalList" -> EvalList(call[2], call[3], S)
      [] call[1] = "Apply" -> Apply(call[2], call[3], S)
      [] call[1] = "Index" -> Index(call[2], call[3], S)
      [] call[1] = "Assign" -> Assign(call[2], call[3], call[4], S)
      [] call[1] = "Exec" -> Exec(call[2], call[3], S)
      [] call[1] = "Body" -> Body(call[2], call[3], S)

(* What a program puts out, and how it ends. *)
Meaning(body, library) ==
    LET globals == [x \in {String(f) : f \in library} |-> CFunction(x[2])]
        r == By(<<"Body", body, [x \in {"..."} |-> 1]>>, [cells |-> <<<<>>>>, tables |-> <<[map |-> globals, meta |-> 0]>>, funs |-> <<>>, out |-> <<>>])
    IN [out |-> r.S.out, ends |-> IF r.ok THEN <<"done">> ELSE <<"error", r.vs[1]>>]
=============================================================================
