---------------------------- MODULE LuaPrograms ----------------------------
(***************************************************************************)
(* Lua programs as trees of LuaReference, to be compiled and executed.     *)
(***************************************************************************)
EXTENDS LuaReference

V(x) == <<"var", x>>
Num(n) == Number(n)
Str(s) == String(s)
Yes == Bool(TRUE)
No == Bool(FALSE)
Dots == <<"dots">>
Bin(op, x, y) == <<"bin", op, x, y>>
Plus(x, n) == Bin("+", x, Num(n))
Un(op, x) == <<"un", op, x>>
Paren(x) == <<"paren", x>>
Idx(t, k) == <<"index", t, k>>
At(t, k) == Idx(V(t), k)
Call(f, args) == <<"call", f, args>>
CallOf(f, args) == Call(V(f), args)
Method(o, name, args) == <<"method", o, name, args>>
Fun(params, body) == <<"function", params, FALSE, body>>
VarFun(params, body) == <<"function", params, TRUE, body>>
Rec(items) == <<"record", items>>
It(e) == <<"item", e>>
Fd(k, e) == <<"field", k, e>>

Do(e) == <<"expr", e>>
Show(es) == Do(CallOf("out", es))
Local(xs, es) == <<"local", xs, es>>
Let(x, e) == Local(<<x>>, <<e>>)
SetTo(targets, es) == <<"set", targets, es>>
Set(x, e) == SetTo(<<V(x)>>, <<e>>)
Incr(x) == Set(x, Plus(V(x), 1))
Block(body) == <<"do", body>>
If(c, yes, no) == <<"if", c, yes, no>>
When(c, yes) == If(c, yes, <<>>)
WhileDo(c, body) == <<"while", c, body>>
RepeatUntil(body, c) == <<"repeat", body, c>>
For(x, from, to, body) == <<"fornum", x, <<Num(from), Num(to)>>, body>>
ForIn_(xs, es, body) == <<"forin", xs, es, body>>
LocalFun(f, params, body) == <<"localfunction", f, Fun(params, body)>>
Defun(target, params, body) == <<"defun", target, Fun(params, body)>>
Break(n) == <<"break", n>>
Continue(n) == <<"continue", n>>
Return(es) == <<"return", es>>

-----------------------------------------------------------------------------
(* Expressions with jumps, in every place that a value may be needed.      *)

Atoms == {V("a"), V("b"), V("c"), Num(2)}
Simple == Atoms \cup {Un("not", x) : x \in Atoms}
          \cup {Bin(op, x, y) : op \in {"and", "or", "=="}, x \in Atoms, y \in Atoms}
Logical ==
    {Un("not", x) : x \in Simple}
    \cup {Bin(op, x, y) : op \in {"and", "or"}, x \in Simple, y \in Atoms}
    \cup {Bin(op, y, x) : op \in {"and", "or"}, x \in Simple, y \in {V("b"), V("c")}}
    \cup {Bin("==", x, V("c")) : x \in Simple}

Values == <<Local(<<"a", "b", "c">>, <<Nil, No, Num(1)>>)>>
UsedBy(e) == Values \o
    <<Show(<<e>>), Let("r", e), Show(<<V("r")>>),
      If(e, <<Show(<<Num(1)>>)>>, <<Show(<<Num(0)>>)>>),
      Let("n", Num(0)),
      WhileDo(Bin("and", Bin("<", V("n"), Num(2)), e), <<Incr("n")>>),
      Return(<<CallOf("out", <<V("n"), e>>)>>)>>

-----------------------------------------------------------------------------
(* Programs of statements. *)

(* Closures of a loop have a variable each. *)
Program1 ==
    <<Let("t", Rec(<<>>)),
      For("k", 1, 3, <<Let("j", Bin("*", V("k"), Num(2))),
                       SetTo(<<At("t", V("k"))>>, <<Fun(<<>>, <<Incr("j"), Return(<<V("j")>>)>>)>>)>>),
      Show(<<Call(At("t", Num(1)), <<>>), Call(At("t", Num(1)), <<>>), Call(At("t", Num(3)), <<>>)>>)>>
(* Two closures share a variable, which outlives its block. *)
Program2 ==
    <<Local(<<"get", "set">>, <<>>),
      Block(<<Let("x", Num(1)), Set("get", Fun(<<>>, <<Return(<<V("x")>>)>>)),
              Set("set", Fun(<<"v">>, <<Set("x", V("v"))>>))>>),
      Let("y", Num(9)), Do(CallOf("set", <<Num(5)>>)), Show(<<CallOf("get", <<>>), V("y")>>)>>
(* A variable two functions up, and a counter for each call. *)
Program3 ==
    <<LocalFun("make", <<"n">>, <<Return(<<Fun(<<>>, <<Return(<<Fun(<<"d">>,
          <<Set("n", Bin("+", V("n"), V("d"))), Return(<<V("n")>>)>>)>>)>>)>>)>>),
      Let("f", Call(CallOf("make", <<Num(1)>>), <<>>)), Let("g", Call(CallOf("make", <<Num(5)>>), <<>>)),
      Show(<<CallOf("f", <<Num(1)>>), CallOf("g", <<Num(1)>>), CallOf("f", <<Num(2)>>)>>)>>
(* Break out of one loop and of two, over variables that are upvalues. *)
Program4 ==
    <<Let("f", Nil), Let("n", Num(0)),
      WhileDo(Yes, <<Let("x", V("n")), Set("f", Fun(<<>>, <<Return(<<V("x")>>)>>)), Incr("n"),
                     When(Bin(">", V("n"), Num(1)), <<Break(1)>>)>>),
      Let("y", Num(7)), Show(<<CallOf("f", <<>>), V("y")>>),
      For("i", 1, 3, <<Let("z", V("i")),
          RepeatUntil(<<Let("w", V("i")), Set("f", Fun(<<>>, <<Return(<<Bin("+", V("z"), V("w"))>>)>>)),
                        When(Bin("==", V("i"), Num(2)), <<Break(2)>>)>>, Yes)>>),
      Let("u", Num(8)), Show(<<CallOf("f", <<>>), V("u")>>)>>
(* Continue of one loop and of two. *)
Program5 ==
    <<For("i", 1, 3, <<When(Bin("==", V("i"), Num(2)), <<Continue(1)>>), Show(<<V("i")>>)>>),
      For("i", 1, 3, <<For("j", 1, 2, <<Let("x", V("j")), Let("f", Fun(<<>>, <<Return(<<V("x")>>)>>)),
                                       When(Bin("==", V("i"), Num(2)), <<Continue(2)>>),
                                       Show(<<V("i"), CallOf("f", <<>>)>>)>>)>>),
      Let("n", Num(0)),
      RepeatUntil(<<Incr("n"), When(Bin("<", V("n"), Num(3)), <<Continue(1)>>), Show(<<V("n")>>)>>,
                  Bin(">=", V("n"), Num(4)))>>
(* The condition of repeat sees the variables of the body. *)
Program6 ==
    <<Let("n", Num(0)), Let("fs", Rec(<<>>)),
      RepeatUntil(<<Incr("n"), Let("x", V("n")), SetTo(<<At("fs", V("n"))>>, <<Fun(<<>>, <<Return(<<V("x")>>)>>)>>)>>,
                  Bin("==", V("x"), Num(3))),
      Show(<<Call(At("fs", Num(1)), <<>>), Call(At("fs", Num(3)), <<>>), Un("#", V("fs"))>>)>>
(* Multiple assignment: exchange, conflicts, too few and too many values. *)
Program7 ==
    <<Local(<<"a", "b">>, <<Num(1), Num(2)>>), SetTo(<<V("a"), V("b")>>, <<V("b"), V("a")>>), Show(<<V("a"), V("b")>>),
      Local(<<"i", "t">>, <<Num(1), Rec(<<It(Num(5)), It(Num(6))>>)>>),
      SetTo(<<At("t", V("i")), V("i")>>, <<Num(20), Num(2)>>), Show(<<V("i"), At("t", Num(1)), At("t", Num(2))>>),
      SetTo(<<At("t", V("i")), V("i"), V("t")>>, <<V("i"), Num(3)>>), Show(<<V("i"), V("t")>>),
      LocalFun("f", <<>>, <<Return(<<Num(7), Num(8)>>)>>),
      SetTo(<<V("a"), V("b"), V("i")>>, <<CallOf("f", <<>>)>>), Show(<<V("a"), V("b"), V("i")>>),
      SetTo(<<V("a"), V("b")>>, <<CallOf("f", <<>>), CallOf("f", <<>>), Num(9)>>), Show(<<V("a"), V("b")>>),
      Local(<<"c", "d">>, <<Paren(CallOf("f", <<>>))>>), Show(<<V("c"), V("d")>>)>>
(* Nil variables after a jump. *)
Program8 ==
    <<Local(<<"a", "b">>, <<Num(1), Num(2)>>),
      For("i", 1, 2, <<Local(<<"x", "y">>, <<>>), Local(<<"z">>, <<>>), Show(<<V("x"), V("z")>>),
                       SetTo(<<V("x"), V("y"), V("z")>>, <<V("a"), V("b"), Num(3)>>), Show(<<V("y"), V("z")>>)>>),
      When(V("a"), <<Local(<<"p", "q">>, <<>>), Show(<<V("p"), V("q")>>)>>),
      Local(<<"u", "v">>, <<>>), Show(<<V("u"), V("v")>>)>>
(* Variable arguments. *)
Program9 ==
    <<Let("f", VarFun(<<"a">>, <<Local(<<"x", "y">>, <<Dots>>), Show(<<V("a"), V("x"), V("y")>>), Show(<<Dots>>),
                                 Return(<<V("a"), Dots>>)>>)),
      Show(<<CallOf("f", <<Num(1), Num(2), Num(3)>>)>>), Show(<<CallOf("f", <<>>), Num(0)>>),
      Let("g", VarFun(<<"a", "b">>, <<Let("t", Rec(<<It(V("b")), It(Dots)>>)), Show(<<Un("#", V("t")), At("t", Num(1)), At("t", Num(3))>>),
                                      Return(<<CallOf("f", <<Dots>>)>>)>>)),
      Show(<<CallOf("g", <<Num(1), Num(2), Num(3), Num(4)>>)>>)>>
(* The table arg of functions that do not use `...' themselves. *)
Program10 ==
    <<Let("f", VarFun(<<"a">>, <<Show(<<V("a"), At("arg", Str("n")), At("arg", Num(1)), At("arg", Num(2))>>)>>)),
      Do(CallOf("f", <<Num(1), Nil, Num(3)>>)), Do(CallOf("f", <<>>))>>
(* Constructors that are stored in parts. *)
Program11 ==
    <<LocalFun("f", <<>>, <<Return(<<Num(7), Num(8)>>)>>),
      Let("t", Rec(<<It(Num(1)), It(Num(2)), It(Num(3)), It(CallOf("f", <<>>)), It(CallOf("f", <<>>))>>)),
      Show(<<Un("#", V("t")), At("t", Num(3)), At("t", Num(4)), At("t", Num(6))>>),
      Let("u", Rec(<<It(Num(1)), It(Num(2)), It(Num(3)), It(Num(4)), It(Num(5)), Fd(Str("x"), Num(9)), It(Num(6))>>)),
      Show(<<Un("#", V("u")), At("u", Num(5)), At("u", Num(6)), At("u", Str("x"))>>),
      Show(<<Un("#", Rec(<<It(Num(3)), It(Num(4))>>)),
             Idx(Rec(<<Fd(Num(2), Str("s")), Fd(Bin("..", Str("a"), Str("b")), Num(1))>>), Str("ab"))>>)>>
(* Methods and functions in tables. *)
Program12 ==
    <<Let("o", Rec(<<Fd(Str("n"), Num(1)), Fd(Str("in"), Rec(<<>>))>>)),
      <<"defun", At("o", Str("add")), Fun(<<"self", "d">>, <<SetTo(<<At("self", Str("n"))>>, <<Bin("+", At("self", Str("n")), V("d"))>>),
                                                 Return(<<V("self")>>)>>)>>,
      Defun(Idx(At("o", Str("in")), Str("g")), <<"x">>, <<Return(<<V("x"), V("x")>>)>>),
      Show(<<Idx(Method(Method(V("o"), "add", <<Num(2)>>), "add", <<Num(3)>>), Str("n"))>>),
      Show(<<Call(Idx(At("o", Str("in")), Str("g")), <<Num(4)>>)>>),
      Defun(V("h"), <<"t">>, <<Return(<<At("t", Num(1))>>)>>), Show(<<CallOf("h", <<Rec(<<It(Num(6))>>)>>)>>)>>
(* Concatenation, arithmetic and its constants. *)
Program13 ==
    <<Local(<<"a", "b">>, <<Num(3), Str("s")>>),
      Show(<<Bin("..", V("b"), Bin("..", V("a"), Bin("..", Str("x"), Bin("+", V("a"), Num(1)))))>>),
      Show(<<Bin("..", Bin("..", V("b"), V("b")), V("a")), Un("#", Bin("..", V("b"), V("a")))>>),
      Show(<<Bin("+", Num(1), Bin("*", Num(2), Num(3))), Bin("-", Bin("-", V("a"), Num(1)), V("a")),
             Bin("-", V("a"), Bin("-", Num(1), V("a"))), Bin("*", Bin("+", V("a"), Num(1)), Num(2))>>),
      Show(<<Un("-", Bin("^", V("a"), Num(2))), Bin("^", Num(2), Bin("^", Num(1), V("a"))), Bin("%", Num(7), V("a")),
             Bin("/", Num(6), V("a")), Un("-", Un("-", V("a"))), Un("-", Num(4)), Bin("/", Num(1), Num(0))>>)>>
(* Comparisons in both orders, with constants and without. *)
Program14 ==
    <<Local(<<"a", "b">>, <<Num(1), Num(2)>>),
      Show(<<Bin("<", V("a"), V("b")), Bin(">", V("a"), V("b")), Bin("<=", V("a"), Num(1)), Bin(">=", Num(1), V("b"))>>),
      Show(<<Bin("~=", V("a"), Num(1)), Bin("==", Un("not", V("a")), No), Un("not", Bin("<", V("b"), V("a")))>>),
      Let("c", Bin("and", Bin("<", V("a"), V("b")), Bin("or", Un("not", Bin("==", V("a"), V("b"))), V("b")))), Show(<<V("c")>>),
      If(Bin("and", Bin(">", V("a"), V("b")), V("a")), <<Show(<<Num(1)>>)>>,
         <<If(Bin("or", Bin("==", V("a"), Nil), Bin("~=", V("b"), Num(2))), <<Show(<<Num(2)>>)>>,
              <<If(Un("not", Nil), <<Show(<<Num(3)>>)>>, <<Show(<<Num(4)>>)>>)>>)>>)>>
(* Numeric loops down, with a step, and without an iteration. *)
Program15 ==
    <<<<"fornum", "i", <<Num(5), Num(1), Un("-", Num(2))>>, <<Show(<<V("i")>>), Set("i", Num(9))>>>>,
      For("i", 2, 1, <<Show(<<V("i")>>)>>), Let("n", Num(2)),
      <<"fornum", "i", <<Num(1), Plus(V("n"), 1), V("n")>>, <<Set("n", Num(0)), Show(<<V("i"), V("n")>>)>>>>>>
(* Generic loops over a list, a function of Lua and a callable table. *)
Program16 ==
    <<ForIn_(<<"i", "v">>, <<CallOf("ipairs", <<Rec(<<It(Num(4)), It(Num(5))>>)>>)>>, <<Show(<<V("i"), V("v")>>)>>),
      Let("n", Num(0)), Let("f", Fun(<<"s", "c">>, <<Incr("n"), When(Bin("<", V("n"), V("s")), <<Return(<<V("n"), V("c")>>)>>)>>)),
      ForIn_(<<"x", "y", "z">>, <<V("f"), Num(3)>>, <<Show(<<V("x"), V("y"), V("z")>>)>>),
      Let("it", CallOf("setmetatable", <<Rec(<<>>), Rec(<<Fd(Str("__call"), Fun(<<"self", "s", "c">>,
          <<When(Bin("==", V("c"), Nil), <<Return(<<V("s")>>)>>)>>))>>)>>)),
      ForIn_(<<"x">>, <<V("it"), Num(6)>>, <<Show(<<V("x")>>)>>)>>
(* A loop whose iterator fails. *)
Program17 ==
    <<ForIn_(<<"x">>, <<Num(1)>>, <<Show(<<Num(1)>>)>>)>>
(* Tail calls, deeper than the CallInfos there may be. *)
Program18 ==
    <<LocalFun("sum", <<"n", "s">>, <<When(Bin("==", V("n"), Num(0)), <<Return(<<V("s")>>)>>),
          Let("f", Fun(<<>>, <<Return(<<V("n")>>)>>)),
          Return(<<CallOf("sum", <<Bin("-", V("n"), Num(1)), Bin("+", V("s"), CallOf("f", <<>>))>>)>>)>>),
      Show(<<CallOf("sum", <<Num(12), Num(0)>>)>>),
      Let("id", VarFun(<<>>, <<Return(<<Dots>>)>>)), Let("two", Fun(<<"a">>, <<Return(<<CallOf("id", <<V("a"), Num(2)>>)>>)>>)),
      Local(<<"x", "y">>, <<CallOf("two", <<Num(1)>>)>>), Show(<<V("x"), V("y")>>),
      Let("say", Fun(<<"a">>, <<Return(<<CallOf("out", <<V("a")>>)>>)>>)), Show(<<Num(0), CallOf("say", <<Num(3)>>)>>)>>
(* Recursion, and one that does not end. *)
Program19 ==
    <<LocalFun("fact", <<"n">>, <<When(Bin("<", V("n"), Num(2)), <<Return(<<Num(1)>>)>>),
          Return(<<Bin("*", V("n"), CallOf("fact", <<Bin("-", V("n"), Num(1))>>))>>)>>),
      Show(<<CallOf("fact", <<Num(4)>>)>>),
      LocalFun("deep", <<>>, <<Return(<<Num(1), CallOf("deep", <<>>)>>)>>),
      Show(<<CallOf("pcall", <<V("deep")>>)>>), Show(<<CallOf("fact", <<Num(3)>>)>>)>>
(* Calls of C that call Lua, without end. *)
Program20 ==
    <<LocalFun("deep", <<>>, <<Return(<<CallOf("pcall", <<V("deep")>>)>>)>>), Let("r", CallOf("deep", <<>>)), Show(<<V("r")>>),
      Let("t", Rec(<<>>)), Do(CallOf("setmetatable", <<V("t"), Rec(<<Fd(Str("__index"), Fun(<<"o", "k">>,
          <<Let("v", At("o", V("k"))), Return(<<V("v")>>)>>))>>)>>)),
      Show(<<CallOf("pcall", <<Fun(<<>>, <<Return(<<At("t", Num(1))>>)>>)>>)>>), Show(<<Num(5)>>)>>
(* Errors: of instructions, raised, caught and raised again. *)
Program21 ==
    <<Show(<<CallOf("pcall", <<Fun(<<>>, <<Show(<<Num(1)>>), Let("x", Nil), Do(CallOf("x", <<>>))>>)>>)>>),
      Show(<<CallOf("pcall", <<Fun(<<"a">>, <<Return(<<At("a", Num(1))>>)>>), Num(3)>>)>>),
      Show(<<CallOf("pcall", <<Fun(<<>>, <<Do(CallOf("error", <<Yes>>))>>)>>), CallOf("pcall", <<V("error"), Str("e")>>)>>),
      Show(<<CallOf("pcall", <<Fun(<<>>, <<For("i", 1, 2, <<Do(CallOf("pcall", <<V("error"), V("i")>>))>>),
                                          Let("t", Rec(<<>>)), SetTo(<<At("t", Nil)>>, <<Num(1)>>)>>)>>)>>),
      Show(<<CallOf("pcall", <<Fun(<<>>, <<Return(<<Bin("<", Num(1), Str("a"))>>)>>)>>)>>),
      Show(<<CallOf("pcall", <<V("pcall")>>)>>), Show(<<CallOf("pcall", <<Fun(<<>>, <<Return(<<Bin("+", Num(1), Nil)>>)>>)>>)>>),
      <<"fornum", "i", <<Nil, Num(2)>>, <<>>>>, Show(<<Num(9)>>)>>
(* An error closes the variables of the functions it leaves. *)
Program22 ==
    <<Let("f", Nil),
      Do(CallOf("pcall", <<Fun(<<>>, <<Let("x", Num(1)), Set("f", Fun(<<>>, <<Incr("x"), Return(<<V("x")>>)>>)),
                                      Do(CallOf("error", <<>>))>>)>>)),
      Do(CallOf("pcall", <<Fun(<<>>, <<Let("y", Num(5)), Show(<<CallOf("f", <<>>), V("y")>>)>>)>>)), Show(<<CallOf("f", <<>>)>>)>>
(* Metatables: reading and writing. *)
Program23 ==
    <<Let("base", Rec(<<Fd(Str("x"), Num(1))>>)), Let("log", Num(0)),
      Let("mt", Rec(<<Fd(Str("__index"), V("base")), Fd(Str("__newindex"), Fun(<<"t", "k", "v">>, <<Set("log", V("v"))>>))>>)),
      Let("t", CallOf("setmetatable", <<Rec(<<Fd(Str("y"), Num(2))>>), V("mt")>>)),
      Show(<<At("t", Str("x")), At("t", Str("y")), At("t", Str("z"))>>),
      SetTo(<<At("t", Str("y")), At("t", Str("z"))>>, <<Num(7), Num(8)>>), Show(<<At("t", Str("y")), At("t", Str("z")), V("log")>>),
      SetTo(<<At("mt", Str("__newindex")), At("mt", Str("__index"))>>, <<V("base"), Fun(<<"t", "k">>, <<Return(<<V("k"), Num(1)>>)>>)>>),
      SetTo(<<At("t", Str("w"))>>, <<Num(3)>>), Show(<<At("t", Str("w")), At("base", Str("w")), Method(V("t"), "y2", <<>>)>>)>>
(* Metatables: a chain that does not end, and a protected one. *)
Program24 ==
    <<Let("t", Rec(<<>>)), Let("mt", Rec(<<Fd(Str("__index"), V("t"))>>)), Do(CallOf("setmetatable", <<V("t"), V("mt")>>)),
      Show(<<CallOf("pcall", <<Fun(<<>>, <<Return(<<At("t", Num(1))>>)>>)>>)>>),
      SetTo(<<At("mt", Str("__metatable"))>>, <<No>>), Show(<<CallOf("pcall", <<V("setmetatable"), V("t"), Nil>>)>>)>>
(* Metatables: operators. *)
Program25 ==
    <<Let("mt", Rec(<<>>)), Let("new", Fun(<<"n">>, <<Return(<<CallOf("setmetatable", <<Rec(<<Fd(Str("n"), V("n"))>>), V("mt")>>)>>)>>)),
      SetTo(<<At("mt", Str("__add"))>>, <<Fun(<<"x", "y">>, <<Return(<<Bin("==", V("x"), Num(1)), Num(0)>>)>>)>>),
      SetTo(<<At("mt", Str("__concat"))>>, <<Fun(<<"x", "y">>, <<Return(<<CallOf("new", <<Bin("==", V("x"), Str("ab"))>>)>>)>>)>>),
      SetTo(<<At("mt", Str("__unm")), At("mt", Str("__eq"))>>, <<Fun(<<"x">>, <<Return(<<At("x", Str("n"))>>)>>),
            Fun(<<"x", "y">>, <<Return(<<Bin("==", At("x", Str("n")), At("y", Str("n")))>>)>>)>>),
      SetTo(<<At("mt", Str("__lt"))>>, <<Fun(<<"x", "y">>, <<Return(<<Bin("<", At("x", Str("n")), At("y", Str("n")))>>)>>)>>),
      Local(<<"p", "q">>, <<CallOf("new", <<Num(1)>>), CallOf("new", <<Num(2)>>)>>),
      Show(<<Bin("+", V("p"), Num(1)), Bin("+", Num(1), V("p")), Un("-", V("q"))>>),
      Show(<<Bin("==", V("p"), V("q")), Bin("~=", V("p"), CallOf("new", <<Num(1)>>)), Bin("==", V("p"), Num(1))>>),
      Show(<<Bin("<", V("p"), V("q")), Bin(">", V("p"), V("q")), Bin("<=", V("p"), V("q")), Bin(">=", V("p"), V("q"))>>),
      Let("r", Bin("..", Str("a"), Bin("..", Str("b"), V("p")))), Show(<<At("r", Str("n"))>>),
      SetTo(<<At("mt", Str("__le"))>>, <<Fun(<<>>, <<Return(<<Nil>>)>>)>>), Show(<<Bin("<=", V("p"), V("q"))>>),
      Show(<<Bin("<", V("p"), Rec(<<>>))>>)>>
(* A value that is called, with its arguments behind it. *)
Program26 ==
    <<Let("t", CallOf("setmetatable", <<Rec(<<>>), Rec(<<Fd(Str("__call"), Fun(<<"self", "a", "b">>,
          <<Return(<<V("b"), V("a")>>)>>))>>)>>)),
      Show(<<CallOf("t", <<Num(1), Num(2)>>)>>), LocalFun("f", <<>>, <<Return(<<CallOf("t", <<Num(3)>>)>>)>>),
      Show(<<CallOf("f", <<>>)>>), Show(<<CallOf("pcall", <<V("t"), Num(4), Num(5)>>)>>)>>
(* A generator: values go in and out of a coroutine. *)
Program27 ==
    <<Let("co", CallOf("create", <<Fun(<<"a", "b">>, <<For("i", 1, 2, <<Let("x", CallOf("yield", <<V("i"), V("a")>>)),
          Set("a", Bin("+", V("a"), V("x")))>>), Return(<<V("a"), V("b")>>)>>)>>)),
      Show(<<CallOf("status", <<V("co")>>)>>), Show(<<CallOf("resume", <<V("co"), Num(10), Num(20)>>)>>),
      Show(<<CallOf("status", <<V("co")>>), CallOf("resume", <<V("co"), Num(5)>>)>>),
      Show(<<CallOf("resume", <<V("co"), Num(6), Num(7)>>)>>), Show(<<CallOf("status", <<V("co")>>), CallOf("resume", <<V("co")>>)>>)>>
(* A coroutine shares a variable with functions that run outside it. *)
Program28 ==
    <<Let("f", Nil), Let("g", Nil),
      Let("co", CallOf("create", <<Fun(<<>>, <<Let("x", Num(1)), Set("f", Fun(<<>>, <<Incr("x"), Return(<<V("x")>>)>>)),
          Set("g", Fun(<<>>, <<Return(<<V("x")>>)>>)), Do(CallOf("yield", <<>>)), Incr("x"), Show(<<V("x")>>),
          Do(CallOf("yield", <<CallOf("f", <<>>)>>)), Do(CallOf("error", <<No>>))>>)>>)),
      Show(<<CallOf("resume", <<V("co")>>), CallOf("f", <<>>)>>), Show(<<CallOf("resume", <<V("co")>>), CallOf("f", <<>>)>>),
      Show(<<CallOf("resume", <<V("co")>>)>>), Show(<<CallOf("status", <<V("co")>>), CallOf("f", <<>>), CallOf("g", <<>>)>>)>>
(* A coroutine in a coroutine, and the states seen from inside. *)
Program29 ==
    <<Local(<<"a", "b">>, <<>>),
      Set("a", CallOf("create", <<Fun(<<>>, <<
          Show(<<CallOf("status", <<V("a")>>), CallOf("resume", <<V("a")>>)>>),
          Set("b", CallOf("create", <<Fun(<<"v">>, <<Show(<<CallOf("status", <<V("a")>>), CallOf("resume", <<V("a")>>)>>),
              Show(<<CallOf("yield", <<V("v")>>)>>), Return(<<CallOf("yield", <<Num(2)>>)>>)>>)>>)),
          Show(<<CallOf("resume", <<V("b"), Num(1)>>)>>), Do(CallOf("yield", <<>>)), Show(<<CallOf("resume", <<V("b"), Num(3)>>)>>)>>)>>)),
      Do(CallOf("resume", <<V("a")>>)), Do(CallOf("resume", <<V("a")>>)), Show(<<CallOf("resume", <<V("b"), Num(4)>>)>>),
      Show(<<CallOf("status", <<V("a")>>), CallOf("status", <<V("b")>>)>>)>>
(* No yield across a call of C, and none in the main thread. *)
Program30 ==
    <<Let("co", CallOf("create", <<Fun(<<>>, <<Show(<<CallOf("pcall", <<V("yield"), Num(1)>>)>>),
          Show(<<CallOf("pcall", <<Fun(<<>>, <<Do(CallOf("yield", <<Num(1)>>))>>)>>)>>),
          ForIn_(<<"x">>, <<V("yield")>>, <<>>)>>)>>)),
      Show(<<CallOf("resume", <<V("co")>>)>>), Show(<<CallOf("pcall", <<V("yield")>>)>>),
      Show(<<CallOf("pcall", <<V("create"), V("out")>>)>>)>>
(* Errors inside a coroutine that it catches, and one that it does not. *)
Program31 ==
    <<Let("co", CallOf("create", <<Fun(<<>>, <<Show(<<CallOf("pcall", <<V("error"), Yes>>)>>),
          Show(<<CallOf("yield", <<Num(1)>>)>>), Return(<<CallOf("error", <<Nil>>)>>)>>)>>)),
      Show(<<CallOf("pcall", <<V("resume"), V("co")>>)>>), Show(<<CallOf("resume", <<V("co"), Num(2)>>), CallOf("resume", <<V("co")>>)>>)>>

(* A nil variable behind a jump, in a register that has been used. *)
Program32 ==
    <<Local(<<"a", "b">>, <<Num(1), Num(2)>>),
      When(Bin("==", Plus(V("a"), 5), Plus(V("b"), 6)), <<Local(<<"x">>, <<>>)>>),
      Local(<<"y", "z">>, <<>>), Show(<<V("y"), V("z")>>)>>

(* Continues that leave no variable behind that a function has: before the *)
(* function, out of an inner loop, and in a loop of repeat.                *)
Program33 ==
    <<Let("t", Rec(<<>>)), Let("n", Num(0)),
      For("i", 1, 3, <<When(Bin("==", V("i"), Num(2)), <<Continue(1)>>), Let("x", V("i")),
                       SetTo(<<At("t", V("i"))>>, <<Fun(<<>>, <<Incr("x"), Return(<<V("x")>>)>>)>>)>>),
      Show(<<Call(At("t", Num(1)), <<>>), At("t", Num(2)), Call(At("t", Num(3)), <<>>)>>),
      RepeatUntil(<<Incr("n"), Let("y", V("n")),
                    SetTo(<<At("t", V("n"))>>, <<Fun(<<>>, <<Return(<<V("y")>>)>>)>>),
                    When(Bin("<", V("n"), Num(3)), <<Continue(1)>>), Show(<<V("n")>>)>>,
                  Bin("==", V("n"), Num(3))),
      Show(<<Call(At("t", Num(1)), <<>>), Call(At("t", Num(2)), <<>>), Call(At("t", Num(3)), <<>>)>>)>>

(* Continue in the body of a for, behind a function that has its variable, *)
(* and continue of a while loop.                                           *)
ContinueMisses ==
    <<Let("t", Rec(<<>>)),
      For("i", 1, 2, <<Let("x", V("i")),
                       SetTo(<<At("t", V("i"))>>, <<Fun(<<>>, <<Return(<<V("x")>>)>>)>>), Continue(1)>>),
      Show(<<Call(At("t", Num(1)), <<>>), Call(At("t", Num(2)), <<>>)>>),
      Let("n", Num(0)),
      WhileDo(Bin("<", V("n"), Num(3)),
              <<Incr("n"), When(Bin("==", V("n"), Num(2)), <<Continue(1)>>), Show(<<V("n")>>)>>)>>

(* Constants that a file holds and that it does not, in a function and in  *)
(* one inside of it.                                                       *)
Constants ==
    {Num(n) : n \in {0, 127, 128, SmallFraction}}
    \cup {Str(s) : s \in {"", "plain", "zero", "broken", "wide", "mixed", "accents"}}
Constantly(v) ==
    <<Let("a", v), Let("f", Fun(<<>>, <<Return(<<v>>)>>)), Show(<<V("a"), CallOf("f", <<>>)>>)>>

Programs == <<Program1, Program2, Program3, Program4, Program5, Program6,
              Program7, Program8, Program9, Program10, Program11, Program12,
              Program13, Program14, Program15, Program16, Program17, Program18,
              Program19, Program20, Program21, Program22, Program23, Program24,
              Program25, Program26, Program27, Program28, Program29, Program30,
              Program31, Program32, Program33>>

(* Of a program that meets a limit of the machine, or that has coroutines  *)
(* or the table arg, which the reference has not: one that puts the same   *)
(* out.                                                                    *)
SameAs == [n \in DOMAIN Programs |->
    CASE n = 10 -> <<Show(<<Num(1), Num(2), Nil, Num(3), Nil, Num(0), Nil, Nil>>)>>
      [] n = 19 -> <<Show(<<Num(24), No, Str("error"), Num(6)>>)>>
      [] n = 20 -> <<Show(<<Yes, No, Str("error"), Num(5)>>)>>
      [] n = 24 -> <<Show(<<No, Str("error"), No, Str("error")>>)>>
      [] n = 27 -> <<Show(<<Str("suspended"), Yes, Num(1), Num(10), Str("suspended"), Yes, Num(2), Num(15), Yes, Num(21), Num(20),
                  Str("dead"), No, Str("dead")>>)>>
      [] n = 28 -> <<Show(<<Yes, Num(2), Num(3), Yes, Num(5), No, No, Str("dead"), Num(6), Num(6)>>)>>
      [] n = 29 -> <<Show(<<Str("running"), No, Str("running"), Str("normal"), No, Str("normal"), Yes, Num(1), Num(3), Yes, Num(2), Yes, Num(4),
                  Str("dead"), Str("dead")>>)>>
      [] n = 30 -> <<Show(<<No, Str("error"), No, Str("error"), No, Str("error"), No, Str("error"), No, Str("error")>>)>>
      [] n = 31 -> <<Show(<<No, Yes, Yes, Yes, Num(1), Num(2), No, No, Str("dead")>>)>>
      [] OTHER -> Programs[n]]
=============================================================================
