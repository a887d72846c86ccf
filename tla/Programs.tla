------------------------------ MODULE Programs ------------------------------
(* Functions for Machine: all conditions of two operators in the places     *)
(* where a value is wanted, and a family for each kind of statement.        *)
EXTENDS Meaning

C(v) == [x |-> "const", v |-> v]
V(n) == [x |-> "var", name |-> n]
B(op, l, r) == [x |-> "binary", op |-> op, l |-> l, r |-> r]
U(op, e) == [x |-> "unary", op |-> op, e |-> e]
Paren(e) == [x |-> "paren", e |-> e]
Index(t, k) == [x |-> "index", l |-> t, r |-> k]
CallOn(f, args) == [x |-> "call", f |-> f, args |-> args]
F(args) == CallOn(V("f"), args)
Table(items) == [x |-> "table", items |-> items]
Lambda(ps, body) == [x |-> "function", params |-> ps, body |-> body]
N1 == C(Number(1))
N2 == C(Number(2))
N3 == C(Number(3))

Ret(xs) == [s |-> "return", exps |-> xs]
Local(ns, xs) == [s |-> "local", names |-> ns, exps |-> xs]
LocalFunction(n, e) == [s |-> "localfunction", name |-> n, exp |-> e]
Do(e) == [s |-> "call", exp |-> e]
Sets(vs, es) == [s |-> "assign", vars |-> vs, exps |-> es]
If(c, t, e) == [s |-> "if", cond |-> c, then |-> t, else |-> e]
Go(n) == [s |-> "goto", name |-> n]
Label(n) == [s |-> "label", name |-> n]
While(c, b) == [s |-> "while", cond |-> c, body |-> b]
Repeat(b, c) == [s |-> "repeat", cond |-> c, body |-> b]
For(n, a, b, body) == [s |-> "for", name |-> n, first |-> a, limit |-> b, body |-> body]
Block1(b) == [s |-> "do", body |-> b]

Atoms == {C(Nil), N1, V("a"), F(<<V("b")>>)}
Level1 == Atoms \cup {U("not", e) : e \in Atoms}
            \cup {B(op, l, r) : op \in {"and", "or", "eq"}, l \in Atoms, r \in Atoms}
Level2 == {U("not", e) : e \in Level1} \cup {B(op, l, r) : op \in {"and", "or"}, l \in Level1, r \in {V("a"), F(<<V("b")>>)}}
            \cup {B("eq", l, V("b")) : l \in Level1}

Places(e) ==
  { <<Local(<<"c", "d">>, <<e>>), Do(F(<<V("c"), V("a")>>)), Sets(<<V("a")>>, <<e>>), Ret(<<V("a"), e>>)>>,
    <<If(e, <<Do(F(<<N1>>))>>, <<Do(F(<<N2>>))>>), While(e, <<Do(F(<<>>)), Go("break")>>), Ret(<<e>>)>> }

Conditions == UNION {Places(e) : e \in Level1 \cup Level2}

\* Gotos, labels, locals and blocks in every order; a goto back is taken once.
Once(n) == If(V("b"), <<Sets(<<V("b")>>, <<C(Nil)>>), Go(n)>>, <<>>)
Steps == {Go("x"), Label("x"), Local(<<"c">>, <<>>), Do(F(<<V("b")>>)), Once("x"),
          If(V("a"), <<Go("x")>>, <<>>), Block1(<<Local(<<"c">>, <<>>), Go("x")>>), Block1(<<Go("x"), Label("x")>>)}
Ends(body) == \A k, j \in DOMAIN body : k < j /\ body[k].s = "label" =>
                body[j] \in {Label("x"), Local(<<"c">>, <<>>), Do(F(<<V("b")>>)), Once("x")}
Jumps == {q \in [1..3 -> Steps] \cup [1..4 -> Steps] :
            /\ Ends(q) /\ \E k \in DOMAIN q : q[k].s = "label" /\ \E j \in DOMAIN q : q[j] \in Steps \ {Label("x")}
            /\ \E k \in DOMAIN q : q[k].s \in {"goto", "if", "do"}
            /\ Len(q) = 4 => q[1] \in {Local(<<"c">>, <<>>), Label("x")} /\ q[4] \in {Label("x"), Do(F(<<V("b")>>)), Once("x")}}

\* nil registers next to a place that a jump leads to.
NoB == Sets(<<V("b"), V("a")>>, <<C(Nil), V("b")>>)
Nils == UNION {{ <<Local(<<"c">>, <<>>), Repeat(<<Local(<<"d">>, xs), Do(F(<<V("c"), V("d")>>)), Sets(<<V("c"), V("d")>>, <<N1, N2>>), NoB>>, U("not", V("a")))>>,
                 <<Local(<<"c">>, <<>>), While(V("b"), <<Local(<<"d", "g">>, xs), Do(F(<<V("d"), V("g")>>)), Sets(<<V("c"), V("d")>>, <<N1>>), NoB>>), Local(<<"d">>, <<>>), Ret(<<V("c"), V("d")>>)>>,
                 <<If(V("a"), <<Local(<<"c", "d">>, xs)>>, <<Local(<<"c">>, <<C(Nil)>>)>>), Local(<<"g">>, <<>>), Ret(<<V("g"), V("a")>>)>> }
               : xs \in {<<>>, <<C(Nil)>>, <<N1>>, <<F(<<>>)>>, <<B("or", V("a"), C(Nil))>>, <<B("and", V("b"), C(Nil)), C(Nil)>>}}

\* Functions that share a variable of a scope, and the ways to leave the scope.
Get == Lambda(<<>>, <<Ret(<<V("c")>>)>>)
Put1 == Lambda(<<"v">>, <<Sets(<<V("c")>>, <<V("v")>>)>>)
Nested == Lambda(<<>>, <<Ret(<<CallOn(Get, <<>>)>>)>>)
Use == Do(F(<<CallOn(V("t"), <<>>), V("a")>>))
Leaving == {<<>>, <<Go("break")>>, <<Go("x")>>, <<Ret(<<CallOn(V("t"), <<>>), V("c")>>)>>, <<Ret(<<CallOn(V("t"), <<>>)>>)>>, <<If(V("a"), <<Go("break")>>, <<>>)>>,
            <<If(V("a"), <<Go("x")>>, <<Go("break")>>)>>}
Scopes(make, leave) ==
  LET shared == <<Local(<<"c">>, <<V("b")>>), Local(<<"p">>, <<Put1>>), If(V("t"), <<>>, <<Sets(<<V("t")>>, <<make>>)>>),
                  Do(CallOn(V("p"), <<V("a")>>)), Sets(<<V("c")>>, <<F(<<V("c"), CallOn(V("t"), <<>>)>>)>>)>>
      last == IF leave # <<>> /\ leave[1].s = "return" THEN <<Block1(leave)>> ELSE leave
  IN { <<Local(<<"t">>, <<>>), While(V("b"), shared \o <<NoB>> \o last), Use, Label("x")>>,
       <<Local(<<"t">>, <<>>), Repeat(shared \o <<NoB>> \o last, U("not", B("and", V("c"), V("b")))), Label("x"), Use>>,
       <<Local(<<"t">>, <<>>), For("c", N1, N2, <<Local(<<"p">>, <<Put1>>), If(V("t"), <<>>, <<Sets(<<V("t")>>, <<make>>)>>), Do(CallOn(V("p"), <<V("a")>>))>> \o last), Use, Label("x")>> }
Sharing == UNION {Scopes(m, l) : m \in {Get, Nested}, l \in Leaving}
  \cup { <<Local(<<"t">>, <<>>), Label("x"), Local(<<"c">>, <<V("b")>>), If(V("t"), <<>>, <<Sets(<<V("t")>>, <<Get>>)>>), Sets(<<V("c")>>, <<N3>>), Once("x"), Use>>,
         <<Local(<<"t">>, <<>>), Block1(<<Local(<<"c">>, <<V("b")>>), Sets(<<V("t")>>, <<Get>>)>>), Local(<<"d">>, <<N3>>), Use, Ret(<<V("d")>>)>>,
         <<Local(<<"t", "p">>, <<>>), Block1(<<Local(<<"c">>, <<V("b")>>), Sets(<<V("t"), V("p")>>, <<Get, Put1>>)>>), Local(<<"d">>, <<N3>>), Do(CallOn(V("p"), <<V("a")>>)), Use, Ret(<<V("d")>>)>>,
         <<LocalFunction("t", Lambda(<<"n">>, <<If(V("n"), <<Ret(<<CallOn(V("t"), <<C(Nil)>>)>>)>>, <<>>), Ret(<<F(<<V("n")>>), F(<<V("a"), V("b")>>)>>)>>)), Ret(<<CallOn(V("t"), <<V("a")>>)>>)>>,
         <<Local(<<"c">>, <<N1>>), Local(<<"t">>, <<Get>>), Sets(<<V("c")>>, <<N2>>), Ret(<<CallOn(V("t"), <<V("a")>>)>>)>>,
         <<Local(<<"c">>, <<N1>>), Local(<<"t">>, <<Lambda(<<"v">>, <<Sets(<<V("c")>>, <<Table(<<V("v")>>)>>), Sets(<<Index(V("c"), N1), V("c")>>, <<N2, N3>>), Ret(<<V("c")>>)>>)>>), Do(CallOn(V("t"), <<>>)), Ret(<<V("c")>>)>> }

\* Several targets, that use each other.
Targets == {V("a"), V("c"), V("t"), Index(V("c"), V("a")), Index(V("c"), N1), Index(Index(V("c"), N3), V("a"))}
Values == {<<N2>>, <<V("b"), V("a")>>, <<F(<<V("b"), V("a")>>)>>, <<N1, F(<<V("a"), N1>>)>>, <<V("b"), F(<<>>), N3>>, <<N2, V("c"), F(<<>>)>>}
Assignments == {<<Local(<<"c", "d">>, <<Table(<<N1, N2>>)>>), Sets(<<Index(V("c"), N3), V("d")>>, <<V("c"), V("c")>>), Sets(vs, es), Do(F(<<V("a"), V("c"), V("t"), Index(V("d"), V("b")), Index(V("d"), N1), Index(V("d"), N2)>>))>>
                 : vs \in {<<x, y>> : x \in Targets, y \in Targets} \cup {<<x, y, V("b")>> : x \in Targets, y \in {V("a"), V("c")}}, es \in Values}

\* Lists: constructors, arguments and results, the last expression open or not.
Items == {V("a"), C(Nil), F(<<V("b"), V("a")>>), Paren(F(<<V("b"), V("a")>>))}
Lists == {<<>>} \cup UNION {[1..n -> Items] : n \in 1..3} \cup {<<N1, N2, N3>> \o <<x, y>> : x \in Items, y \in Items}
ListUses == UNION {{ <<Local(<<"t">>, <<Table(xs)>>), Ret([k \in 1..5 |-> Index(V("t"), C(Number(k)))])>>,
                     <<Ret(<<F(xs)>>)>>, <<Local(<<"c", "d">>, xs), Ret(<<V("d"), V("c")>> \o xs)>> } : xs \in Lists}

\* Comparisons and arithmetic, loops over numbers, and what fails when it runs.
Numbers == {V("a"), N2, B("sub", V("b"), N1), U("unm", V("a")), U("unm", N1)}
Arithmetic == UNION {{ <<Local(<<"c">>, <<B(op, l, r)>>), Ret(<<U("not", B(op, r, V("b"))), V("c")>>)>>,
                       <<If(B("and", B(op, l, r), B(op, r, N2)), <<Ret(<<N1>>)>>, <<Do(F(<<l, r>>))>>)>> }
                     : op \in {"lt", "le", "gt", "ge", "ne", "eq"}, l \in Numbers, r \in Numbers \ {U("unm", N1)}}
  \cup UNION {{ <<For("i", l, r, <<Do(F(<<V("i")>>)), If(B("eq", V("i"), V("b")), <<Go("break")>>, <<>>), Sets(<<V("i")>>, <<C(Nil)>>)>>), Ret(<<V("i")>>)>> }
              : l \in Numbers, r \in Numbers}
  \cup { <<Sets(<<V("g")>>, <<V("a")>>), Ret(<<Index(V("g"), N1)>>)>>, <<Do(CallOn(V("a"), <<V("b")>>))>>, <<Ret(<<CallOn(V("a"), <<>>)>>)>>,
         <<Sets(<<Index(Table(<<>>), V("a"))>>, <<N1>>)>>, <<Ret(<<Index(Index(V("a"), N1), N2)>>)>> }

Functions ==
  {[params |-> <<"a", "b">>, body |-> b] :
     b \in Conditions \cup Jumps \cup Nils \cup Sharing \cup Assignments \cup ListUses \cup Arithmetic}
Argument == { <<Nil, False>>, <<Number(1), Number(2)>> }
=============================================================================
