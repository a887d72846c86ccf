------------------------------- MODULE Meaning -------------------------------
(***************************************************************************)
(* What a Lua function means, as the reference manual has it: each         *)
(* execution of a local statement makes a new variable, a function keeps   *)
(* the variables it can see, a goto leads to a visible label.  The code of *)
(* the compiler is not used here; Machine compares the two.                *)
(*                                                                         *)
(* Programs are syntax trees.  Values are integers: nil, false, true, the  *)
(* numbers, names, one external function, tables and closures.             *)
(***************************************************************************)
EXTENDS Integers, Sequences, FiniteSets, SequencesExt, TLC

CONSTANT Globals    (* sequence of the names of globals and fields *)

Nil == 0
False == 1
True == 2
Number(n) == 20 + n
IsNumber(v) == v \in 10..99
Name(x) == 100 + (CHOOSE i \in DOMAIN Globals : Globals[i] = x)
External == 999          \* logs its arguments and returns them
TableId(n) == 1000 + n
ClosureId(n) == 2000 + n
IsTable(v) == v \in 1000..1999
IsClosure(v) == v >= 2000

IsFalse(v) == v \in {Nil, False}
Bool(b) == IF b THEN True ELSE False

\* The operators with two operands: what they ask of them, what they give.
Comparisons == {"eq", "ne", "lt", "gt", "le", "ge"}
Defined(op, x, y) == op \in {"eq", "ne"} \/ (IsNumber(x) /\ IsNumber(y))
Apply(op, x, y) ==
  CASE op = "eq" -> Bool(x = y)
    [] op = "ne" -> Bool(x # y)
    [] op = "lt" -> Bool(x < y)
    [] op = "gt" -> Bool(x > y)
    [] op = "le" -> Bool(x <= y)
    [] op = "ge" -> Bool(x >= y)
    [] op = "sub" -> Number(x - y)
Negated(x) == Number(20 - x)

\* The n-th value of a list.
Nth(vs, n) == IF n \in DOMAIN vs THEN vs[n] ELSE Nil
Field(table, key) == IF key \in DOMAIN table THEN table[key] ELSE Nil

-----------------------------------------------------------------------------
(* Which gotos are legal                                                    *)

IsLabel(stat, l) == stat.s = "label" /\ stat.name = l
VoidEnd(stats, i) == \A j \in i .. Len(stats) : stats[j].s = "label"

RECURSIVE Open(_, _)

Blocks(stat) ==
  CASE stat.s \in {"do", "while", "repeat", "for"} -> {stat.body}
    [] stat.s = "if" -> {stat.then, stat.else}
    [] OTHER -> {}

\* The labels that the gotos of a statement want to find outside of it.
Wanted(stat) ==
  IF stat.s = "goto" THEN {stat.name}
  ELSE LET inner == UNION {Open(b, stat.s = "repeat") : b \in Blocks(stat)}
       IN IF stat.s \in {"while", "repeat", "for"} THEN inner \ {"break"} ELSE inner

\* A goto may not lead into the scope of a local, but to the end of the block.
IntoScope(stats, i, p, until) ==
  /\ \E j \in i + 1 .. p - 1 : stats[j].s \in {"local", "localfunction"}
  /\ until \/ ~VoidEnd(stats, p)

Open(stats, until) ==
  UNION {{l \in Wanted(stats[i]) : \A p \in DOMAIN stats : ~IsLabel(stats[p], l)} : i \in DOMAIN stats}
    \cup (IF \/ \E i, p \in DOMAIN stats : /\ \E l \in Wanted(stats[i]) : IsLabel(stats[p], l)
                                         /\ IntoScope(stats, i, p, until)
             \/ \E p, q \in DOMAIN stats : p < q /\ stats[p].s = "label" /\ IsLabel(stats[q], stats[p].name)
            THEN {"illegal"} ELSE {})

RECURSIVE Legal(_)
RECURSIVE LegalExp(_)

\* The expressions and the functions of a statement.
Expressions(stat) ==
  CASE stat.s \in {"local", "return"} -> Range(stat.exps)
    [] stat.s = "assign" -> Range(stat.vars) \cup Range(stat.exps)
    [] stat.s \in {"call", "localfunction"} -> {stat.exp}
    [] stat.s \in {"while", "repeat", "if"} -> {stat.cond}
    [] stat.s = "for" -> {stat.first, stat.limit}
    [] OTHER -> {}

LegalExp(x) ==
  CASE x.x = "function" -> Open(x.body, FALSE) = {} /\ Legal(x.body)
    [] x.x \in {"binary", "index"} -> LegalExp(x.l) /\ LegalExp(x.r)
    [] x.x \in {"unary", "paren"} -> LegalExp(x.e)
    [] x.x = "call" -> LegalExp(x.f) /\ \A i \in DOMAIN x.args : LegalExp(x.args[i])
    [] OTHER -> TRUE

Legal(stats) ==
  \A i \in DOMAIN stats : /\ \A b \in Blocks(stats[i]) : Legal(b)
                          /\ \A x \in Expressions(stats[i]) : LegalExp(x)

-----------------------------------------------------------------------------
(* Evaluation: a state is the variables, tables and closures made so far,   *)
(* the log of the external function, and whether an error has been raised   *)

RECURSIVE Ev(_, _, _)
RECURSIVE EvList(_, _, _)
RECURSIVE Execute(_, _, _, _, _)

Raise(s) == [s EXCEPT !.err = TRUE]
One(r) == Nth(r.v, 1)
Val(v, s) == [v |-> <<v>>, s |-> s]

\* The last expression of a list gives all of its values.
EvList(xs, env, s) ==
  IF xs = <<>> THEN [v |-> <<>>, s |-> s]
  ELSE IF Len(xs) = 1 THEN Ev(xs[1], env, s)
  ELSE LET first == Ev(xs[1], env, s)
           rest == EvList(Tail(xs), env, first.s)
       IN [v |-> <<One(first)>> \o rest.v, s |-> rest.s]

New(s, vs) == [s EXCEPT !.store = @ \o vs]
\* The environment with new names for the last locations of the store.
Scope(env, s, names) ==
  FoldLeft(LAMBDA e, i : (names[i] :> Len(s.store) + i) @@ e, env, [i \in DOMAIN names |-> i])

CallOf(f, args, s) ==
  IF s.err THEN [v |-> <<>>, s |-> s]
  ELSE IF f = External THEN [v |-> args, s |-> [s EXCEPT !.out = Append(@, args)]]
  ELSE IF ~IsClosure(f) THEN [v |-> <<>>, s |-> Raise(s)]
  ELSE LET c == s.closures[f - 1999]
           r == Execute(c.body, 1, Scope(c.env, s, c.params), <<>>,
                        New(s, [i \in DOMAIN c.params |-> Nth(args, i)]))
       IN [v |-> IF r.how = "return" THEN r.v ELSE <<>>, s |-> r.s]

Load(x, env, s) ==
  IF x.name \in DOMAIN env THEN s.store[env[x.name]] ELSE Field(s.tables[1], Name(x.name))

Ev(x, env, s) ==
  IF s.err THEN Val(Nil, s)
  ELSE CASE x.x = "const" -> Val(x.v, s)
    [] x.x = "var" -> Val(Load(x, env, s), s)
    [] x.x = "function" ->
         Val(ClosureId(Len(s.closures)),
             [s EXCEPT !.closures = Append(@, [params |-> x.params, body |-> x.body, env |-> env])])
    [] x.x = "table" ->
         LET items == EvList(x.items, env, [s EXCEPT !.tables = Append(@, <<>>)])
             id == Len(s.tables) + 1
         IN Val(TableId(id - 1),
                [items.s EXCEPT !.tables[id] = [n \in {Number(i) : i \in DOMAIN items.v} |-> items.v[n - 20]]])
    [] x.x = "unary" ->
         LET e == Ev(x.e, env, s) IN
         IF x.op = "not" THEN Val(Bool(IsFalse(One(e))), e.s)
         ELSE IF IsNumber(One(e)) THEN Val(Negated(One(e)), e.s) ELSE Val(Nil, Raise(e.s))
    [] x.x = "binary" /\ x.op \in {"and", "or"} ->
         LET l == Ev(x.l, env, s)
             r == Ev(x.r, env, l.s)
         IN IF (x.op = "and") = IsFalse(One(l)) THEN Val(One(l), l.s) ELSE Val(One(r), r.s)
    [] x.x = "binary" ->
         LET l == Ev(x.l, env, s)
             r == Ev(x.r, env, l.s)
         IN IF Defined(x.op, One(l), One(r)) THEN Val(Apply(x.op, One(l), One(r)), r.s) ELSE Val(Nil, Raise(r.s))
    [] x.x = "paren" -> LET e == Ev(x.e, env, s) IN Val(One(e), e.s)
    [] x.x = "index" ->
         LET l == Ev(x.l, env, s)
             r == Ev(x.r, env, l.s)
         IN IF r.s.err \/ ~IsTable(One(l)) THEN Val(Nil, Raise(r.s))
            ELSE Val(Field(r.s.tables[One(l) - 999], One(r)), r.s)
    [] x.x = "call" ->
         LET f == Ev(x.f, env, s)
             args == EvList(x.args, env, f.s)
         IN CallOf(One(f), args.v, args.s)

-----------------------------------------------------------------------------
(* Execution of a block from its i-th statement on                          *)

Done(s, env) == [how |-> "on", s |-> s, env |-> env]

Put(s, id, key, v) ==
  IF s.err \/ ~IsTable(id) \/ key = Nil THEN Raise(s)
  ELSE [s EXCEPT !.tables[id - 999] = (key :> v) @@ @]

\* Tables and keys of the targets come first, then the values, all before the first is
\* assigned.
Assign(stat, env, s) ==
  LET n == Len(stat.vars)
      place(acc, var) ==
        LET l == Ev(var.l, env, acc.s)
            r == Ev(var.r, env, l.s)
        IN IF var.x # "index" THEN [acc EXCEPT !.v = Append(@, <<Nil, Nil>>)]
           ELSE [v |-> Append(acc.v, <<One(l), One(r)>>), s |-> r.s]
      places == FoldLeft(place, [v |-> <<>>, s |-> s], stat.vars)
      rhs == EvList(stat.exps, env, places.s)
      store(st, i) ==
        IF st.err THEN st
        ELSE IF stat.vars[i].x = "index" THEN Put(st, places.v[i][1], places.v[i][2], Nth(rhs.v, i))
        ELSE IF stat.vars[i].name \in DOMAIN env
          THEN [st EXCEPT !.store[env[stat.vars[i].name]] = Nth(rhs.v, i)]
        ELSE Put(st, TableId(0), Name(stat.vars[i].name), Nth(rhs.v, i))
  IN FoldLeft(store, rhs.s, Reverse([i \in 1..n |-> i]))

RECURSIVE Loop(_, _, _)
RECURSIVE ForLoop(_, _, _, _, _)

Loop(stat, env, s) ==
  LET c == Ev(stat.cond, env, s)
      r == IF stat.s = "while"
             THEN IF IsFalse(One(c)) \/ c.s.err THEN [how |-> "out", s |-> c.s, env |-> env]
                  ELSE Execute(stat.body, 1, env, <<>>, c.s)
             ELSE LET b == Execute(stat.body, 1, env, <<>>, s)
                      u == Ev(stat.cond, b.env, b.s)
                  IN IF b.how # "on" THEN b
                     ELSE [how |-> IF IsFalse(One(u)) THEN "on" ELSE "out", s |-> u.s, env |-> env]
  IN IF r.s.err \/ r.how = "out" THEN Done(r.s, env)
     ELSE IF r.how = "on" THEN Loop(stat, env, r.s)
     ELSE r

ForLoop(stat, n, limit, env, s) ==
  IF n > limit THEN Done(s, env)
  ELSE LET r == Execute(stat.body, 1, Scope(env, s, <<stat.name>>), <<>>, New(s, <<n>>))
       IN IF r.how = "on" /\ ~r.s.err THEN ForLoop(stat, n + 1, limit, env, r.s) ELSE r

Statement(stat, env, s) ==
  CASE stat.s = "local" ->
         LET r == EvList(stat.exps, env, s)
         IN Done(New(r.s, [i \in DOMAIN stat.names |-> Nth(r.v, i)]), Scope(env, r.s, stat.names))
    [] stat.s = "localfunction" ->
         LET in == Scope(env, s, <<stat.name>>)
             r == Ev(stat.exp, in, New(s, <<Nil>>))
         IN Done([r.s EXCEPT !.store[in[stat.name]] = One(r)], in)
    [] stat.s = "assign" -> Done(Assign(stat, env, s), env)
    [] stat.s = "call" -> Done(Ev(stat.exp, env, s).s, env)
    [] stat.s = "return" ->
         LET r == EvList(stat.exps, env, s)
         IN [how |-> "return", v |-> r.v, s |-> r.s, env |-> env]
    [] stat.s = "do" -> Execute(stat.body, 1, env, <<>>, s)
    [] stat.s = "if" ->
         LET c == Ev(stat.cond, env, s)
         IN Execute(IF IsFalse(One(c)) THEN stat.else ELSE stat.then, 1, env, <<>>, c.s)
    [] stat.s \in {"while", "repeat"} -> Loop(stat, env, s)
    [] stat.s = "for" ->
         LET r == EvList(<<stat.first, stat.limit>>, env, s) IN
         IF r.s.err \/ ~IsNumber(r.v[1]) \/ ~IsNumber(Nth(r.v, 2)) THEN Done(Raise(r.s), env)
         ELSE ForLoop(stat, r.v[1], Nth(r.v, 2), env, r.s)
    [] stat.s = "goto" -> [how |-> "goto", name |-> stat.name, s |-> s, env |-> env]
    [] stat.s = "label" -> Done(s, env)

\* seen: the environments at the labels passed, where a goto back finds them.
Execute(stats, i, env, seen, s) ==
  IF i > Len(stats) \/ s.err THEN Done(s, env)
  ELSE LET passed == IF stats[i].s = "label" THEN (stats[i].name :> env) @@ seen ELSE seen
           r == Statement(stats[i], env, s)
           at == {p \in DOMAIN stats : r.how = "goto" /\ IsLabel(stats[p], r.name)}
       IN IF r.s.err THEN Done(r.s, env)
          ELSE IF r.how = "on"
            THEN Execute(stats, i + 1, IF stats[i].s \in {"local", "localfunction"} THEN r.env ELSE env, passed, r.s)
          ELSE IF at # {}
            THEN LET p == CHOOSE p \in at : TRUE
                     back == IF r.name \in DOMAIN passed THEN passed[r.name] ELSE env
                 IN Execute(stats, p, back, passed, r.s)
          ELSE IF r.how = "goto" /\ r.name = "break" /\ stats[i].s \in {"while", "repeat", "for"}
            THEN Execute(stats, i + 1, env, passed, r.s)
          ELSE r

\* A chunk called with arguments: what it logs and then returns, or that it fails.
Outcome(stats, params, args) ==
  IF ~Legal(stats) \/ Open(stats, FALSE) # {} THEN [how |-> "illegal", out |-> <<>>]
  ELSE LET s0 == [store |-> [i \in DOMAIN params |-> Nth(args, i)], tables |-> << Name("f") :> External >>,
                  closures |-> <<>>, out |-> <<>>, err |-> FALSE]
           r == Execute(stats, 1, [p \in Range(params) |-> CHOOSE i \in DOMAIN params : params[i] = p], <<>>, s0)
       IN IF r.s.err THEN [how |-> "error", out |-> r.s.out]
          ELSE [how |-> "return", out |-> Append(r.s.out, IF r.how = "return" THEN r.v ELSE <<>>)]
=============================================================================
