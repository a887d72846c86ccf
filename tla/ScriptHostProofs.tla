--------------------------- MODULE ScriptHostProofs ---------------------------
(***************************************************************************)
(* What stays on the stack of the game: proved for any size of the stack,  *)
(* any number of hooks and console lines, and every error.                 *)
(***************************************************************************)
EXTENDS ScriptHost, SequenceTheorems, TLAPS

-----------------------------------------------------------------------------
(* The lists of calls, block by block.                                      *)

Kept == {"result", "string", "object"}
Values == Kept \cup {"nil", "table", "function", "number", "handler"}
Names == {"debug", "OnExtenderDebugUpdate", "TestLog", "TestValue", "LoadBank"}
Ops == [op : {"gettop", "settop", "pop", "setfield", "PrintError", "isfunction", "pcall0"}]
         \cup [op : {"push"}, arg : {"function", "number", "table"}]
         \cup [op : {"getglobal", "setglobal"}, arg : Names]
         \cup [op : {"load", "pcall"}, arg : BOOLEAN]

Library == <<On("push", "table"), Op("pop")>>
Update == <<Op("gettop"), On("getglobal", "OnExtenderDebugUpdate"), Op("isfunction"),
            Op("pcall0"), Op("settop")>>
Blocks == {RegisterFunction("TestLog"), RegisterFunction("LoadBank"), SetGlobal("TestValue"),
           Library, RestoreSethook, Eval, LoadFile, Update}

\* One list after the other.
Cat(p, q) == p \o q

\* What is left of the hook of InitLua when a block of it is done.
Last1 == RegisterFunction("LoadBank")
Last2 == Cat(LoadFile, Last1)
Last3 == Cat(Eval, Last2)
Last4 == Cat(Eval, Last3)
Last5 == Cat(Eval, Last4)
Restored(rest) == Cat(RestoreSethook, rest)
Opened1(rest) == Cat(Library, Restored(rest))
Opened2(rest) == Cat(Library, Opened1(rest))
Opened3(rest) == Cat(Library, Opened2(rest))
Assigned(rest) == Cat(SetGlobal("TestValue"), Opened3(rest))
Before(rest) == {Restored(rest), Opened1(rest), Opened2(rest), Opened3(rest), Assigned(rest)}
Rests == {<<>>, Last1, Last2, Last3, Last4, Last5} \cup Before(Last1) \cup Before(Last5)

\* Where a thread is in its list: the calls that are left, of which rest are those
\* after the block, how many values are on the stack above those that stay, and
\* whether lua_gettop has been called.
Then(call, calls) == <<call>> \o calls

InRegistration(calls, rest, height, saved) ==
  \E name \in Names :
    LET end == Then(On("setglobal", name), Then(Op("settop"), rest))
        push == Then(On("push", "function"), end) IN
    \/ calls = Then(Op("gettop"), push) /\ height = 0
    \/ calls = push /\ height = 0 /\ saved
    \/ calls = end /\ height = 1 /\ saved
InPlain(calls, rest, height) ==
  LET assign == Then(On("setglobal", "TestValue"), rest) IN
  \/ calls = Then(On("push", "number"), assign) /\ height = 0
  \/ calls = assign /\ height = 1
  \/ calls = Then(On("push", "table"), Then(Op("pop"), rest)) /\ height = 0
  \/ calls = Then(Op("pop"), rest) /\ height = 1
InRestoring(calls, rest, height, saved) ==
  LET field == Then(Op("setfield"), Then(Op("settop"), rest))
      push == Then(On("push", "function"), field)
      get == Then(On("getglobal", "debug"), push) IN
  \/ calls = Then(Op("gettop"), get) /\ height = 0
  \/ calls = get /\ height = 0 /\ saved
  \/ calls = push /\ height = 1 /\ saved
  \/ calls = field /\ height = 2 /\ saved
InEval(calls, rest, height) ==
  LET print == Then(Op("PrintError"), rest)
      pcall == Then(On("pcall", TRUE), print) IN
  \/ calls = Then(On("load", TRUE), pcall) /\ height = 0
  \/ calls = pcall /\ height = 1
  \/ calls = print /\ height = 0
InFile(calls, rest, height, saved) ==
  LET print == Then(Op("PrintError"), Then(Op("settop"), rest))
      pcall == Then(On("pcall", FALSE), print)
      load == Then(On("load", FALSE), pcall) IN
  \/ calls = Then(Op("gettop"), load) /\ height = 0
  \/ calls = load /\ height = 0 /\ saved
  \/ calls = pcall /\ height = 1 /\ saved
  \/ calls = print /\ height = 1 /\ saved
InUpdate(calls, rest, height, saved) ==
  LET pcall == Then(Op("pcall0"), Then(Op("settop"), rest))
      is == Then(Op("isfunction"), pcall)
      get == Then(On("getglobal", "OnExtenderDebugUpdate"), is) IN
  \/ calls = Then(Op("gettop"), get) /\ height = 0
  \/ calls = get /\ height = 0 /\ saved
  \/ calls = is /\ height = 1 /\ saved
  \/ calls = pcall /\ height = 1 /\ saved

InClosing(calls, rest, height, saved) ==
  calls = Then(Op("settop"), rest) /\ height \in Nat /\ saved

Stage(calls, rest, height, saved) ==
  \/ InRegistration(calls, rest, height, saved)
  \/ InPlain(calls, rest, height)
  \/ InRestoring(calls, rest, height, saved)
  \/ InEval(calls, rest, height)
  \/ InFile(calls, rest, height, saved)
  \/ InUpdate(calls, rest, height, saved)
  \/ InClosing(calls, rest, height, saved)

-----------------------------------------------------------------------------
(* The invariant.                                                           *)

TypeOK ==
  /\ debugEnabled \in BOOLEAN
  /\ stack \in Seq(Values)
  /\ msghander \in {0, 1}
  /\ globals \in [Names -> Values]
  /\ left \in [ThreadNames -> Seq(Ops)]
  /\ oldTop \in [ThreadNames -> Nat]
  /\ unread \in Nat

\* The values that stay: what OpenLua has put there and what nobody has taken.
Opened == OpenedStack(msghander # 0)
Staying == Len(Opened) + unread
Stays ==
  /\ Staying <= Len(stack)
  /\ \A i \in 1..Len(Opened) : stack[i] = Opened[i]
  /\ \A i \in Len(Opened) + 1 .. Staying : stack[i] \in Kept

Alone(t) == \A u \in ThreadNames \ {t} : left[u] = <<>>
Doing(t) ==
  \E rest \in Rests : Stage(left[t], rest, Len(stack) - Staying, oldTop[t] = Staying)

\* The first call in the midst of the other thread's ends what is said here.
HostInv ==
  ~raced /\ ~died =>
    /\ TypeOK
    /\ (\E t \in ThreadNames : Alone(t)) =>
         /\ Stays
         /\ (\A t \in ThreadNames : left[t] = <<>>) => Len(stack) = Staying
         /\ \A t \in ThreadNames : Alone(t) /\ left[t] # <<>> => Doing(t)

-----------------------------------------------------------------------------
(* Lists of calls.                                                          *)

\* A call is told by its name and its argument.
LEMMA OpsDiffer ==
  /\ \A a, b : Op(a) = Op(b) => a = b
  /\ \A a, b, c : Op(a) # On(b, c)
  /\ \A a, b, c, d : On(a, b) = On(c, d) => a = c /\ b = d
<1>1. \A a, b : Op(a) = Op(b) => a = b
  BY DEF Op
<1>2. \A a, b, c : Op(a) # On(b, c)
  <2>1. \A a, b, c : DOMAIN Op(a) = {"op"} /\ DOMAIN On(b, c) = {"op", "arg"}
    BY DEF Op, On
  <2> QED BY <2>1
<1>3. \A a, b, c, d : On(a, b) = On(c, d) => a = c /\ b = d
  BY DEF On
<1> QED BY <1>1, <1>2, <1>3

\* And its name says which of the calls it is.
LEMMA OpsBy ==
  ASSUME NEW x \in Ops
  PROVE  /\ x.op \in {"gettop", "settop", "pop", "setfield", "PrintError", "isfunction", "pcall0"} =>
              x = Op(x.op)
         /\ x.op = "push" => x.arg \in {"function", "number", "table"} /\ x = On(x.op, x.arg)
         /\ x.op \in {"getglobal", "setglobal"} => x.arg \in Names /\ x = On(x.op, x.arg)
         /\ x.op \in {"load", "pcall"} => x.arg \in BOOLEAN /\ x = On(x.op, x.arg)
  BY DEF Ops, Op, On

\* What is left of a list without its first calls.
LEMMA Dropped ==
  ASSUME NEW q \in Seq(Ops), NEW k \in Nat, k <= Len(q),
         NEW d, d = SubSeq(q, k + 1, Len(q))
  PROVE  d \in Seq(Ops) /\ Len(d) = Len(q) - k /\ \A i \in 1..Len(d) : d[i] = q[i + k]
<1> DEFINE m == k + 1
           n == Len(q)
<1>1. n \in Nat /\ m \in Nat /\ k <= n /\ m >= 1
  BY LenProperties
<1>2. \A i \in 1..n : q[i] \in Ops
  BY ElementOfSeq
<1> HIDE DEF m, n
<1>3. \A i \in m..n : q[i] \in Ops
  BY <1>1, <1>2
<1>4. /\ SubSeq(q, m, n) \in Seq(Ops)
      /\ Len(SubSeq(q, m, n)) = IF m <= n THEN n - m + 1 ELSE 0
      /\ \A i \in 1..(n - m + 1) : SubSeq(q, m, n)[i] = q[m + i - 1]
  BY <1>1, <1>3, SubSeqProperties
<1>5. d = SubSeq(q, m, n)
  BY DEF m, n
<1>6. m = k + 1
  BY DEF m
<1>7. Len(d) = n - k
  BY <1>1, <1>4, <1>5, <1>6
<1>8. \A i \in 1..(n - k) : d[i] = q[i + k]
  <2>1. SUFFICES ASSUME NEW i \in 1..(n - k) PROVE d[i] = q[i + k]
    OBVIOUS
  <2>2. i \in 1..(n - m + 1) /\ m + i - 1 = i + k
    BY <1>1, <1>6
  <2> QED BY <1>4, <1>5, <2>2
<1> QED BY <1>4, <1>5, <1>7, <1>8 DEF n

\* A call in front of a list.
LEMMA ThenHas ==
  ASSUME NEW x \in Ops, NEW s \in Seq(Ops)
  PROVE  /\ Then(x, s) \in Seq(Ops) /\ Then(x, s) # <<>> /\ Then(x, s)[1] = x
         /\ Len(s) \in Nat /\ Len(Then(x, s)) = Len(s) + 1
         /\ \A i \in 1..Len(s) : Then(x, s)[i + 1] = s[i]
<1> DEFINE y == <<x>>
           z == Then(x, s)
<1>1. y \in Seq(Ops)
  OBVIOUS
<1>2. Len(y) = 1 /\ y[1] = x
  OBVIOUS
<1>3. z = y \o s
  BY DEF Then
<1> HIDE DEF y, z
<1>4. /\ z \in Seq(Ops) /\ Len(z) = Len(y) + Len(s)
      /\ \A i \in 1..(Len(y) + Len(s)) : z[i] = IF i <= Len(y) THEN y[i] ELSE s[i - Len(y)]
  BY <1>1, <1>3, ConcatProperties
<1>5. Len(s) \in Nat /\ Len(z) = Len(s) + 1
  BY <1>2, <1>4, LenProperties
<1>6. z[1] = x /\ \A i \in 1..Len(s) : z[i + 1] = s[i]
  BY <1>2, <1>4, <1>5
<1>7. z # <<>>
  BY <1>5
<1> QED BY <1>4, <1>5, <1>6, <1>7 DEF z

LEMMA ThenIs ==
  ASSUME NEW x \in Ops, NEW s \in Seq(Ops)
  PROVE  /\ Then(x, s) \in Seq(Ops) /\ Then(x, s) # <<>> /\ Then(x, s)[1] = x
         /\ SubSeq(Then(x, s), 2, Len(Then(x, s))) = s
<1> DEFINE q == Then(x, s)
           d == SubSeq(q, 1 + 1, Len(q))
<1>1. /\ q \in Seq(Ops) /\ Len(s) \in Nat /\ Len(q) = Len(s) + 1
      /\ \A i \in 1..Len(s) : q[i + 1] = s[i]
  BY ThenHas
<1> HIDE DEF q
<1>2. 1 \in Nat /\ 1 <= Len(q)
  BY <1>1
<1>0. d = SubSeq(q, 1 + 1, Len(q))
  OBVIOUS
<1> HIDE DEF d
<1>3. d \in Seq(Ops) /\ Len(d) = Len(q) - 1 /\ \A i \in 1..Len(d) : d[i] = q[i + 1]
  BY <1>0, <1>1, <1>2, Dropped
<1>4. d = s
  <2>1. Len(d) = Len(s)
    BY <1>1, <1>3
  <2>2. \A i \in 1..Len(d) : d[i] = s[i]
    BY <1>1, <1>3, <2>1
  <2> QED BY <1>3, <2>1, <2>2, SeqEqual
<1>5. SubSeq(q, 2, Len(q)) = s
  BY <1>4 DEF d
<1> QED BY <1>5, ThenHas DEF q

LEMMA SkipTwo ==
  ASSUME NEW x \in Ops, NEW y \in Ops, NEW s \in Seq(Ops)
  PROVE  SubSeq(Then(x, Then(y, s)), 3, Len(Then(x, Then(y, s)))) = s
<1> DEFINE p == Then(y, s)
           q == Then(x, p)
           d == SubSeq(q, 2 + 1, Len(q))
<1>1. /\ p \in Seq(Ops) /\ Len(s) \in Nat /\ Len(p) = Len(s) + 1
      /\ \A i \in 1..Len(s) : p[i + 1] = s[i]
  BY ThenHas
<1> HIDE DEF p
<1>2. /\ q \in Seq(Ops) /\ Len(q) = Len(p) + 1
      /\ \A i \in 1..Len(p) : q[i + 1] = p[i]
  BY <1>1, ThenHas
<1> HIDE DEF q
<1>3. 2 \in Nat /\ 2 <= Len(q)
  BY <1>1, <1>2
<1>0. d = SubSeq(q, 2 + 1, Len(q))
  OBVIOUS
<1> HIDE DEF d
<1>4. d \in Seq(Ops) /\ Len(d) = Len(q) - 2 /\ \A i \in 1..Len(d) : d[i] = q[i + 2]
  <2> DEFINE k == 2
  <2>1. k \in Nat /\ k <= Len(q) /\ d = SubSeq(q, k + 1, Len(q))
    BY <1>0, <1>3
  <2> HIDE DEF k
  <2>2. d \in Seq(Ops) /\ Len(d) = Len(q) - k /\ \A i \in 1..Len(d) : d[i] = q[i + k]
    BY <1>2, <2>1, Dropped
  <2> QED BY <2>2 DEF k
<1>5. Len(d) = Len(s)
  BY <1>1, <1>2, <1>4
<1>6. ASSUME NEW i \in 1..Len(d) PROVE d[i] = s[i]
  <2>1. i \in 1..Len(s) /\ i + 1 \in 1..Len(p) /\ i + 2 = (i + 1) + 1
    BY <1>1, <1>5
  <2> QED BY <1>1, <1>2, <1>4, <2>1
<1>7. d = s
  BY <1>4, <1>5, <1>6, SeqEqual
<1>8. SubSeq(q, 3, Len(q)) = s
  BY <1>7 DEF d
<1> QED BY <1>8 DEF q, p

\* A list that is written out, followed by another one.
LEMMA Snoc ==
  ASSUME NEW s \in Seq(Ops), NEW x \in Ops, NEW r \in Seq(Ops)
  PROVE  Append(s, x) \o r = s \o Then(x, r) /\ Append(s, x) \in Seq(Ops)
<1>1. Append(s, x) = s \o <<x>> /\ Append(s, x) \in Seq(Ops)
  BY AppendIsConcat, AppendProperties
<1>2. <<x>> \in Seq(Ops)
  OBVIOUS
<1>3. (s \o <<x>>) \o r = s \o (<<x>> \o r)
  BY <1>2, ConcatAssociative
<1> QED BY <1>1, <1>3 DEF Then

\* Lists that are written out, as the calls one after the other.
LEMMA TwoOut ==
  ASSUME NEW r \in Seq(Ops), NEW a \in Ops, NEW b \in Ops
  PROVE  <<a, b>> \in Seq(Ops) /\ <<a, b>> \o r = Then(a, Then(b, r))
<1> DEFINE one == <<a>>
<1>1. one \in Seq(Ops) /\ <<a, b>> = Append(one, b)
  <2>1. one \in Seq(Ops)
    OBVIOUS
  <2>2. <<a, b>> = Append(one, b)
    OBVIOUS
  <2> QED BY <2>1, <2>2
<1>2. one \o Then(b, r) = Then(a, Then(b, r))
  BY DEF Then
<1> HIDE DEF one
<1>3. Append(one, b) \o r = one \o Then(b, r) /\ Append(one, b) \in Seq(Ops)
  BY <1>1, Snoc
<1> QED BY <1>1, <1>2, <1>3

LEMMA ThreeOut ==
  ASSUME NEW r \in Seq(Ops), NEW a \in Ops, NEW b \in Ops, NEW c \in Ops
  PROVE  /\ <<a, b, c>> \in Seq(Ops)
         /\ <<a, b, c>> \o r = Then(a, Then(b, Then(c, r)))
<1> DEFINE s == <<a, b>>
           next == Then(c, r)
<1>1. <<a, b, c>> = Append(s, c)
  OBVIOUS
<1>2. next \in Seq(Ops)
  BY ThenIs
<1> HIDE DEF next
<1>3. s \in Seq(Ops) /\ s \o next = Then(a, Then(b, next))
  BY <1>2, TwoOut
<1> HIDE DEF s
<1>4. Append(s, c) \o r = s \o next /\ Append(s, c) \in Seq(Ops)
  BY <1>3, Snoc DEF next
<1> QED BY <1>1, <1>3, <1>4 DEF next

LEMMA FourOut ==
  ASSUME NEW r \in Seq(Ops), NEW a \in Ops, NEW b \in Ops, NEW c \in Ops, NEW d \in Ops
  PROVE  /\ <<a, b, c, d>> \in Seq(Ops)
         /\ <<a, b, c, d>> \o r = Then(a, Then(b, Then(c, Then(d, r))))
<1> DEFINE s == <<a, b, c>>
           next == Then(d, r)
<1>1. <<a, b, c, d>> = Append(s, d)
  OBVIOUS
<1>2. next \in Seq(Ops)
  BY ThenIs
<1> HIDE DEF next
<1>3. s \in Seq(Ops) /\ s \o next = Then(a, Then(b, Then(c, next)))
  BY <1>2, ThreeOut
<1> HIDE DEF s
<1>4. Append(s, d) \o r = s \o next /\ Append(s, d) \in Seq(Ops)
  BY <1>3, Snoc DEF next
<1> QED BY <1>1, <1>3, <1>4 DEF next

LEMMA FiveOut ==
  ASSUME NEW r \in Seq(Ops), NEW a \in Ops, NEW b \in Ops, NEW c \in Ops, NEW d \in Ops,
         NEW e \in Ops
  PROVE  /\ <<a, b, c, d, e>> \in Seq(Ops)
         /\ <<a, b, c, d, e>> \o r = Then(a, Then(b, Then(c, Then(d, Then(e, r)))))
<1> DEFINE s == <<a, b, c, d>>
           next == Then(e, r)
<1>1. <<a, b, c, d, e>> = Append(s, e)
  OBVIOUS
<1>2. next \in Seq(Ops)
  BY ThenIs
<1> HIDE DEF next
<1>3. s \in Seq(Ops) /\ s \o next = Then(a, Then(b, Then(c, Then(d, next))))
  BY <1>2, FourOut
<1> HIDE DEF s
<1>4. Append(s, e) \o r = s \o next /\ Append(s, e) \in Seq(Ops)
  BY <1>3, Snoc DEF next
<1> QED BY <1>1, <1>3, <1>4 DEF next

\* The calls there are.
LEMMA OpsAre ==
  /\ Op("gettop") \in Ops /\ Op("settop") \in Ops /\ Op("pop") \in Ops /\ Op("setfield") \in Ops
  /\ Op("PrintError") \in Ops /\ Op("isfunction") \in Ops /\ Op("pcall0") \in Ops
  /\ \A what \in {"function", "number", "table"} : On("push", what) \in Ops
  /\ \A name \in Names : On("getglobal", name) \in Ops /\ On("setglobal", name) \in Ops
  /\ \A kept \in BOOLEAN : On("load", kept) \in Ops /\ On("pcall", kept) \in Ops
  BY DEF Ops, Op, On

\* LoadFile, written out.
LEMMA LoadFileIs ==
  LoadFile = <<Op("gettop"), On("load", FALSE), On("pcall", FALSE), Op("PrintError"), Op("settop")>>
<1> DEFINE g == Op("gettop")
           l == On("load", FALSE)
           p == On("pcall", FALSE)
           e == Op("PrintError")
           s == Op("settop")
           load == <<l, p, e>>
           start == <<g, l, p, e>>
           none == <<>>
<1>1. g \in Ops /\ l \in Ops /\ p \in Ops /\ e \in Ops /\ none \in Seq(Ops)
  <2>1. none \in Seq(Ops)
    OBVIOUS
  <2> HIDE DEF none
  <2> QED BY <2>1, OpsAre
<1>2. LoadFile = (<<g>> \o load) \o <<s>>
  <2>1. load = Evaluation(FALSE)
    BY DEF Evaluation
  <2> HIDE DEF load
  <2>2. LoadFile = (<<g>> \o Evaluation(FALSE)) \o <<s>>
    BY DEF LoadFile
  <2> QED BY <2>1, <2>2
<1> HIDE DEF g, l, p, e, s, none
<1>3. <<g, l, p, e, s>> = Append(start, s)
  OBVIOUS
<1>4. start \o <<s>> = Append(start, s)
  OBVIOUS
<1>5. load \o none = Then(l, Then(p, Then(e, none))) /\ load \in Seq(Ops)
  BY <1>1, ThreeOut
<1>6. start \o none = Then(g, Then(l, Then(p, Then(e, none)))) /\ start \in Seq(Ops)
  BY <1>1, FourOut
<1> HIDE DEF load, start
<1>7. load \o none = load /\ start \o none = start
  BY <1>5, <1>6, ConcatEmptySeq DEF none
<1>8. start = <<g>> \o load
  BY <1>5, <1>6, <1>7 DEF Then
<1> QED BY <1>2, <1>3, <1>4, <1>8 DEF g, l, p, e, s

NextIs(calls, n, rest, height, saved) ==
  LET more == SubSeq(calls, n + 1, Len(calls)) IN
  more \in Seq(Ops) /\ ((more = rest /\ height = 0) \/ Stage(more, rest, height, saved))

\* What each call finds, and where the thread is after it.
Moves(calls, rest, height, saved) ==
  /\ calls \in Seq(Ops) /\ calls # <<>>
  /\ calls[1] = Op("gettop") => height = 0 /\ NextIs(calls, 1, rest, 0, TRUE)
  /\ calls[1] = Op("settop") => saved /\ height \in Nat /\ NextIs(calls, 1, rest, 0, TRUE)
  /\ calls[1] = Op("pop") => height = 1 /\ NextIs(calls, 1, rest, 0, saved)
  /\ calls[1] = Op("setfield") => height = 2 /\ NextIs(calls, 1, rest, 1, saved)
  /\ calls[1] = Op("PrintError") => height \in {0, 1} /\ NextIs(calls, 1, rest, height, saved)
  /\ calls[1] = Op("isfunction") =>
       height = 1 /\ NextIs(calls, 1, rest, 1, saved) /\ NextIs(calls, 2, rest, 1, saved)
  /\ calls[1] = Op("pcall0") => height = 1 /\ \A s : NextIs(calls, 2, rest, 0, s)
  /\ \A what : calls[1] = On("push", what) \/ calls[1] = On("getglobal", what) =>
       height \in {0, 1} /\ NextIs(calls, 1, rest, height + 1, saved)
  /\ \A name : calls[1] = On("setglobal", name) => height = 1 /\ NextIs(calls, 1, rest, 0, saved)
  /\ calls[1] = On("load", TRUE) =>
       height = 0 /\ NextIs(calls, 1, rest, 1, saved) /\ \A s : NextIs(calls, 2, rest, 0, s)
  /\ calls[1] = On("load", FALSE) =>
       height = 0 /\ NextIs(calls, 1, rest, 1, saved) /\ NextIs(calls, 2, rest, 1, saved)
  /\ calls[1] = On("pcall", TRUE) =>
       height = 1 /\ \A s : NextIs(calls, 1, rest, 0, s) /\ NextIs(calls, 2, rest, 0, s)
  /\ calls[1] = On("pcall", FALSE) =>
       /\ height = 1 /\ NextIs(calls, 1, rest, 1, saved)
       /\ \A n \in Nat : NextIs(calls, 2, rest, n, saved)

\* x is a call of that name and of no other.
IsA(x, name) ==
  /\ \A a \in {"gettop", "settop", "pop", "setfield", "PrintError", "isfunction", "pcall0"} \ {name} :
       x # Op(a)
  /\ \A a \in {"push", "getglobal", "setglobal", "load", "pcall"} \ {name} : \A b : x # On(a, b)

\* The call in front is done, or the two in front are.
LEMMA Forward ==
  ASSUME NEW rest, NEW height, NEW saved, NEW x \in Ops, NEW p \in Seq(Ops)
  PROVE  /\ Then(x, p) \in Seq(Ops) /\ Then(x, p) # <<>> /\ Then(x, p)[1] = x
         /\ (p = rest /\ height = 0) \/ Stage(p, rest, height, saved) =>
              /\ NextIs(Then(x, p), 1, rest, height, saved)
              /\ \A y \in Ops : NextIs(Then(y, Then(x, p)), 2, rest, height, saved)
<1>1. SubSeq(Then(x, p), 1 + 1, Len(Then(x, p))) = p
  BY ThenIs
<1>2. \A y \in Ops : SubSeq(Then(y, Then(x, p)), 2 + 1, Len(Then(y, Then(x, p)))) = p
  BY SkipTwo
<1> QED BY <1>1, <1>2, ThenIs DEF NextIs

\* Within each block, a call finds what it needs and goes on at the next place.
LEMMA RegistrationMoves ==
  ASSUME NEW rest \in Seq(Ops), NEW calls, NEW height, NEW saved,
         InRegistration(calls, rest, height, saved)
  PROVE  Moves(calls, rest, height, saved)
<1>1. PICK name \in Names :
        LET end == Then(On("setglobal", name), Then(Op("settop"), rest))
            push == Then(On("push", "function"), end) IN
        \/ calls = Then(Op("gettop"), push) /\ height = 0
        \/ calls = push /\ height = 0 /\ saved
        \/ calls = end /\ height = 1 /\ saved
  BY DEF InRegistration
<1> DEFINE close == Then(Op("settop"), rest)
           end == Then(On("setglobal", name), close)
           push == Then(On("push", "function"), end)
<1>2. close \in Seq(Ops) /\ end \in Seq(Ops) /\ push \in Seq(Ops)
  BY OpsAre, ThenIs DEF Names
<1>3. Stage(push, rest, 0, TRUE)
  BY DEF Stage, InClosing, InRegistration
<1>4. saved => Stage(close, rest, 0, saved) /\ Stage(end, rest, 1, saved)
  BY DEF Stage, InClosing, InRegistration
<1>5. \/ calls = Then(Op("gettop"), push) /\ height = 0
      \/ calls = Then(On("push", "function"), end) /\ height = 0 /\ saved
      \/ calls = Then(On("setglobal", name), close) /\ height = 1 /\ saved
  BY <1>1
<1> HIDE DEF close, end, push
<1>6. CASE calls = Then(Op("gettop"), push) /\ height = 0
  <2>1. Op("gettop") \in Ops
    BY OpsAre
  <2>2. /\ calls \in Seq(Ops) /\ calls # <<>> /\ calls[1] = Op("gettop")
        /\ NextIs(calls, 1, rest, 0, TRUE)
    BY <1>2, <1>6, <1>3, <1>4, <2>1, Forward
  <2>3. IsA(calls[1], "gettop")
    BY <2>2, OpsDiffer DEF IsA
  <2> QED BY <1>6, <2>2, <2>3 DEF Moves, IsA
<1>7. CASE calls = Then(On("push", "function"), end) /\ height = 0 /\ saved
  <2>1. On("push", "function") \in Ops
    BY OpsAre
  <2>2. /\ calls \in Seq(Ops) /\ calls # <<>> /\ calls[1] = On("push", "function")
        /\ NextIs(calls, 1, rest, 1, saved)
    BY <1>2, <1>7, <1>3, <1>4, <2>1, Forward
  <2>3. IsA(calls[1], "push")
    BY <2>2, OpsDiffer DEF IsA
  <2>4. height \in {0, 1} /\ NextIs(calls, 1, rest, height + 1, saved)
    <3>1. height = 0 /\ 0 + 1 = 1
      BY <1>7
    <3> QED BY <2>2, <3>1
  <2> QED BY <2>2, <2>3, <2>4 DEF Moves, IsA
<1>8. CASE calls = Then(On("setglobal", name), close) /\ height = 1 /\ saved
  <2>1. On("setglobal", name) \in Ops
    BY OpsAre DEF Names
  <2>2. /\ calls \in Seq(Ops) /\ calls # <<>> /\ calls[1] = On("setglobal", name)
        /\ NextIs(calls, 1, rest, 0, saved)
    BY <1>2, <1>8, <1>3, <1>4, <2>1, Forward
  <2>3. IsA(calls[1], "setglobal")
    BY <2>2, OpsDiffer DEF IsA
  <2> QED BY <1>8, <2>2, <2>3 DEF Moves, IsA
<1> QED BY <1>5, <1>6, <1>7, <1>8

LEMMA PlainMoves ==
  ASSUME NEW rest \in Seq(Ops), NEW calls, NEW height, NEW saved, InPlain(calls, rest, height)
  PROVE  Moves(calls, rest, height, saved)
<1> DEFINE assign == Then(On("setglobal", "TestValue"), rest)
           pop == Then(Op("pop"), rest)
<1>1. assign \in Seq(Ops) /\ pop \in Seq(Ops)
  BY OpsAre, ThenIs DEF Names
<1>2. Stage(assign, rest, 1, saved) /\ Stage(pop, rest, 1, saved)
  BY DEF Stage, InClosing, InPlain
<1>3. \/ calls = Then(On("push", "number"), assign) /\ height = 0
      \/ calls = Then(On("setglobal", "TestValue"), rest) /\ height = 1
      \/ calls = Then(On("push", "table"), pop) /\ height = 0
      \/ calls = Then(Op("pop"), rest) /\ height = 1
  BY DEF InPlain
<1> HIDE DEF assign, pop
<1>4. CASE calls = Then(On("push", "number"), assign) /\ height = 0
  <2>1. On("push", "number") \in Ops
    BY OpsAre
  <2>2. /\ calls \in Seq(Ops) /\ calls # <<>> /\ calls[1] = On("push", "number")
        /\ NextIs(calls, 1, rest, 1, saved)
    BY <1>1, <1>4, <1>2, <2>1, Forward
  <2>3. IsA(calls[1], "push")
    BY <2>2, OpsDiffer DEF IsA
  <2>4. height \in {0, 1} /\ NextIs(calls, 1, rest, height + 1, saved)
    <3>1. height = 0 /\ 0 + 1 = 1
      BY <1>4
    <3> QED BY <2>2, <3>1
  <2> QED BY <2>2, <2>3, <2>4 DEF Moves, IsA
<1>5. CASE calls = Then(On("setglobal", "TestValue"), rest) /\ height = 1
  <2>1. On("setglobal", "TestValue") \in Ops
    BY OpsAre DEF Names
  <2>2. /\ calls \in Seq(Ops) /\ calls # <<>> /\ calls[1] = On("setglobal", "TestValue")
        /\ NextIs(calls, 1, rest, 0, saved)
    BY <1>1, <1>5, <1>2, <2>1, Forward
  <2>3. IsA(calls[1], "setglobal")
    BY <2>2, OpsDiffer DEF IsA
  <2> QED BY <1>5, <2>2, <2>3 DEF Moves, IsA
<1>6. CASE calls = Then(On("push", "table"), pop) /\ height = 0
  <2>1. On("push", "table") \in Ops
    BY OpsAre
  <2>2. /\ calls \in Seq(Ops) /\ calls # <<>> /\ calls[1] = On("push", "table")
        /\ NextIs(calls, 1, rest, 1, saved)
    BY <1>1, <1>6, <1>2, <2>1, Forward
  <2>3. IsA(calls[1], "push")
    BY <2>2, OpsDiffer DEF IsA
  <2>4. height \in {0, 1} /\ NextIs(calls, 1, rest, height + 1, saved)
    <3>1. height = 0 /\ 0 + 1 = 1
      BY <1>6
    <3> QED BY <2>2, <3>1
  <2> QED BY <2>2, <2>3, <2>4 DEF Moves, IsA
<1>7. CASE calls = Then(Op("pop"), rest) /\ height = 1
  <2>1. Op("pop") \in Ops
    BY OpsAre
  <2>2. /\ calls \in Seq(Ops) /\ calls # <<>> /\ calls[1] = Op("pop")
        /\ NextIs(calls, 1, rest, 0, saved)
    BY <1>1, <1>7, <1>2, <2>1, Forward
  <2>3. IsA(calls[1], "pop")
    BY <2>2, OpsDiffer DEF IsA
  <2> QED BY <1>7, <2>2, <2>3 DEF Moves, IsA
<1> QED BY <1>3, <1>4, <1>5, <1>6, <1>7

LEMMA RestoringMoves ==
  ASSUME NEW rest \in Seq(Ops), NEW calls, NEW height, NEW saved,
         InRestoring(calls, rest, height, saved)
  PROVE  Moves(calls, rest, height, saved)
<1> DEFINE close == Then(Op("settop"), rest)
           field == Then(Op("setfield"), close)
           push == Then(On("push", "function"), field)
           get == Then(On("getglobal", "debug"), push)
<1>1. close \in Seq(Ops) /\ field \in Seq(Ops) /\ push \in Seq(Ops) /\ get \in Seq(Ops)
  BY OpsAre, ThenIs DEF Names
<1>2. Stage(get, rest, 0, TRUE)
  BY DEF Stage, InClosing, InRestoring
<1>3. saved => /\ Stage(close, rest, 1, saved) /\ Stage(field, rest, 2, saved)
                /\ Stage(push, rest, 1, saved)
  BY DEF Stage, InClosing, InRestoring
<1>4. \/ calls = Then(Op("gettop"), get) /\ height = 0
      \/ calls = Then(On("getglobal", "debug"), push) /\ height = 0 /\ saved
      \/ calls = Then(On("push", "function"), field) /\ height = 1 /\ saved
      \/ calls = Then(Op("setfield"), close) /\ height = 2 /\ saved
  BY DEF InRestoring
<1> HIDE DEF close, field, push, get
<1>5. CASE calls = Then(Op("gettop"), get) /\ height = 0
  <2>1. Op("gettop") \in Ops
    BY OpsAre
  <2>2. /\ calls \in Seq(Ops) /\ calls # <<>> /\ calls[1] = Op("gettop")
        /\ NextIs(calls, 1, rest, 0, TRUE)
    BY <1>1, <1>5, <1>2, <1>3, <2>1, Forward
  <2>3. IsA(calls[1], "gettop")
    BY <2>2, OpsDiffer DEF IsA
  <2> QED BY <1>5, <2>2, <2>3 DEF Moves, IsA
<1>6. CASE calls = Then(On("getglobal", "debug"), push) /\ height = 0 /\ saved
  <2>1. On("getglobal", "debug") \in Ops
    BY OpsAre DEF Names
  <2>2. /\ calls \in Seq(Ops) /\ calls # <<>> /\ calls[1] = On("getglobal", "debug")
        /\ NextIs(calls, 1, rest, 1, saved)
    BY <1>1, <1>6, <1>2, <1>3, <2>1, Forward
  <2>3. IsA(calls[1], "getglobal")
    BY <2>2, OpsDiffer DEF IsA
  <2>4. height \in {0, 1} /\ NextIs(calls, 1, rest, height + 1, saved)
    <3>1. height = 0 /\ 0 + 1 = 1
      BY <1>6
    <3> QED BY <2>2, <3>1
  <2> QED BY <2>2, <2>3, <2>4 DEF Moves, IsA
<1>7. CASE calls = Then(On("push", "function"), field) /\ height = 1 /\ saved
  <2>1. On("push", "function") \in Ops
    BY OpsAre
  <2>2. /\ calls \in Seq(Ops) /\ calls # <<>> /\ calls[1] = On("push", "function")
        /\ NextIs(calls, 1, rest, 2, saved)
    BY <1>1, <1>7, <1>2, <1>3, <2>1, Forward
  <2>3. IsA(calls[1], "push")
    BY <2>2, OpsDiffer DEF IsA
  <2>4. height \in {0, 1} /\ NextIs(calls, 1, rest, height + 1, saved)
    <3>1. height = 1 /\ 1 + 1 = 2
      BY <1>7
    <3> QED BY <2>2, <3>1
  <2> QED BY <2>2, <2>3, <2>4 DEF Moves, IsA
<1>8. CASE calls = Then(Op("setfield"), close) /\ height = 2 /\ saved
  <2>1. Op("setfield") \in Ops
    BY OpsAre
  <2>2. /\ calls \in Seq(Ops) /\ calls # <<>> /\ calls[1] = Op("setfield")
        /\ NextIs(calls, 1, rest, 1, saved)
    BY <1>1, <1>8, <1>2, <1>3, <2>1, Forward
  <2>3. IsA(calls[1], "setfield")
    BY <2>2, OpsDiffer DEF IsA
  <2> QED BY <1>8, <2>2, <2>3 DEF Moves, IsA
<1> QED BY <1>4, <1>5, <1>6, <1>7, <1>8

LEMMA EvalMoves ==
  ASSUME NEW rest \in Seq(Ops), NEW calls, NEW height, NEW saved, InEval(calls, rest, height)
  PROVE  Moves(calls, rest, height, saved)
<1> DEFINE print == Then(Op("PrintError"), rest)
           pcall == Then(On("pcall", TRUE), print)
<1>1. print \in Seq(Ops) /\ pcall \in Seq(Ops)
  BY OpsAre, ThenIs DEF Names
<1>2. \A s : Stage(print, rest, 0, s) /\ Stage(pcall, rest, 1, s)
  BY DEF Stage, InClosing, InEval
<1>3. \/ calls = Then(On("load", TRUE), Then(On("pcall", TRUE), print)) /\ height = 0
      \/ calls = Then(On("pcall", TRUE), Then(Op("PrintError"), rest)) /\ height = 1
      \/ calls = Then(Op("PrintError"), rest) /\ height = 0
  BY DEF InEval
<1> HIDE DEF print, pcall
<1>4. CASE calls = Then(On("load", TRUE), Then(On("pcall", TRUE), print)) /\ height = 0
  <2>1. On("load", TRUE) \in Ops
    BY OpsAre
  <2>5. On("pcall", TRUE) \in Ops
    BY OpsAre
  <2>6. \A s : NextIs(calls, 2, rest, 0, s)
    BY <1>1, <1>4, <1>2, <2>1, <2>5, Forward
  <2>7. Then(On("pcall", TRUE), print) \in Seq(Ops)
    BY <1>1, <2>5, ThenIs
  <2>8. calls \in Seq(Ops) /\ calls # <<>> /\ calls[1] = On("load", TRUE)
    BY <1>4, <2>1, <2>7, Forward
  <2>9. NextIs(calls, 1, rest, 1, saved)
    BY <1>4, <1>2, <2>1, <2>7, Forward DEF print, pcall
  <2>2. /\ calls \in Seq(Ops) /\ calls # <<>> /\ calls[1] = On("load", TRUE)
        /\ NextIs(calls, 1, rest, 1, saved) /\ \A s : NextIs(calls, 2, rest, 0, s)
    BY <2>6, <2>8, <2>9
  <2>3. IsA(calls[1], "load")
    BY <2>2, OpsDiffer DEF IsA
  <2>4. calls[1] # On("load", FALSE)
    BY <2>2, OpsDiffer
  <2> QED BY <1>4, <2>2, <2>3, <2>4 DEF Moves, IsA
<1>5. CASE calls = Then(On("pcall", TRUE), Then(Op("PrintError"), rest)) /\ height = 1
  <2>1. On("pcall", TRUE) \in Ops
    BY OpsAre
  <2>5. Op("PrintError") \in Ops
    BY OpsAre
  <2>6. \A s : NextIs(calls, 2, rest, 0, s)
    BY <1>1, <1>5, <1>2, <2>1, <2>5, Forward
  <2>7. Then(Op("PrintError"), rest) \in Seq(Ops)
    BY <1>1, <2>5, ThenIs
  <2>8. calls \in Seq(Ops) /\ calls # <<>> /\ calls[1] = On("pcall", TRUE)
    BY <1>5, <2>1, <2>7, Forward
  <2>9. \A s : NextIs(calls, 1, rest, 0, s)
    BY <1>5, <1>2, <2>1, <2>7, Forward DEF print, pcall
  <2>2. /\ calls \in Seq(Ops) /\ calls # <<>> /\ calls[1] = On("pcall", TRUE)
        /\ \A s : NextIs(calls, 1, rest, 0, s) /\ NextIs(calls, 2, rest, 0, s)
    BY <2>6, <2>8, <2>9
  <2>3. IsA(calls[1], "pcall")
    BY <2>2, OpsDiffer DEF IsA
  <2>4. calls[1] # On("pcall", FALSE)
    BY <2>2, OpsDiffer
  <2> QED BY <1>5, <2>2, <2>3, <2>4 DEF Moves, IsA
<1>6. CASE calls = Then(Op("PrintError"), rest) /\ height = 0
  <2>1. Op("PrintError") \in Ops
    BY OpsAre
  <2>2. /\ calls \in Seq(Ops) /\ calls # <<>> /\ calls[1] = Op("PrintError")
        /\ NextIs(calls, 1, rest, 0, saved)
    BY <1>1, <1>6, <1>2, <2>1, Forward
  <2>3. IsA(calls[1], "PrintError")
    BY <2>2, OpsDiffer DEF IsA
  <2> QED BY <1>6, <2>2, <2>3 DEF Moves, IsA
<1> QED BY <1>3, <1>4, <1>5, <1>6

LEMMA FileMoves ==
  ASSUME NEW rest \in Seq(Ops), NEW calls, NEW height, NEW saved,
         InFile(calls, rest, height, saved)
  PROVE  Moves(calls, rest, height, saved)
<1> DEFINE close == Then(Op("settop"), rest)
           print == Then(Op("PrintError"), close)
           pcall == Then(On("pcall", FALSE), print)
           load == Then(On("load", FALSE), pcall)
<1>1. close \in Seq(Ops) /\ print \in Seq(Ops) /\ pcall \in Seq(Ops) /\ load \in Seq(Ops)
  BY OpsAre, ThenIs DEF Names
<1>2. Stage(load, rest, 0, TRUE)
  BY DEF Stage, InClosing, InFile
<1>3. saved => /\ Stage(pcall, rest, 1, saved) /\ Stage(print, rest, 1, saved)
                /\ \A n \in Nat : Stage(close, rest, n, saved)
  BY DEF Stage, InClosing, InFile
<1>4. \/ calls = Then(Op("gettop"), load) /\ height = 0
      \/ calls = Then(On("load", FALSE), Then(On("pcall", FALSE), print)) /\ height = 0 /\ saved
      \/ calls = Then(On("pcall", FALSE), Then(Op("PrintError"), close)) /\ height = 1 /\ saved
      \/ calls = Then(Op("PrintError"), close) /\ height = 1 /\ saved
  BY DEF InFile
<1> HIDE DEF close, print, pcall, load
<1>5. CASE calls = Then(Op("gettop"), load) /\ height = 0
  <2>1. Op("gettop") \in Ops
    BY OpsAre
  <2>2. /\ calls \in Seq(Ops) /\ calls # <<>> /\ calls[1] = Op("gettop")
        /\ NextIs(calls, 1, rest, 0, TRUE)
    BY <1>1, <1>5, <1>2, <1>3, <2>1, Forward
  <2>3. IsA(calls[1], "gettop")
    BY <2>2, OpsDiffer DEF IsA
  <2> QED BY <1>5, <2>2, <2>3 DEF Moves, IsA
<1>6. CASE calls = Then(On("load", FALSE), Then(On("pcall", FALSE), print)) /\ height = 0 /\ saved
  <2>1. On("load", FALSE) \in Ops
    BY OpsAre
  <2>5. On("pcall", FALSE) \in Ops
    BY OpsAre
  <2>6. NextIs(calls, 2, rest, 1, saved)
    BY <1>1, <1>6, <1>2, <1>3, <2>1, <2>5, Forward
  <2>7. Then(On("pcall", FALSE), print) \in Seq(Ops)
    BY <1>1, <2>5, ThenIs
  <2>8. calls \in Seq(Ops) /\ calls # <<>> /\ calls[1] = On("load", FALSE)
    BY <1>6, <2>1, <2>7, Forward
  <2>9. NextIs(calls, 1, rest, 1, saved)
    BY <1>6, <1>2, <1>3, <2>1, <2>7, Forward DEF close, print, pcall, load
  <2>2. /\ calls \in Seq(Ops) /\ calls # <<>> /\ calls[1] = On("load", FALSE)
        /\ NextIs(calls, 1, rest, 1, saved) /\ NextIs(calls, 2, rest, 1, saved)
    BY <2>6, <2>8, <2>9
  <2>3. IsA(calls[1], "load")
    BY <2>2, OpsDiffer DEF IsA
  <2>4. calls[1] # On("load", TRUE)
    BY <2>2, OpsDiffer
  <2> QED BY <1>6, <2>2, <2>3, <2>4 DEF Moves, IsA
<1>7. CASE calls = Then(On("pcall", FALSE), Then(Op("PrintError"), close)) /\ height = 1 /\ saved
  <2>1. On("pcall", FALSE) \in Ops
    BY OpsAre
  <2>5. Op("PrintError") \in Ops
    BY OpsAre
  <2>6. \A n \in Nat : NextIs(calls, 2, rest, n, saved)
    BY <1>1, <1>7, <1>2, <1>3, <2>1, <2>5, Forward
  <2>7. Then(Op("PrintError"), close) \in Seq(Ops)
    BY <1>1, <2>5, ThenIs
  <2>8. calls \in Seq(Ops) /\ calls # <<>> /\ calls[1] = On("pcall", FALSE)
    BY <1>7, <2>1, <2>7, Forward
  <2>9. NextIs(calls, 1, rest, 1, saved)
    BY <1>7, <1>2, <1>3, <2>1, <2>7, Forward DEF close, print, pcall, load
  <2>2. /\ calls \in Seq(Ops) /\ calls # <<>> /\ calls[1] = On("pcall", FALSE)
        /\ NextIs(calls, 1, rest, 1, saved) /\ \A n \in Nat : NextIs(calls, 2, rest, n, saved)
    BY <2>6, <2>8, <2>9
  <2>3. IsA(calls[1], "pcall")
    BY <2>2, OpsDiffer DEF IsA
  <2>4. calls[1] # On("pcall", TRUE)
    BY <2>2, OpsDiffer
  <2> QED BY <1>7, <2>2, <2>3, <2>4 DEF Moves, IsA
<1>8. CASE calls = Then(Op("PrintError"), close) /\ height = 1 /\ saved
  <2>1. Op("PrintError") \in Ops
    BY OpsAre
  <2>2. /\ calls \in Seq(Ops) /\ calls # <<>> /\ calls[1] = Op("PrintError")
        /\ NextIs(calls, 1, rest, 1, saved)
    BY <1>1, <1>8, <1>2, <1>3, <2>1, Forward
  <2>3. IsA(calls[1], "PrintError")
    BY <2>2, OpsDiffer DEF IsA
  <2> QED BY <1>8, <2>2, <2>3 DEF Moves, IsA
<1> QED BY <1>4, <1>5, <1>6, <1>7, <1>8

LEMMA UpdateMoves ==
  ASSUME NEW rest \in Seq(Ops), NEW calls, NEW height, NEW saved,
         InUpdate(calls, rest, height, saved)
  PROVE  Moves(calls, rest, height, saved)
<1> DEFINE close == Then(Op("settop"), rest)
           pcall == Then(Op("pcall0"), close)
           is == Then(Op("isfunction"), pcall)
           get == Then(On("getglobal", "OnExtenderDebugUpdate"), is)
<1>1. close \in Seq(Ops) /\ pcall \in Seq(Ops) /\ is \in Seq(Ops) /\ get \in Seq(Ops)
  BY OpsAre, ThenIs DEF Names
<1>2. Stage(get, rest, 0, TRUE)
  BY DEF Stage, InClosing, InUpdate
<1>3. saved => /\ Stage(is, rest, 1, saved) /\ Stage(pcall, rest, 1, saved)
                /\ Stage(close, rest, 1, saved)
  BY DEF Stage, InClosing, InUpdate
<1>4. \/ calls = Then(Op("gettop"), get) /\ height = 0
      \/ calls = Then(On("getglobal", "OnExtenderDebugUpdate"), is) /\ height = 0 /\ saved
      \/ calls = Then(Op("isfunction"), Then(Op("pcall0"), close)) /\ height = 1 /\ saved
      \/ calls = Then(Op("pcall0"), Then(Op("settop"), rest)) /\ height = 1 /\ saved
  BY DEF InUpdate
<1> HIDE DEF close, pcall, is, get
<1>5. CASE calls = Then(Op("gettop"), get) /\ height = 0
  <2>1. Op("gettop") \in Ops
    BY OpsAre
  <2>2. /\ calls \in Seq(Ops) /\ calls # <<>> /\ calls[1] = Op("gettop")
        /\ NextIs(calls, 1, rest, 0, TRUE)
    BY <1>1, <1>5, <1>2, <1>3, <2>1, Forward
  <2>3. IsA(calls[1], "gettop")
    BY <2>2, OpsDiffer DEF IsA
  <2> QED BY <1>5, <2>2, <2>3 DEF Moves, IsA
<1>6. CASE calls = Then(On("getglobal", "OnExtenderDebugUpdate"), is) /\ height = 0 /\ saved
  <2>1. On("getglobal", "OnExtenderDebugUpdate") \in Ops
    BY OpsAre DEF Names
  <2>2. /\ calls \in Seq(Ops) /\ calls # <<>> /\ calls[1] = On("getglobal", "OnExtenderDebugUpdate")
        /\ NextIs(calls, 1, rest, 1, saved)
    BY <1>1, <1>6, <1>2, <1>3, <2>1, Forward
  <2>3. IsA(calls[1], "getglobal")
    BY <2>2, OpsDiffer DEF IsA
  <2>4. height \in {0, 1} /\ NextIs(calls, 1, rest, height + 1, saved)
    <3>1. height = 0 /\ 0 + 1 = 1
      BY <1>6
    <3> QED BY <2>2, <3>1
  <2> QED BY <2>2, <2>3, <2>4 DEF Moves, IsA
<1>7. CASE calls = Then(Op("isfunction"), Then(Op("pcall0"), close)) /\ height = 1 /\ saved
  <2>1. Op("isfunction") \in Ops
    BY OpsAre
  <2>5. Op("pcall0") \in Ops
    BY OpsAre
  <2>6. NextIs(calls, 2, rest, 1, saved)
    BY <1>1, <1>7, <1>2, <1>3, <2>1, <2>5, Forward
  <2>7. Then(Op("pcall0"), close) \in Seq(Ops)
    BY <1>1, <2>5, ThenIs
  <2>8. calls \in Seq(Ops) /\ calls # <<>> /\ calls[1] = Op("isfunction")
    BY <1>7, <2>1, <2>7, Forward
  <2>9. NextIs(calls, 1, rest, 1, saved)
    BY <1>7, <1>2, <1>3, <2>1, <2>7, Forward DEF close, pcall, is, get
  <2>2. /\ calls \in Seq(Ops) /\ calls # <<>> /\ calls[1] = Op("isfunction")
        /\ NextIs(calls, 1, rest, 1, saved) /\ NextIs(calls, 2, rest, 1, saved)
    BY <2>6, <2>8, <2>9
  <2>3. IsA(calls[1], "isfunction")
    BY <2>2, OpsDiffer DEF IsA
  <2> QED BY <1>7, <2>2, <2>3 DEF Moves, IsA
<1>8. CASE calls = Then(Op("pcall0"), Then(Op("settop"), rest)) /\ height = 1 /\ saved
  <2>1. Op("pcall0") \in Ops
    BY OpsAre
  <2>5. Op("settop") \in Ops
    BY OpsAre
  <2>6. \A s : NextIs(calls, 2, rest, 0, s)
    BY <1>1, <1>8, <1>2, <1>3, <2>1, <2>5, Forward
  <2>7. Then(Op("settop"), rest) \in Seq(Ops)
    BY <1>1, <2>5, ThenIs
  <2>8. calls \in Seq(Ops) /\ calls # <<>> /\ calls[1] = Op("pcall0")
    BY <1>8, <2>1, <2>7, Forward
  <2>2. /\ calls \in Seq(Ops) /\ calls # <<>> /\ calls[1] = Op("pcall0")
        /\ \A s : NextIs(calls, 2, rest, 0, s)
    BY <2>6, <2>8
  <2>3. IsA(calls[1], "pcall0")
    BY <2>2, OpsDiffer DEF IsA
  <2> QED BY <1>8, <2>2, <2>3 DEF Moves, IsA
<1> QED BY <1>4, <1>5, <1>6, <1>7, <1>8

\* Wherever the thread is.
LEMMA StageMoves ==
  ASSUME NEW rest \in Seq(Ops), NEW calls, NEW height, NEW saved,
         Stage(calls, rest, height, saved)
  PROVE  Moves(calls, rest, height, saved)
<1>1. CASE InClosing(calls, rest, height, saved)
  <2>1. calls = Then(Op("settop"), rest) /\ height \in Nat /\ saved
    BY <1>1 DEF InClosing
  <2>2. Op("settop") \in Ops
    BY OpsAre
  <2>3. /\ calls \in Seq(Ops) /\ calls # <<>> /\ calls[1] = Op("settop")
        /\ NextIs(calls, 1, rest, 0, TRUE)
    BY <2>1, <2>2, Forward
  <2>4. IsA(calls[1], "settop")
    BY <2>3, OpsDiffer DEF IsA
  <2> QED BY <2>1, <2>3, <2>4 DEF Moves, IsA
<1> QED
  BY <1>1, RegistrationMoves, PlainMoves, RestoringMoves, EvalMoves, FileMoves, UpdateMoves
     DEF Stage

-----------------------------------------------------------------------------
(* Hooks and lines begin with a block, and go on with one.                  *)

\* A block is begun at no height, with nothing saved yet.
LEMMA BlockBegins ==
  ASSUME NEW b \in Blocks, NEW rest \in Seq(Ops), NEW saved
  PROVE  /\ b \in Seq(Ops) /\ b \o rest \in Seq(Ops)
         /\ Stage(b \o rest, rest, 0, saved)
<1>1. ASSUME NEW name \in Names
      PROVE  /\ RegisterFunction(name) \in Seq(Ops)
             /\ Stage(RegisterFunction(name) \o rest, rest, 0, saved)
  <2> DEFINE u == Op("gettop")
             v == On("push", "function")
             w == On("setglobal", name)
             x == Op("settop")
  <2>1. u \in Ops /\ v \in Ops /\ w \in Ops /\ x \in Ops
    BY OpsAre DEF Names
  <2>2. RegisterFunction(name) = <<u, v, w, x>>
    BY DEF RegisterFunction
  <2> HIDE DEF u, v, w, x
  <2>3. /\ <<u, v, w, x>> \in Seq(Ops)
        /\ <<u, v, w, x>> \o rest = Then(u, Then(v, Then(w, Then(x, rest))))
    BY <2>1, FourOut
  <2>4. /\ RegisterFunction(name) \in Seq(Ops)
        /\ RegisterFunction(name) \o rest = Then(u, Then(v, Then(w, Then(x, rest))))
    BY <2>2, <2>3
  <2> QED BY <2>4 DEF Stage, InRegistration, u, v, w, x
<1>2. /\ SetGlobal("TestValue") \in Seq(Ops)
      /\ Stage(SetGlobal("TestValue") \o rest, rest, 0, saved)
  <2>1. On("push", "number") \in Ops /\ On("setglobal", "TestValue") \in Ops
    BY OpsAre DEF Names
  <2>2. /\ SetGlobal("TestValue") \in Seq(Ops)
        /\ SetGlobal("TestValue") \o rest
             = Then(On("push", "number"), Then(On("setglobal", "TestValue"), rest))
    BY <2>1, TwoOut DEF SetGlobal
  <2> QED BY <2>2 DEF Stage, InPlain
<1>3. Library \in Seq(Ops) /\ Stage(Library \o rest, rest, 0, saved)
  <2>1. On("push", "table") \in Ops /\ Op("pop") \in Ops
    BY OpsAre
  <2>2. /\ Library \in Seq(Ops)
        /\ Library \o rest = Then(On("push", "table"), Then(Op("pop"), rest))
    BY <2>1, TwoOut DEF Library
  <2> QED BY <2>2 DEF Stage, InPlain
<1>4. RestoreSethook \in Seq(Ops) /\ Stage(RestoreSethook \o rest, rest, 0, saved)
  <2> DEFINE u == Op("gettop")
             v == On("getglobal", "debug")
             w == On("push", "function")
             x == Op("setfield")
             y == Op("settop")
  <2>1. u \in Ops /\ v \in Ops /\ w \in Ops /\ x \in Ops /\ y \in Ops
    BY OpsAre DEF Names
  <2>2. RestoreSethook = <<u, v, w, x, y>>
    BY DEF RestoreSethook
  <2> HIDE DEF u, v, w, x, y
  <2>3. /\ <<u, v, w, x, y>> \in Seq(Ops)
        /\ <<u, v, w, x, y>> \o rest = Then(u, Then(v, Then(w, Then(x, Then(y, rest)))))
    BY <2>1, FiveOut
  <2>4. /\ RestoreSethook \in Seq(Ops)
        /\ RestoreSethook \o rest = Then(u, Then(v, Then(w, Then(x, Then(y, rest)))))
    BY <2>2, <2>3
  <2> QED BY <2>4 DEF Stage, InRestoring, u, v, w, x, y
<1>5. Eval \in Seq(Ops) /\ Stage(Eval \o rest, rest, 0, saved)
  <2> DEFINE u == On("load", TRUE)
             v == On("pcall", TRUE)
             w == Op("PrintError")
  <2>1. u \in Ops /\ v \in Ops /\ w \in Ops
    BY OpsAre DEF Names
  <2>2. Eval = <<u, v, w>>
    BY DEF Eval, Evaluation
  <2> HIDE DEF u, v, w
  <2>3. <<u, v, w>> \in Seq(Ops) /\ <<u, v, w>> \o rest = Then(u, Then(v, Then(w, rest)))
    BY <2>1, ThreeOut
  <2>4. Eval \in Seq(Ops) /\ Eval \o rest = Then(u, Then(v, Then(w, rest)))
    BY <2>2, <2>3
  <2> QED BY <2>4 DEF Stage, InEval, u, v, w
<1>6. LoadFile \in Seq(Ops) /\ Stage(LoadFile \o rest, rest, 0, saved)
  <2> DEFINE u == Op("gettop")
             v == On("load", FALSE)
             w == On("pcall", FALSE)
             x == Op("PrintError")
             y == Op("settop")
  <2>1. u \in Ops /\ v \in Ops /\ w \in Ops /\ x \in Ops /\ y \in Ops
    BY OpsAre DEF Names
  <2>2. LoadFile = <<u, v, w, x, y>>
    BY LoadFileIs
  <2> HIDE DEF u, v, w, x, y
  <2>3. /\ <<u, v, w, x, y>> \in Seq(Ops)
        /\ <<u, v, w, x, y>> \o rest = Then(u, Then(v, Then(w, Then(x, Then(y, rest)))))
    BY <2>1, FiveOut
  <2>4. /\ LoadFile \in Seq(Ops)
        /\ LoadFile \o rest = Then(u, Then(v, Then(w, Then(x, Then(y, rest)))))
    BY <2>2, <2>3
  <2> QED BY <2>4 DEF Stage, InFile, u, v, w, x, y
<1>7. Update \in Seq(Ops) /\ Stage(Update \o rest, rest, 0, saved)
  <2> DEFINE u == Op("gettop")
             v == On("getglobal", "OnExtenderDebugUpdate")
             w == Op("isfunction")
             x == Op("pcall0")
             y == Op("settop")
  <2>1. u \in Ops /\ v \in Ops /\ w \in Ops /\ x \in Ops /\ y \in Ops
    BY OpsAre DEF Names
  <2>2. Update = <<u, v, w, x, y>>
    BY DEF Update
  <2> HIDE DEF u, v, w, x, y
  <2>3. /\ <<u, v, w, x, y>> \in Seq(Ops)
        /\ <<u, v, w, x, y>> \o rest = Then(u, Then(v, Then(w, Then(x, Then(y, rest)))))
    BY <2>1, FiveOut
  <2>4. /\ Update \in Seq(Ops)
        /\ Update \o rest = Then(u, Then(v, Then(w, Then(x, Then(y, rest)))))
    BY <2>2, <2>3
  <2> QED BY <2>4 DEF Stage, InUpdate, u, v, w, x, y
<1>8. b \in Seq(Ops) /\ Stage(b \o rest, rest, 0, saved)
  BY <1>1, <1>2, <1>3, <1>4, <1>5, <1>6, <1>7 DEF Blocks, Names
<1> QED BY <1>8, ConcatProperties

\* Lists one after the other.
LEMMA CatIs ==
  /\ \A p, q \in Seq(Ops) : Cat(p, q) \in Seq(Ops)
  /\ \A p, q, r \in Seq(Ops) : Cat(Cat(p, q), r) = Cat(p, Cat(q, r))
  /\ \A p \in Seq(Ops) : Cat(p, <<>>) = p /\ Cat(<<>>, p) = p
  /\ <<>> \in Seq(Ops)
<1>1. ASSUME NEW p \in Seq(Ops), NEW q \in Seq(Ops)
      PROVE  Cat(p, q) \in Seq(Ops)
  BY ConcatProperties DEF Cat
<1>2. ASSUME NEW p \in Seq(Ops), NEW q \in Seq(Ops), NEW r \in Seq(Ops)
      PROVE  Cat(Cat(p, q), r) = Cat(p, Cat(q, r))
  <2>1. (p \o q) \o r = p \o (q \o r)
    BY ConcatAssociative
  <2> QED BY <2>1, Zenon DEF Cat
<1>3. ASSUME NEW p \in Seq(Ops)
      PROVE  Cat(p, <<>>) = p /\ Cat(<<>>, p) = p
  BY ConcatEmptySeq DEF Cat
<1>4. <<>> \in Seq(Ops)
  BY EmptySeq
<1> QED BY <1>1, <1>2, <1>3, <1>4

LEMMA Regroup ==
  ASSUME NEW p \in Seq(Ops), NEW q \in Seq(Ops), NEW r \in Seq(Ops), NEW s \in Seq(Ops)
  PROVE  /\ Cat(Cat(Cat(p, q), r), s) = Cat(p, Cat(q, Cat(r, s)))
         /\ Cat(Cat(p, q), r) \in Seq(Ops) /\ Cat(p, Cat(q, Cat(r, s))) \in Seq(Ops)
<1>1. Cat(p, q) \in Seq(Ops) /\ Cat(r, s) \in Seq(Ops)
  BY CatIs
<1>2. Cat(Cat(Cat(p, q), r), s) = Cat(Cat(p, q), Cat(r, s))
  BY <1>1, CatIs
<1>3. Cat(Cat(p, q), Cat(r, s)) = Cat(p, Cat(q, Cat(r, s)))
  BY <1>1, CatIs
<1>4. Cat(Cat(p, q), r) \in Seq(Ops) /\ Cat(q, Cat(r, s)) \in Seq(Ops)
  BY <1>1, CatIs
<1>5. Cat(p, Cat(q, Cat(r, s))) \in Seq(Ops)
  BY <1>4, CatIs
<1> QED BY <1>2, <1>3, <1>4, <1>5

\* What is left after a block is nothing or begins with a block.
LEMMA RestsAre ==
  \A rest \in Rests :
    /\ rest \in Seq(Ops)
    /\ rest = <<>> \/ \E b \in Blocks, s \in Rests : rest = Cat(b, s)
<1> DEFINE Good(rest) == rest \in Rests /\ rest \in Seq(Ops)
<1>1. Good(<<>>)
  BY EmptySeq DEF Rests
<1>3. /\ LoadFile \in Blocks /\ Eval \in Blocks /\ RestoreSethook \in Blocks /\ Library \in Blocks
      /\ SetGlobal("TestValue") \in Blocks /\ RegisterFunction("LoadBank") \in Blocks
  BY DEF Blocks
<1> DEFINE Begun(rest) == Good(rest) /\ \E b \in Blocks, s \in Rests : rest = Cat(b, s)
<1>4. ASSUME NEW b \in Blocks, NEW s, Good(s), Cat(b, s) \in Rests
      PROVE  Begun(Cat(b, s)) /\ Good(Cat(b, s))
  BY <1>4, BlockBegins, CatIs
<1>5. Begun(Last1)
  <2>1. Last1 = Cat(RegisterFunction("LoadBank"), <<>>)
    <3>1. Last1 \in Seq(Ops)
      BY <1>1, <1>3, BlockBegins DEF Last1
    <3> QED BY <3>1, CatIs DEF Last1
  <2>2. Last1 \in Rests
    BY DEF Rests
  <2> QED BY <1>1, <1>3, <1>4, <2>1, <2>2
<1>6. /\ Last2 \in Rests /\ Last3 \in Rests /\ Last4 \in Rests /\ Last5 \in Rests
      /\ \A x \in {Last1, Last5} : Before(x) \subseteq Rests
  BY DEF Rests
<1> HIDE DEF Good
<1>7. Begun(Last2)
  BY <1>3, <1>4, <1>5, <1>6 DEF Last2
<1>8. Begun(Last3)
  BY <1>3, <1>4, <1>6, <1>7 DEF Last3
<1>9. Begun(Last4)
  BY <1>3, <1>4, <1>6, <1>8 DEF Last4
<1>10. Begun(Last5)
  BY <1>3, <1>4, <1>6, <1>9 DEF Last5
<1>11. ASSUME NEW x \in {Last1, Last5}, NEW y \in Before(x)
       PROVE  Begun(y)
  <2>1. Good(x) /\ Before(x) \subseteq Rests
    BY <1>5, <1>6, <1>10
  <2>2. Begun(Restored(x))
    BY <1>3, <1>4, <2>1 DEF Before, Restored
  <2>3. Begun(Opened1(x))
    BY <1>3, <1>4, <2>1, <2>2 DEF Before, Opened1
  <2>4. Begun(Opened2(x))
    BY <1>3, <1>4, <2>1, <2>3 DEF Before, Opened2
  <2>5. Begun(Opened3(x))
    BY <1>3, <1>4, <2>1, <2>4 DEF Before, Opened3
  <2>6. Begun(Assigned(x))
    BY <1>3, <1>4, <2>1, <2>5 DEF Before, Assigned
  <2> QED BY <2>2, <2>3, <2>4, <2>5, <2>6 DEF Before
<1>12. \A rest \in Rests : rest = <<>> \/ Begun(rest)
  <2> HIDE DEF Begun
  <2> QED BY <1>5, <1>7, <1>8, <1>9, <1>10, <1>11 DEF Rests
<1> QED BY <1>1, <1>12 DEF Good

\* The hook of InitLua, read from its beginning.
LEMMA InitCalls ==
  ASSUME debugEnabled \in BOOLEAN
  PROVE  \E rest \in Rests : ManagerInit = Cat(RegisterFunction("TestLog"), rest)
<1> DEFINE a == RegisterFunction("TestLog")
           g == SetGlobal("TestValue")
           l == Library
           h == RestoreSethook
           e == Eval
           f == LoadFile
           z == Last1
           d == IF debugEnabled THEN Cat(Cat(Cat(e, e), e), f) ELSE <<>>
           x == IF debugEnabled THEN Last5 ELSE Last1
           Q == Seq(Ops)
<1>1. ManagerInit = Cat(Cat(Cat(Cat(Cat(a, g), Cat(Cat(l, l), l)), h), d), z)
  BY DEF ManagerInit, OpenLibraries, Library, Last1, Cat
<1>2. /\ a \in Q /\ g \in Q /\ l \in Q /\ h \in Q /\ e \in Q /\ f \in Q /\ z \in Q /\ <<>> \in Q
  <2>1. {a, g, l, h, e, f, z} \subseteq Blocks
    BY DEF Blocks, Last1
  <2> HIDE DEF a, g, l, h, e, f, z
  <2> QED BY <2>1, BlockBegins, EmptySeq
<1>3. Last5 = Cat(e, Cat(e, Cat(e, Cat(f, z))))
  BY DEF Last5, Last4, Last3, Last2
<1>4. \A s \in Q : Assigned(s) = Cat(g, Cat(l, Cat(l, Cat(l, Cat(h, s)))))
  BY DEF Assigned, Opened3, Opened2, Opened1, Restored
<1> HIDE DEF a, g, l, h, e, f, z, Q
<1>5. \A s, t \in Q : Cat(s, t) \in Q
  BY CatIs DEF Q
<1>6. \A s, t, u \in Q : Cat(Cat(s, t), u) = Cat(s, Cat(t, u))
  BY CatIs DEF Q
<1>7. d \in Q /\ x \in Q /\ Cat(d, z) = x
  <2>1. CASE debugEnabled
    <3> DEFINE c == Cat(Cat(e, e), e)
               w == Cat(f, z)
    <3>1. d = Cat(c, f) /\ x = Cat(e, Cat(e, Cat(e, w)))
      BY <1>3, <2>1
    <3>2. w \in Q
      BY <1>2, <1>5
    <3> HIDE DEF d, x, w
    <3>3. Cat(c, w) = Cat(e, Cat(e, Cat(e, w))) /\ c \in Q /\ Cat(e, Cat(e, Cat(e, w))) \in Q
      BY <1>2, <3>2, Regroup DEF Q
    <3> HIDE DEF c
    <3>4. Cat(Cat(c, f), z) = Cat(c, w)
      BY <1>2, <3>3, <1>6 DEF w
    <3>5. d \in Q
      BY <1>2, <1>5, <3>1, <3>3
    <3> QED BY <3>1, <3>3, <3>4, <3>5
  <2>2. CASE ~debugEnabled
    <3>1. d = <<>> /\ x = z
      BY <2>2 DEF z
    <3>2. z \in Q
      BY <1>2
    <3> HIDE DEF x, d
    <3>3. Cat(<<>>, z) = z
      BY <3>2, CatIs DEF Q
    <3> QED BY <1>2, <3>1, <3>2, <3>3
  <2> QED BY <2>1, <2>2
<1>8. ManagerInit = Cat(a, Assigned(x))
  <2> DEFINE m == Cat(Cat(l, l), l)
             y == Cat(h, x)
             c == Cat(Cat(a, g), m)
             b == Cat(c, h)
  <2> HIDE DEF d, x
  <2>1. y \in Q
    BY <1>2, <1>5, <1>7
  <2>2. ManagerInit = Cat(Cat(b, d), z)
    BY <1>1
  <2> HIDE DEF y
  <2>3. Cat(m, y) = Cat(l, Cat(l, Cat(l, y))) /\ m \in Q
    BY <1>2, <2>1, Regroup DEF Q
  <2> HIDE DEF m
  <2>4. Cat(c, y) = Cat(a, Cat(g, Cat(m, y))) /\ c \in Q
    BY <1>2, <2>1, <2>3, Regroup DEF Q
  <2> HIDE DEF c
  <2>5. b \in Q
    BY <1>2, <1>5, <2>4
  <2>6. Cat(b, x) = Cat(c, y)
    BY <1>2, <1>6, <1>7, <2>4 DEF y
  <2> HIDE DEF b
  <2>7. Cat(Cat(b, d), z) = Cat(b, Cat(d, z))
    BY <1>2, <1>6, <1>7, <2>5
  <2>8. Assigned(x) = Cat(g, Cat(l, Cat(l, Cat(l, y))))
    BY <1>4, <1>7 DEF y
  <2>9. ManagerInit = Cat(c, y)
    BY <1>7, <2>2, <2>6, <2>7
  <2> QED BY <2>3, <2>4, <2>8, <2>9
<1>9. Assigned(x) \in Rests
  BY DEF Rests, Before
<1> QED BY <1>8, <1>9 DEF a

-----------------------------------------------------------------------------
(* The stack: what stays is a beginning of it, and a call works above that. *)

\* A value on top, and a stack cut down.
LEMMA Pushed ==
  ASSUME NEW q \in Seq(Values), NEW v \in Values, NEW r, r = Append(q, v)
  PROVE  /\ r \in Seq(Values) /\ Len(q) \in Nat /\ Len(r) = Len(q) + 1
         /\ r[Len(r)] = v /\ \A i \in 1..Len(q) : r[i] = q[i]
<1>1. Len(q) \in Nat
  BY LenProperties
<1> QED BY <1>1, AppendProperties

LEMMA Cut ==
  ASSUME NEW q \in Seq(Values), NEW m \in Nat, m <= Len(q), NEW r, r = SubSeq(q, 1, m)
  PROVE  r \in Seq(Values) /\ Len(r) = m /\ \A i \in 1..m : r[i] = q[i]
<1>1. Len(q) \in Nat /\ \A i \in 1..Len(q) : q[i] \in Values
  BY LenProperties, ElementOfSeq
<1>2. 1 \in Int /\ m \in Int /\ \A i \in 1..m : q[i] \in Values
  BY <1>1
<1>3. /\ SubSeq(q, 1, m) \in Seq(Values)
      /\ Len(SubSeq(q, 1, m)) = IF 1 <= m THEN m - 1 + 1 ELSE 0
      /\ \A i \in 1..(m - 1 + 1) : SubSeq(q, 1, m)[i] = q[1 + i - 1]
  BY <1>2, SubSeqProperties
<1>4. Len(r) = m
  BY <1>3
<1>5. \A i \in 1..m : r[i] = q[i]
  BY <1>3
<1> QED BY <1>3, <1>4, <1>5

LEMMA Sizes ==
  ASSUME TypeOK
  PROVE  /\ Len(stack) \in Nat /\ Len(Opened) \in Nat /\ Staying \in Nat
         /\ unread \in Nat /\ Staying = Len(Opened) + unread
<1>1. Len(Opened) \in {0, 2}
  BY DEF Opened, OpenedStack
<1> QED BY <1>1, LenProperties DEF TypeOK, Staying

\* A call that keeps k values more.
LEMMA StaysOn ==
  ASSUME TypeOK, Stays, msghander' = msghander, NEW k \in Nat, unread' = unread + k,
         stack' \in Seq(Values), Staying + k <= Len(stack'),
         \A i \in 1..Staying : stack'[i] = stack[i],
         \A i \in Staying + 1 .. Staying + k : stack'[i] \in Kept
  PROVE  Stays' /\ Staying' = Staying + k
<1>1. Opened' = Opened
  BY DEF Opened
<1>2. /\ Len(Opened) \in Nat /\ unread \in Nat /\ Staying \in Nat
      /\ Staying = Len(Opened) + unread
  BY Sizes
<1>3. Staying' = Len(Opened) + unread'
  BY <1>1 DEF Staying
<1>4. Staying' = Staying + k
  BY <1>2, <1>3
<1>5. /\ \A i \in 1..Len(Opened) : stack[i] = Opened[i]
      /\ \A i \in Len(Opened) + 1 .. Staying : stack[i] \in Kept
  BY DEF Stays
<1>6. \A i \in 1..Len(Opened) : stack'[i] = Opened[i]
  BY <1>2, <1>5
<1>7. \A i \in Len(Opened) + 1 .. Staying + k : stack'[i] \in Kept
  <2>1. SUFFICES ASSUME NEW i \in Len(Opened) + 1 .. Staying + k PROVE stack'[i] \in Kept
    OBVIOUS
  <2>2. CASE i <= Staying
    BY <1>2, <1>5, <2>2
  <2>3. CASE i > Staying
    BY <1>2, <2>3
  <2> QED BY <1>2, <2>2, <2>3
<1>8. Stays'
  BY <1>1, <1>4, <1>6, <1>7 DEF Stays
<1> QED BY <1>4, <1>8

-----------------------------------------------------------------------------
(* One call.                                                                *)

\* A hook or a line begins while neither thread is at work.
LEMMA BeginKeeps ==
  ASSUME HostInv, NEW t \in ThreadNames, NEW b \in Blocks, NEW rest \in Rests,
         Begin(t, Cat(b, rest))
  PROVE  HostInv'
<1> DEFINE calls == Cat(b, rest)
<1>1. calls \in Seq(Ops) /\ \A saved : Stage(calls, rest, 0, saved)
  BY RestsAre, BlockBegins DEF Cat
<1>2. /\ ~raced /\ ~died /\ left[t] = <<>> /\ calls # <<>>
      /\ left' = [left EXCEPT ![t] = calls]
      /\ UNCHANGED <<debugEnabled, stack, msghander, globals, oldTop, raced, died, unread>>
  BY DEF Begin
<1> HIDE DEF calls
<1>3. TypeOK
  BY <1>2 DEF HostInv
<1>4. TypeOK'
  BY <1>1, <1>2, <1>3 DEF TypeOK
<1>5. left'[t] = calls /\ \A u \in ThreadNames \ {t} : left'[u] = left[u]
  BY <1>2, <1>3 DEF TypeOK
<1>6. Staying' = Staying
  BY <1>2 DEF Staying, Opened
<1>7. ASSUME NEW u \in ThreadNames, Alone(u)'
      PROVE  /\ u = t /\ Stays /\ Len(stack) = Staying
  <2>1. \A v \in ThreadNames \ {u} : left'[v] = <<>>
    BY <1>7 DEF Alone
  <2>2. u = t
    BY <1>2, <1>5, <2>1
  <2>3. \A v \in ThreadNames : left[v] = <<>>
    BY <1>2, <1>5, <2>1, <2>2
  <2>4. Alone(t)
    BY <2>3 DEF Alone
  <2> QED BY <1>2, <2>2, <2>3, <2>4 DEF HostInv
<1>8. Stays => Stays'
  BY <1>2, <1>6 DEF Stays, Opened
<1>9. Len(stack) = Staying => Doing(t)'
  <2>1. SUFFICES ASSUME Len(stack) = Staying PROVE Doing(t)'
    OBVIOUS
  <2>2. Len(stack') - Staying' = 0
    BY <1>2, <1>3, <1>6, <2>1, Sizes
  <2>3. Stage(left'[t], rest, Len(stack') - Staying', oldTop'[t] = Staying')
    BY <1>1, <1>5, <2>2
  <2> QED BY <2>3 DEF Doing
<1>10. left'[t] # <<>>
  BY <1>2, <1>5
<1> QED BY <1>4, <1>7, <1>8, <1>9, <1>10 DEF HostInv

\* What a thread finds that makes a call while the other one has none to make.
LEMMA Ready ==
  ASSUME HostInv, NEW t \in ThreadNames, NEW op, NEW n, Does(t, op, n), ~raced'
  PROVE  /\ TypeOK /\ Stays /\ Alone(t)
         /\ left[t][1] \in Ops /\ left[t][1].op = op
         /\ left' = [left EXCEPT ![t] = SubSeq(@, n + 1, Len(@))]
         /\ debugEnabled' = debugEnabled
         /\ \E rest \in Rests, height \in Int, saved \in BOOLEAN :
              /\ height = Len(stack) - Staying /\ saved = (oldTop[t] = Staying)
              /\ Moves(left[t], rest, height, saved)
<1>1. /\ ~raced /\ ~died /\ left[t] # <<>> /\ left[t][1].op = op
      /\ left' = [left EXCEPT ![t] = SubSeq(@, n + 1, Len(@))]
      /\ debugEnabled' = debugEnabled
      /\ raced' = \E u \in ThreadNames \ {t} : left[u] # <<>>
  BY DEF Does
<1>2. TypeOK /\ Alone(t)
  BY <1>1 DEF HostInv, Alone
<1>3. Stays /\ Doing(t)
  BY <1>1, <1>2 DEF HostInv
<1> DEFINE h == Len(stack) - Staying
           s == (oldTop[t] = Staying)
<1>4. h \in Int /\ s \in BOOLEAN
  BY <1>2, Sizes
<1>5. PICK rest \in Rests : Stage(left[t], rest, h, s)
  BY <1>3 DEF Doing
<1> HIDE DEF h, s
<1>6. Moves(left[t], rest, h, s)
  BY <1>5, RestsAre, StageMoves
<1>7. left[t][1] \in Ops
  <2>1. left[t] \in Seq(Ops)
    BY <1>2 DEF TypeOK
  <2>2. Len(left[t]) \in Nat /\ Len(left[t]) # 0
    BY <1>1, <2>1, EmptySeq, LenProperties
  <2> QED BY <2>1, <2>2, ElementOfSeq
<1>8. \E r \in Rests, height \in Int, saved \in BOOLEAN :
        /\ height = Len(stack) - Staying /\ saved = (oldTop[t] = Staying)
        /\ Moves(left[t], r, height, saved)
  BY <1>4, <1>6 DEF h, s
<1> QED BY <1>1, <1>2, <1>3, <1>7, <1>8

\* And where it has come to when the call is done.
CallDone(t, n, rest, height, saved) ==
  /\ left' = [left EXCEPT ![t] = SubSeq(@, n + 1, Len(@))]
  /\ debugEnabled' = debugEnabled /\ msghander' = msghander
  /\ stack' \in Seq(Values) /\ globals' \in [Names -> Values]
  /\ oldTop' \in [ThreadNames -> Nat] /\ unread' \in Nat /\ Stays'
  /\ height = Len(stack') - Staying' /\ saved = (oldTop'[t] = Staying')
  /\ NextIs(left[t], n, rest, height, saved)

LEMMA AfterCall ==
  ASSUME TypeOK, NEW t \in ThreadNames, Alone(t), NEW n \in {1, 2}, NEW rest \in Rests,
         NEW height \in Int, NEW saved \in BOOLEAN, CallDone(t, n, rest, height, saved)
  PROVE  HostInv'
<1>0. /\ left' = [left EXCEPT ![t] = SubSeq(@, n + 1, Len(@))]
      /\ debugEnabled' = debugEnabled /\ msghander' = msghander
      /\ stack' \in Seq(Values) /\ globals' \in [Names -> Values]
      /\ oldTop' \in [ThreadNames -> Nat] /\ unread' \in Nat /\ Stays'
      /\ height = Len(stack') - Staying' /\ saved = (oldTop'[t] = Staying')
      /\ NextIs(left[t], n, rest, height, saved)
  BY DEF CallDone
<1> DEFINE more == SubSeq(left[t], n + 1, Len(left[t]))
<1>1. more \in Seq(Ops) /\ ((more = rest /\ height = 0) \/ Stage(more, rest, height, saved))
  BY <1>0 DEF NextIs
<1>2. left'[t] = more /\ \A u \in ThreadNames \ {t} : left'[u] = left[u]
  BY <1>0 DEF TypeOK
<1>3. left' \in [ThreadNames -> Seq(Ops)]
  BY <1>0, <1>1 DEF TypeOK
<1> HIDE DEF more
<1>4. TypeOK'
  BY <1>0, <1>3 DEF TypeOK
<1>5. \A u \in ThreadNames \ {t} : left'[u] = <<>>
  BY <1>2 DEF Alone
<1>6. Len(stack') \in Nat /\ Staying' \in Nat
  <2>1. Len(Opened') \in {0, 2}
    BY DEF Opened, OpenedStack
  <2> QED BY <1>0, <2>1, LenProperties DEF Staying
<1>7. ASSUME NEW r \in Rests, NEW h, h = Len(stack') - Staying', Stage(more, r, h, saved)
      PROVE  HostInv'
  <2>1. more # <<>>
    BY <1>7, StageMoves, RestsAre DEF Moves
  <2>2. Stage(left'[t], r, Len(stack') - Staying', oldTop'[t] = Staying')
    BY <1>0, <1>2, <1>7
  <2>3. Doing(t)'
    BY <2>2 DEF Doing
  <2>4. left'[t] # <<>>
    BY <1>2, <2>1
  <2>5. \A u \in ThreadNames : left'[u] # <<>> => u = t
    BY <1>5
  <2> QED BY <1>0, <1>4, <2>3, <2>4, <2>5 DEF HostInv
<1>8. CASE Stage(more, rest, height, saved)
  BY <1>0, <1>7, <1>8
<1>9. CASE more = rest /\ height = 0
  <2>1. CASE rest = <<>>
    <3>1. \A u \in ThreadNames : left'[u] = <<>>
      BY <1>2, <1>5, <1>9, <2>1
    <3>2. Len(stack') = Staying'
      BY <1>0, <1>6, <1>9
    <3> QED BY <1>0, <1>4, <3>1, <3>2 DEF HostInv
  <2>2. CASE rest # <<>>
    <3>1. PICK b \in Blocks, s \in Rests : rest = Cat(b, s)
      BY <2>2, RestsAre
    <3>2. Stage(more, s, 0, saved)
      BY <1>9, <3>1, RestsAre, BlockBegins DEF Cat
    <3> QED BY <1>0, <1>7, <1>9, <3>2
  <2> QED BY <2>1, <2>2
<1> QED BY <1>1, <1>8, <1>9

\* Each call keeps the invariant; one that meets the other thread or dies has no more to keep.
LEMMA GetTopKeeps ==
  ASSUME HostInv, NEW t \in ThreadNames, GetTop(t)
  PROVE  HostInv'
<1> SUFFICES ASSUME ~raced', ~died' PROVE HostInv'
  BY DEF HostInv
<1>1. Does(t, "gettop", 1)
  BY DEF GetTop
<1>2. /\ TypeOK /\ Stays /\ Alone(t) /\ left[t][1] \in Ops /\ left[t][1].op = "gettop"
      /\ left' = [left EXCEPT ![t] = SubSeq(@, 1 + 1, Len(@))] /\ debugEnabled' = debugEnabled
  BY <1>1, Ready
<1>3. PICK rest \in Rests, height \in Int, saved \in BOOLEAN :
        /\ height = Len(stack) - Staying /\ saved = (oldTop[t] = Staying)
        /\ Moves(left[t], rest, height, saved)
  BY <1>1, Ready
<1>4. /\ stack \in Seq(Values) /\ globals \in [Names -> Values] /\ oldTop \in [ThreadNames -> Nat]
      /\ Len(stack) \in Nat /\ Staying \in Nat /\ unread \in Nat
  BY <1>2, Sizes DEF TypeOK
<1>5. left[t][1] = Op("gettop")
  BY <1>2, OpsBy
<1>6. height = 0 /\ NextIs(left[t], 1, rest, 0, TRUE)
  BY <1>3, <1>5 DEF Moves
<1>7. /\ oldTop' = [oldTop EXCEPT ![t] = Len(stack)]
      /\ UNCHANGED <<stack, msghander, globals, died, unread>>
  BY DEF GetTop
<1>8. Staying' = Staying /\ Stays'
  BY <1>2, <1>7 DEF Stays, Staying, Opened
<1>9. oldTop' \in [ThreadNames -> Nat] /\ oldTop'[t] = Len(stack)
  BY <1>4, <1>7
<1>10. Len(stack') - Staying' = 0 /\ TRUE = (oldTop'[t] = Staying')
  <2>1. Len(stack) = Staying
    BY <1>3, <1>4, <1>6
  <2> QED BY <1>4, <1>7, <1>8, <1>9, <2>1
<1>11. CallDone(t, 1, rest, 0, TRUE)
  BY <1>2, <1>4, <1>6, <1>7, <1>8, <1>9, <1>10 DEF CallDone
<1>12. PICK now \in BOOLEAN : CallDone(t, 1, rest, 0, now)
  BY <1>11, Zenon
<1> QED BY <1>2, <1>12, AfterCall

LEMMA SetTopKeeps ==
  ASSUME HostInv, NEW t \in ThreadNames, SetTop(t)
  PROVE  HostInv'
<1> SUFFICES ASSUME ~raced', ~died' PROVE HostInv'
  BY DEF HostInv
<1>1. Does(t, "settop", 1)
  BY DEF SetTop
<1>2. /\ TypeOK /\ Stays /\ Alone(t) /\ left[t][1] \in Ops /\ left[t][1].op = "settop"
      /\ left' = [left EXCEPT ![t] = SubSeq(@, 1 + 1, Len(@))] /\ debugEnabled' = debugEnabled
  BY <1>1, Ready
<1>3. PICK rest \in Rests, height \in Int, saved \in BOOLEAN :
        /\ height = Len(stack) - Staying /\ saved = (oldTop[t] = Staying)
        /\ Moves(left[t], rest, height, saved)
  BY <1>1, Ready
<1>4. /\ stack \in Seq(Values) /\ globals \in [Names -> Values] /\ oldTop \in [ThreadNames -> Nat]
      /\ Len(stack) \in Nat /\ Staying \in Nat /\ unread \in Nat
  BY <1>2, Sizes DEF TypeOK
<1>5. left[t][1] = Op("settop")
  BY <1>2, OpsBy
<1>6. saved /\ NextIs(left[t], 1, rest, 0, TRUE)
  BY <1>3, <1>5 DEF Moves
<1>7. stack' = SubSeq(stack, 1, oldTop[t]) /\ UNCHANGED <<msghander, globals, oldTop, died, unread>>
  BY DEF SetTop
<1>8. oldTop[t] = Staying /\ Staying <= Len(stack)
  BY <1>2, <1>3, <1>6 DEF Stays
<1>9. /\ stack' \in Seq(Values) /\ Len(stack') = Staying
      /\ \A i \in 1..Staying : stack'[i] = stack[i]
  BY <1>4, <1>7, <1>8, Cut
<1>10. Staying' = Staying /\ Stays'
  BY <1>2, <1>4, <1>7, <1>9, StaysOn
<1>11. Len(stack') - Staying' = 0 /\ TRUE = (oldTop'[t] = Staying')
  BY <1>4, <1>7, <1>8, <1>9, <1>10
<1>12. CallDone(t, 1, rest, 0, TRUE)
  BY <1>2, <1>4, <1>6, <1>7, <1>9, <1>10, <1>11 DEF CallDone
<1>13. PICK now \in BOOLEAN : CallDone(t, 1, rest, 0, now)
  BY <1>12, Zenon
<1> QED BY <1>2, <1>13, AfterCall

LEMMA DiscardKeeps ==
  ASSUME HostInv, NEW t \in ThreadNames, Discard(t)
  PROVE  HostInv'
<1> SUFFICES ASSUME ~raced', ~died' PROVE HostInv'
  BY DEF HostInv
<1>1. Does(t, "pop", 1)
  BY DEF Discard
<1>2. /\ TypeOK /\ Stays /\ Alone(t) /\ left[t][1] \in Ops /\ left[t][1].op = "pop"
      /\ left' = [left EXCEPT ![t] = SubSeq(@, 1 + 1, Len(@))] /\ debugEnabled' = debugEnabled
  BY <1>1, Ready
<1>3. PICK rest \in Rests, height \in Int, saved \in BOOLEAN :
        /\ height = Len(stack) - Staying /\ saved = (oldTop[t] = Staying)
        /\ Moves(left[t], rest, height, saved)
  BY <1>1, Ready
<1>4. /\ stack \in Seq(Values) /\ globals \in [Names -> Values] /\ oldTop \in [ThreadNames -> Nat]
      /\ Len(stack) \in Nat /\ Staying \in Nat /\ unread \in Nat
  BY <1>2, Sizes DEF TypeOK
<1>5. left[t][1] = Op("pop")
  BY <1>2, OpsBy
<1>6. height = 1 /\ NextIs(left[t], 1, rest, 0, saved)
  BY <1>3, <1>5 DEF Moves
<1>7. stack' = SubSeq(stack, 1, Len(stack) - 1) /\ UNCHANGED <<msghander, globals, oldTop, died, unread>>
  BY DEF Discard, Pop
<1>8. Len(stack) = Staying + 1
  BY <1>3, <1>4, <1>6
<1>9. /\ stack' \in Seq(Values) /\ Len(stack') = Staying + 0
      /\ \A i \in 1..Staying : stack'[i] = stack[i]
  <2>1. Len(stack) - 1 = Staying + 0 /\ Len(stack) - 1 \in Nat /\ Len(stack) - 1 <= Len(stack)
    BY <1>4, <1>8
  <2>2. /\ stack' \in Seq(Values) /\ Len(stack') = Len(stack) - 1
        /\ \A i \in 1..Len(stack) - 1 : stack'[i] = stack[i]
    BY <1>4, <1>7, <2>1, Cut
  <2> QED BY <1>4, <2>1, <2>2
<1>10. Staying' = Staying /\ Stays'
  BY <1>2, <1>4, <1>7, <1>9, StaysOn
<1>11. Len(stack') - Staying' = 0 /\ saved = (oldTop'[t] = Staying')
  BY <1>3, <1>4, <1>7, <1>9, <1>10
<1>12. globals' \in [Names -> Values]
  BY <1>4, <1>7
<1>13. CallDone(t, 1, rest, 0, saved)
  BY <1>2, <1>4, <1>6, <1>7, <1>9, <1>10, <1>11, <1>12 DEF CallDone
<1> QED BY <1>2, <1>13, AfterCall

LEMMA SetFieldKeeps ==
  ASSUME HostInv, NEW t \in ThreadNames, SetField(t)
  PROVE  HostInv'
<1> SUFFICES ASSUME ~raced', ~died' PROVE HostInv'
  BY DEF HostInv
<1>1. Does(t, "setfield", 1)
  BY DEF SetField
<1>2. /\ TypeOK /\ Stays /\ Alone(t) /\ left[t][1] \in Ops /\ left[t][1].op = "setfield"
      /\ left' = [left EXCEPT ![t] = SubSeq(@, 1 + 1, Len(@))] /\ debugEnabled' = debugEnabled
  BY <1>1, Ready
<1>3. PICK rest \in Rests, height \in Int, saved \in BOOLEAN :
        /\ height = Len(stack) - Staying /\ saved = (oldTop[t] = Staying)
        /\ Moves(left[t], rest, height, saved)
  BY <1>1, Ready
<1>4. /\ stack \in Seq(Values) /\ globals \in [Names -> Values] /\ oldTop \in [ThreadNames -> Nat]
      /\ Len(stack) \in Nat /\ Staying \in Nat /\ unread \in Nat
  BY <1>2, Sizes DEF TypeOK
<1>5. left[t][1] = Op("setfield")
  BY <1>2, OpsBy
<1>6. height = 2 /\ NextIs(left[t], 1, rest, 1, saved)
  BY <1>3, <1>5 DEF Moves
<1>7. stack' = SubSeq(stack, 1, Len(stack) - 1) /\ UNCHANGED <<msghander, globals, oldTop, unread>>
  BY DEF SetField, Pop
<1>8. Len(stack) = Staying + 2
  BY <1>3, <1>4, <1>6
<1>9. /\ stack' \in Seq(Values) /\ Len(stack') = Staying + 1
      /\ \A i \in 1..Staying : stack'[i] = stack[i]
  <2>1. Len(stack) - 1 = Staying + 1 /\ Len(stack) - 1 \in Nat /\ Len(stack) - 1 <= Len(stack)
    BY <1>4, <1>8
  <2>2. /\ stack' \in Seq(Values) /\ Len(stack') = Len(stack) - 1
        /\ \A i \in 1..Len(stack) - 1 : stack'[i] = stack[i]
    BY <1>4, <1>7, <2>1, Cut
  <2> QED BY <1>4, <2>1, <2>2
<1>10. Staying' = Staying /\ Stays'
  BY <1>2, <1>4, <1>7, <1>9, StaysOn
<1>11. Len(stack') - Staying' = 1 /\ saved = (oldTop'[t] = Staying')
  BY <1>3, <1>4, <1>7, <1>9, <1>10
<1>12. globals' \in [Names -> Values]
  BY <1>4, <1>7
<1>13. CallDone(t, 1, rest, 1, saved)
  BY <1>2, <1>4, <1>6, <1>7, <1>9, <1>10, <1>11, <1>12 DEF CallDone
<1> QED BY <1>2, <1>13, AfterCall

LEMMA SetGlobalOpKeeps ==
  ASSUME HostInv, NEW t \in ThreadNames, SetGlobalOp(t)
  PROVE  HostInv'
<1> SUFFICES ASSUME ~raced', ~died' PROVE HostInv'
  BY DEF HostInv
<1>1. Does(t, "setglobal", 1)
  BY DEF SetGlobalOp
<1>2. /\ TypeOK /\ Stays /\ Alone(t) /\ left[t][1] \in Ops /\ left[t][1].op = "setglobal"
      /\ left' = [left EXCEPT ![t] = SubSeq(@, 1 + 1, Len(@))] /\ debugEnabled' = debugEnabled
  BY <1>1, Ready
<1>3. PICK rest \in Rests, height \in Int, saved \in BOOLEAN :
        /\ height = Len(stack) - Staying /\ saved = (oldTop[t] = Staying)
        /\ Moves(left[t], rest, height, saved)
  BY <1>1, Ready
<1>4. /\ stack \in Seq(Values) /\ globals \in [Names -> Values] /\ oldTop \in [ThreadNames -> Nat]
      /\ Len(stack) \in Nat /\ Staying \in Nat /\ unread \in Nat
  BY <1>2, Sizes DEF TypeOK
<1>5. left[t][1] = On("setglobal", left[t][1].arg) /\ left[t][1].arg \in Names
  BY <1>2, OpsBy
<1>6. height = 1 /\ NextIs(left[t], 1, rest, 0, saved)
  BY <1>3, <1>5 DEF Moves
<1>7. /\ stack' = SubSeq(stack, 1, Len(stack) - 1)
      /\ UNCHANGED <<msghander, oldTop, died, unread>>
      /\ globals' = [globals EXCEPT ![left[t][1].arg] = Top]
  BY DEF SetGlobalOp, Pop
<1>8. Len(stack) = Staying + 1
  BY <1>3, <1>4, <1>6
<1>9. /\ stack' \in Seq(Values) /\ Len(stack') = Staying + 0
      /\ \A i \in 1..Staying : stack'[i] = stack[i]
  <2>1. Len(stack) - 1 = Staying + 0 /\ Len(stack) - 1 \in Nat /\ Len(stack) - 1 <= Len(stack)
    BY <1>4, <1>8
  <2>2. /\ stack' \in Seq(Values) /\ Len(stack') = Len(stack) - 1
        /\ \A i \in 1..Len(stack) - 1 : stack'[i] = stack[i]
    BY <1>4, <1>7, <2>1, Cut
  <2> QED BY <1>4, <2>1, <2>2
<1>10. Staying' = Staying /\ Stays'
  BY <1>2, <1>4, <1>7, <1>9, StaysOn
<1>11. Len(stack') - Staying' = 0 /\ saved = (oldTop'[t] = Staying')
  BY <1>3, <1>4, <1>7, <1>9, <1>10
<1>12. globals' \in [Names -> Values]
  <2>1. Top \in Values
    BY <1>4, <1>8, ElementOfSeq DEF Top
  <2> QED BY <1>4, <1>7, <2>1
<1>13. CallDone(t, 1, rest, 0, saved)
  BY <1>2, <1>4, <1>6, <1>7, <1>9, <1>10, <1>11, <1>12 DEF CallDone
<1> QED BY <1>2, <1>13, AfterCall

\* A call that takes what is above the values that stay down to some height, and
\* puts at most values that nobody takes on top of them.
LEMMA Replaced ==
  ASSUME NEW q \in Seq(Values), NEW m \in Nat, m <= Len(q), NEW v \in Values,
         NEW r, r = Append(SubSeq(q, 1, m), v)
  PROVE  /\ r \in Seq(Values) /\ Len(r) = m + 1 /\ r[m + 1] = v
         /\ \A i \in 1..m : r[i] = q[i]
<1> DEFINE c == SubSeq(q, 1, m)
<1>1. c \in Seq(Values) /\ Len(c) = m /\ \A i \in 1..m : c[i] = q[i]
  BY Cut
<1> HIDE DEF c
<1>2. /\ r \in Seq(Values) /\ Len(r) = Len(c) + 1 /\ r[Len(r)] = v
      /\ \A i \in 1..Len(c) : r[i] = c[i]
  BY <1>1, Pushed DEF c
<1> QED BY <1>1, <1>2

LEMMA PushKeeps ==
  ASSUME HostInv, NEW t \in ThreadNames, Push(t)
  PROVE  HostInv'
<1> SUFFICES ASSUME ~raced', ~died' PROVE HostInv'
  BY DEF HostInv
<1>1. PICK op \in {"push", "getglobal"} :
        /\ Does(t, op, 1)
        /\ op = "push" => stack' = Append(stack, left[t][1].arg)
        /\ op = "getglobal" => stack' = Append(stack, globals[left[t][1].arg])
  BY DEF Push
<1>2. /\ TypeOK /\ Stays /\ Alone(t) /\ left[t][1] \in Ops /\ left[t][1].op = op
      /\ left' = [left EXCEPT ![t] = SubSeq(@, 1 + 1, Len(@))] /\ debugEnabled' = debugEnabled
  BY <1>1, Ready
<1>3. PICK rest \in Rests, height \in Int, saved \in BOOLEAN :
        /\ height = Len(stack) - Staying /\ saved = (oldTop[t] = Staying)
        /\ Moves(left[t], rest, height, saved)
  BY <1>1, Ready
<1>4. /\ stack \in Seq(Values) /\ globals \in [Names -> Values] /\ oldTop \in [ThreadNames -> Nat]
      /\ Len(stack) \in Nat /\ Staying \in Nat /\ unread \in Nat
  BY <1>2, Sizes DEF TypeOK
<1>5. \E what : left[t][1] = On("push", what) \/ left[t][1] = On("getglobal", what)
  BY <1>1, <1>2, OpsBy
<1>6. height \in {0, 1} /\ NextIs(left[t], 1, rest, height + 1, saved)
  BY <1>3, <1>5 DEF Moves
<1>7. UNCHANGED <<msghander, globals, oldTop, died, unread>>
  BY DEF Push
<1>8. \E v \in Values : stack' = Append(stack, v)
  <2>1. CASE op = "push"
    <3>1. left[t][1].arg \in Values
      BY <1>2, <2>1, OpsBy DEF Values
    <3> QED BY <1>1, <2>1, <3>1
  <2>2. CASE op = "getglobal"
    <3>1. left[t][1].arg \in Names
      BY <1>2, <2>2, OpsBy
    <3>2. globals[left[t][1].arg] \in Values
      BY <1>4, <3>1
    <3> QED BY <1>1, <2>2, <3>2
  <2> QED BY <1>1, <2>1, <2>2
<1>9. /\ stack' \in Seq(Values) /\ Len(stack') = Len(stack) + 1
      /\ \A i \in 1..Len(stack) : stack'[i] = stack[i]
  BY <1>4, <1>8, Pushed
<1>10. Staying <= Len(stack) /\ Staying <= Len(stack')
  BY <1>2, <1>4, <1>9 DEF Stays
<1>11. Staying' = Staying /\ Stays'
  <2>1. \A i \in 1..Staying : stack'[i] = stack[i]
    BY <1>4, <1>9, <1>10
  <2> QED BY <1>2, <1>4, <1>7, <1>9, <1>10, <2>1, StaysOn
<1>12. height + 1 = Len(stack') - Staying' /\ saved = (oldTop'[t] = Staying')
  BY <1>3, <1>4, <1>7, <1>9, <1>11
<1>13. CallDone(t, 1, rest, height + 1, saved)
  BY <1>2, <1>4, <1>6, <1>7, <1>9, <1>11, <1>12 DEF CallDone
<1> QED BY <1>2, <1>13, AfterCall

LEMMA PrintErrorKeeps ==
  ASSUME HostInv, NEW t \in ThreadNames, PrintError(t)
  PROVE  HostInv'
<1> SUFFICES ASSUME ~raced', ~died' PROVE HostInv'
  BY DEF HostInv
<1>1. Does(t, "PrintError", 1)
  BY DEF PrintError
<1>2. /\ TypeOK /\ Stays /\ Alone(t) /\ left[t][1] \in Ops /\ left[t][1].op = "PrintError"
      /\ left' = [left EXCEPT ![t] = SubSeq(@, 1 + 1, Len(@))] /\ debugEnabled' = debugEnabled
  BY <1>1, Ready
<1>3. PICK rest \in Rests, height \in Int, saved \in BOOLEAN :
        /\ height = Len(stack) - Staying /\ saved = (oldTop[t] = Staying)
        /\ Moves(left[t], rest, height, saved)
  BY <1>1, Ready
<1>4. /\ stack \in Seq(Values) /\ globals \in [Names -> Values] /\ oldTop \in [ThreadNames -> Nat]
      /\ Len(stack) \in Nat /\ Staying \in Nat /\ unread \in Nat
  BY <1>2, Sizes DEF TypeOK
<1>5. left[t][1] = Op("PrintError")
  BY <1>2, OpsBy
<1>6. NextIs(left[t], 1, rest, height, saved)
  BY <1>3, <1>5 DEF Moves
<1>7. UNCHANGED <<stack, msghander, globals, oldTop, unread>>
  BY DEF PrintError
<1>8. Staying' = Staying /\ Stays'
  BY <1>2, <1>7 DEF Stays, Staying, Opened
<1>9. height = Len(stack') - Staying' /\ saved = (oldTop'[t] = Staying')
  BY <1>3, <1>7, <1>8
<1>10. CallDone(t, 1, rest, height, saved)
  BY <1>2, <1>4, <1>6, <1>7, <1>8, <1>9 DEF CallDone
<1> QED BY <1>2, <1>10, AfterCall

LEMMA IsFunctionKeeps ==
  ASSUME HostInv, NEW t \in ThreadNames, IsFunction(t)
  PROVE  HostInv'
<1> SUFFICES ASSUME ~raced', ~died' PROVE HostInv'
  BY DEF HostInv
<1>1. PICK n \in {1, 2} : Does(t, "isfunction", n)
  BY DEF IsFunction
<1>2. /\ TypeOK /\ Stays /\ Alone(t) /\ left[t][1] \in Ops /\ left[t][1].op = "isfunction"
      /\ left' = [left EXCEPT ![t] = SubSeq(@, n + 1, Len(@))] /\ debugEnabled' = debugEnabled
  BY <1>1, Ready
<1>3. PICK rest \in Rests, height \in Int, saved \in BOOLEAN :
        /\ height = Len(stack) - Staying /\ saved = (oldTop[t] = Staying)
        /\ Moves(left[t], rest, height, saved)
  BY <1>1, Ready
<1>4. /\ stack \in Seq(Values) /\ globals \in [Names -> Values] /\ oldTop \in [ThreadNames -> Nat]
      /\ Len(stack) \in Nat /\ Staying \in Nat /\ unread \in Nat
  BY <1>2, Sizes DEF TypeOK
<1>5. left[t][1] = Op("isfunction")
  BY <1>2, OpsBy
<1>6. height = 1 /\ NextIs(left[t], n, rest, 1, saved)
  BY <1>1, <1>3, <1>5 DEF Moves
<1>7. UNCHANGED <<stack, msghander, globals, oldTop, died, unread>>
  BY DEF IsFunction
<1>8. Staying' = Staying /\ Stays'
  BY <1>2, <1>7 DEF Stays, Staying, Opened
<1>9. 1 = Len(stack') - Staying' /\ saved = (oldTop'[t] = Staying')
  BY <1>3, <1>6, <1>7, <1>8
<1>10. CallDone(t, n, rest, 1, saved)
  BY <1>2, <1>4, <1>6, <1>7, <1>8, <1>9 DEF CallDone
<1>11. TypeOK /\ Alone(t) /\ 1 \in Int
  BY <1>2
<1> QED BY <1>10, <1>11, AfterCall

\* Lua's results on top of what was there.
LEMMA Joined ==
  ASSUME NEW c \in Seq(Values), NEW d \in Seq(Values), NEW r, r = c \o d
  PROVE  /\ r \in Seq(Values) /\ Len(r) = Len(c) + Len(d)
         /\ \A i \in 1..(Len(c) + Len(d)) : r[i] = IF i <= Len(c) THEN c[i] ELSE d[i - Len(c)]
  BY ConcatProperties

LEMMA WithResults ==
  ASSUME NEW q \in Seq(Values), NEW m \in Nat, m <= Len(q), NEW n \in Nat
  PROVE  \A r : r = SubSeq(q, 1, m) \o [i \in 1..n |-> "result"] =>
           /\ r \in Seq(Values) /\ Len(r) = m + n
           /\ \A i \in 1..m : r[i] = q[i]
           /\ \A i \in m + 1 .. m + n : r[i] = "result"
<1> DEFINE c == SubSeq(q, 1, m)
           d == [i \in 1..n |-> "result"]
<1>1. c \in Seq(Values) /\ Len(c) = m /\ \A i \in 1..m : c[i] = q[i]
  BY Cut
<1>2. d \in Seq(Values) /\ Len(d) = n /\ \A i \in 1..n : d[i] = "result"
  BY DEF Values, Kept
<1> HIDE DEF c, d
<1>3. ASSUME NEW r, r = c \o d
      PROVE  /\ r \in Seq(Values) /\ Len(r) = m + n
             /\ \A i \in 1..m : r[i] = q[i]
             /\ \A i \in m + 1 .. m + n : r[i] = "result"
  <2>1. /\ r \in Seq(Values) /\ Len(r) = Len(c) + Len(d)
        /\ \A i \in 1..(Len(c) + Len(d)) : r[i] = IF i <= Len(c) THEN c[i] ELSE d[i - Len(c)]
    <3>1. c \in Seq(Values) /\ d \in Seq(Values)
      BY <1>1, <1>2
    <3> QED BY <1>3, <3>1, Joined
  <2>2. \A i \in 1..m : r[i] = q[i]
    BY <1>1, <1>2, <2>1
  <2>3. ASSUME NEW i \in m + 1 .. m + n PROVE r[i] = "result"
    <3>1. i - m \in 1..n /\ ~(i <= m) /\ i \in 1..(m + n)
      OBVIOUS
    <3> QED BY <1>1, <1>2, <2>1, <3>1
  <2> QED BY <1>1, <1>2, <2>1, <2>2, <2>3
<1> QED BY <1>3, Zenon DEF c, d

\* A call that leaves k values for good, and j above them that are still needed.
LEMMA Leaves ==
  ASSUME TypeOK, Stays, NEW t \in ThreadNames, Alone(t), NEW n \in {1, 2}, NEW rest \in Rests,
         left' = [left EXCEPT ![t] = SubSeq(@, n + 1, Len(@))],
         debugEnabled' = debugEnabled, msghander' = msghander,
         globals' \in [Names -> Values], oldTop' = oldTop,
         NEW k \in Nat, NEW j \in Nat, unread' = unread + k,
         stack' \in Seq(Values), Len(stack') = Staying + k + j,
         \A i \in 1..Staying : stack'[i] = stack[i],
         \A i \in Staying + 1 .. Staying + k : stack'[i] \in Kept,
         NEW saved \in BOOLEAN, saved = (oldTop[t] = Staying),
         \/ k = 0 /\ NextIs(left[t], n, rest, j, saved)
         \/ \A s : NextIs(left[t], n, rest, j, s)
  PROVE  HostInv'
<1>1. Staying \in Nat /\ unread \in Nat /\ oldTop \in [ThreadNames -> Nat]
  BY Sizes DEF TypeOK
<1>2. Staying' = Staying + k /\ Stays'
  <2>1. Staying + k <= Len(stack')
    BY <1>1
  <2> QED BY <2>1, StaysOn
<1>3. Len(stack') - Staying' = j /\ unread' \in Nat
  BY <1>1, <1>2
<1>4. PICK now \in BOOLEAN : now = (oldTop'[t] = Staying')
  OBVIOUS
<1>5. NextIs(left[t], n, rest, j, now)
  <2>1. CASE k = 0 /\ NextIs(left[t], n, rest, j, saved)
    <3>1. Staying' = Staying
      BY <1>1, <1>2, <2>1
    <3>2. now = saved
      BY <1>4, <3>1
    <3> QED BY <2>1, <3>2
  <2>2. CASE \A s : NextIs(left[t], n, rest, j, s)
    BY <2>2
  <2> QED BY <2>1, <2>2
<1>6. CallDone(t, n, rest, j, now)
  BY <1>1, <1>2, <1>3, <1>4, <1>5 DEF CallDone
<1> QED BY <1>6, AfterCall

LEMMA LoadKeeps ==
  ASSUME HostInv, NEW t \in ThreadNames, Load(t)
  PROVE  HostInv'
<1> SUFFICES ASSUME ~raced', ~died' PROVE HostInv'
  BY DEF HostInv
<1>1. PICK n \in {1, 2} :
        /\ Does(t, "load", n)
        /\ n = 1 => stack' = Append(stack, "function") /\ unread' = unread
        /\ n = 2 => stack' = Append(stack, "string") /\ Unread(left[t][1].arg, 1)
  BY DEF Load
<1>2. /\ TypeOK /\ Stays /\ Alone(t) /\ left[t][1] \in Ops /\ left[t][1].op = "load"
      /\ left' = [left EXCEPT ![t] = SubSeq(@, n + 1, Len(@))] /\ debugEnabled' = debugEnabled
  BY <1>1, Ready
<1>3. PICK rest \in Rests, height \in Int, saved \in BOOLEAN :
        /\ height = Len(stack) - Staying /\ saved = (oldTop[t] = Staying)
        /\ Moves(left[t], rest, height, saved)
  BY <1>1, Ready
<1>4. /\ stack \in Seq(Values) /\ globals \in [Names -> Values] /\ oldTop \in [ThreadNames -> Nat]
      /\ Len(stack) \in Nat /\ Staying \in Nat /\ unread \in Nat
  BY <1>2, Sizes DEF TypeOK
<1>5. left[t][1].arg \in BOOLEAN /\ left[t][1] = On("load", left[t][1].arg)
  BY <1>2, OpsBy
<1>6. \/ left[t][1].arg /\ left[t][1] = On("load", TRUE)
      \/ ~left[t][1].arg /\ left[t][1] = On("load", FALSE)
  BY <1>5
<1>7. globals' = globals /\ oldTop' = oldTop /\ msghander' = msghander
  BY DEF Load
<1>8. height = 0 /\ Len(stack) = Staying
  <2>1. height = 0
    BY <1>3, <1>6 DEF Moves
  <2> QED BY <1>3, <1>4, <2>1
<1>9. PICK v \in {"function", "string"} :
        stack' = Append(stack, v) /\ (n = 2 => v = "string")
  BY <1>1
<1>10. v \in Values /\ (n = 2 => v \in Kept)
  BY <1>9 DEF Values, Kept
<1>11. /\ stack' \in Seq(Values) /\ Len(stack') = Staying + 1
       /\ \A i \in 1..Staying : stack'[i] = stack[i]
       /\ stack'[Staying + 1] = v
  BY <1>4, <1>8, <1>9, <1>10, Pushed
<1>12. CASE n = 1 \/ ~left[t][1].arg
  <2>1. unread' = unread + 0
    <3>1. unread' = unread
      BY <1>1, <1>12 DEF Unread
    <3> QED BY <1>4, <3>1
  <2>2. NextIs(left[t], n, rest, 1, saved)
    BY <1>1, <1>3, <1>6, <1>12 DEF Moves
  <2>3. /\ Len(stack') = Staying + 0 + 1
        /\ \A i \in Staying + 1 .. Staying + 0 : stack'[i] \in Kept
    BY <1>4, <1>11
  <2> QED BY <1>2, <1>3, <1>4, <1>7, <1>11, <2>1, <2>2, <2>3, Leaves
<1>13. CASE n = 2 /\ left[t][1].arg
  <2>1. unread' = unread + 1
    BY <1>1, <1>13 DEF Unread
  <2>2. \A s : NextIs(left[t], n, rest, 0, s)
    BY <1>3, <1>6, <1>13 DEF Moves
  <2>3. /\ Len(stack') = Staying + 1 + 0
        /\ \A i \in Staying + 1 .. Staying + 1 : stack'[i] \in Kept
    BY <1>4, <1>10, <1>11, <1>13
  <2> QED BY <1>2, <1>3, <1>4, <1>7, <1>11, <2>1, <2>2, <2>3, Leaves
<1> QED BY <1>12, <1>13

\* What an error leaves.
LEMMA FailedLeaves ==
  ASSUME TypeOK, NEW kept \in BOOLEAN, Failed(kept), Len(stack) = Staying + 1
  PROVE  /\ stack' \in Seq(Values) /\ Len(stack') = Staying + 1
         /\ \A i \in 1..Staying : stack'[i] = stack[i]
         /\ stack'[Staying + 1] \in Kept
         /\ unread' = IF kept THEN unread + 1 ELSE unread
<1>1. stack \in Seq(Values) /\ Staying \in Nat /\ Staying <= Len(stack) /\ Len(stack) - 1 = Staying
  BY Sizes DEF TypeOK
<1>2. PICK v \in {"string", "object"} : stack' = Append(SubSeq(stack, 1, Len(stack) - 1), v)
  BY DEF Failed, Pop
<1>3. v \in Values /\ v \in Kept
  BY DEF Values, Kept
<1>4. stack' = Append(SubSeq(stack, 1, Staying), v)
  BY <1>1, <1>2
<1>5. /\ stack' \in Seq(Values) /\ Len(stack') = Staying + 1 /\ stack'[Staying + 1] = v
      /\ \A i \in 1..Staying : stack'[i] = stack[i]
  BY <1>1, <1>3, <1>4, Replaced
<1> QED BY <1>3, <1>5 DEF Failed, Unread

\* Lua code leaves the globals in their types.
LEMMA CodeKeepsTypes ==
  ASSUME TypeOK, RunsCode
  PROVE  globals' \in [Names -> Values]
  BY DEF TypeOK, RunsCode, Names, Values

LEMMA CallUpdateKeeps ==
  ASSUME HostInv, NEW t \in ThreadNames, CallUpdate(t)
  PROVE  HostInv'
<1> SUFFICES ASSUME ~raced', ~died' PROVE HostInv'
  BY DEF HostInv
<1>1. Does(t, "pcall0", 2)
  BY DEF CallUpdate
<1>2. /\ TypeOK /\ Stays /\ Alone(t) /\ left[t][1] \in Ops /\ left[t][1].op = "pcall0"
      /\ left' = [left EXCEPT ![t] = SubSeq(@, 2 + 1, Len(@))] /\ debugEnabled' = debugEnabled
  BY <1>1, Ready
<1>3. PICK rest \in Rests, height \in Int, saved \in BOOLEAN :
        /\ height = Len(stack) - Staying /\ saved = (oldTop[t] = Staying)
        /\ Moves(left[t], rest, height, saved)
  BY <1>1, Ready
<1>4. /\ stack \in Seq(Values) /\ globals \in [Names -> Values] /\ oldTop \in [ThreadNames -> Nat]
      /\ Len(stack) \in Nat /\ Staying \in Nat /\ unread \in Nat
  BY <1>2, Sizes DEF TypeOK
<1>5. left[t][1] = Op("pcall0")
  BY <1>2, OpsBy
<1>6. height = 1 /\ \A s : NextIs(left[t], 2, rest, 0, s)
  BY <1>3, <1>5 DEF Moves
<1>7. globals' \in [Names -> Values] /\ oldTop' = oldTop /\ msghander' = msghander
  BY <1>2, CodeKeepsTypes DEF CallUpdate
<1>8. Len(stack) = Staying + 1
  BY <1>3, <1>4, <1>6
<1>9. CASE stack' = Pop(1) /\ unread' = unread
  <2>1. stack' = SubSeq(stack, 1, Staying) /\ Staying <= Len(stack)
    BY <1>4, <1>8, <1>9 DEF Pop
  <2>2. /\ stack' \in Seq(Values) /\ Len(stack') = Staying
        /\ \A i \in 1..Staying : stack'[i] = stack[i]
    BY <1>4, <2>1, Cut
  <2>3. /\ unread' = unread + 0 /\ Len(stack') = Staying + 0 + 0
        /\ \A i \in Staying + 1 .. Staying + 0 : stack'[i] \in Kept
    BY <1>4, <1>9, <2>2
  <2> QED BY <1>2, <1>3, <1>4, <1>6, <1>7, <2>2, <2>3, Leaves
<1>10. CASE Failed(TRUE)
  <2>1. PICK kept \in BOOLEAN : kept /\ Failed(kept)
    BY <1>10, Zenon
  <2>2. /\ stack' \in Seq(Values) /\ Len(stack') = Staying + 1
        /\ \A i \in 1..Staying : stack'[i] = stack[i]
        /\ stack'[Staying + 1] \in Kept /\ unread' = unread + 1
    BY <1>2, <1>8, <2>1, FailedLeaves
  <2>3. /\ Len(stack') = Staying + 1 + 0
        /\ \A i \in Staying + 1 .. Staying + 1 : stack'[i] \in Kept
    BY <1>4, <2>2
  <2> QED BY <1>2, <1>3, <1>4, <1>6, <1>7, <2>2, <2>3, Leaves
<1> QED BY <1>9, <1>10 DEF CallUpdate

LEMMA PcallKeeps ==
  ASSUME HostInv, NEW t \in ThreadNames, Pcall(t)
  PROVE  HostInv'
<1> SUFFICES ASSUME ~raced', ~died' PROVE HostInv'
  BY DEF HostInv
<1>1. PICK n \in {1, 2} :
        /\ Does(t, "pcall", n)
        /\ n = 2 => \E m \in 0..2 :
             /\ stack' = Pop(1) \o [i \in 1..m |-> "result"]
             /\ Unread(left[t][1].arg, m)
        /\ n = 1 => Failed(left[t][1].arg)
  BY DEF Pcall
<1>2. /\ TypeOK /\ Stays /\ Alone(t) /\ left[t][1] \in Ops /\ left[t][1].op = "pcall"
      /\ left' = [left EXCEPT ![t] = SubSeq(@, n + 1, Len(@))] /\ debugEnabled' = debugEnabled
  BY <1>1, Ready
<1>3. PICK rest \in Rests, height \in Int, saved \in BOOLEAN :
        /\ height = Len(stack) - Staying /\ saved = (oldTop[t] = Staying)
        /\ Moves(left[t], rest, height, saved)
  BY <1>1, Ready
<1>4. /\ stack \in Seq(Values) /\ globals \in [Names -> Values] /\ oldTop \in [ThreadNames -> Nat]
      /\ Len(stack) \in Nat /\ Staying \in Nat /\ unread \in Nat
  BY <1>2, Sizes DEF TypeOK
<1>5. left[t][1].arg \in BOOLEAN /\ left[t][1] = On("pcall", left[t][1].arg)
  BY <1>2, OpsBy
<1>6. PICK kept \in BOOLEAN : kept = left[t][1].arg
  BY <1>5
<1>7. \/ kept /\ left[t][1] = On("pcall", TRUE)
      \/ ~kept /\ left[t][1] = On("pcall", FALSE)
  BY <1>5, <1>6
<1>8. globals' \in [Names -> Values] /\ oldTop' = oldTop /\ msghander' = msghander
  BY <1>2, CodeKeepsTypes DEF Pcall
<1>9. height = 1 /\ Len(stack) = Staying + 1
  <2>1. height = 1
    BY <1>3, <1>7 DEF Moves
  <2> QED BY <1>3, <1>4, <2>1
<1>10. CASE n = 1
  <2>1. Failed(kept)
    BY <1>1, <1>6, <1>10
  <2>2. /\ stack' \in Seq(Values) /\ Len(stack') = Staying + 1
        /\ \A i \in 1..Staying : stack'[i] = stack[i]
        /\ stack'[Staying + 1] \in Kept
        /\ unread' = IF kept THEN unread + 1 ELSE unread
    BY <1>2, <1>9, <2>1, FailedLeaves
  <2>3. CASE kept
    <3>1. \A s : NextIs(left[t], n, rest, 0, s)
      BY <1>3, <1>7, <1>10, <2>3 DEF Moves
    <3>2. /\ unread' = unread + 1 /\ Len(stack') = Staying + 1 + 0
          /\ \A i \in Staying + 1 .. Staying + 1 : stack'[i] \in Kept
      BY <1>4, <2>2, <2>3
    <3>3. stack' \in Seq(Values) /\ \A i \in 1..Staying : stack'[i] = stack[i]
      BY <2>2
    <3>4. /\ TypeOK /\ Stays /\ Alone(t)
          /\ left' = [left EXCEPT ![t] = SubSeq(@, n + 1, Len(@))] /\ debugEnabled' = debugEnabled
          /\ saved = (oldTop[t] = Staying)
      BY <1>2, <1>3
    <3> QED BY <1>8, <3>1, <3>2, <3>3, <3>4, Leaves
  <2>4. CASE ~kept
    <3>1. NextIs(left[t], n, rest, 1, saved)
      BY <1>3, <1>7, <1>10, <2>4 DEF Moves
    <3>2. /\ unread' = unread + 0 /\ Len(stack') = Staying + 0 + 1
          /\ \A i \in Staying + 1 .. Staying + 0 : stack'[i] \in Kept
      BY <1>4, <2>2, <2>4
    <3>3. stack' \in Seq(Values) /\ \A i \in 1..Staying : stack'[i] = stack[i]
      BY <2>2
    <3>4. /\ TypeOK /\ Stays /\ Alone(t)
          /\ left' = [left EXCEPT ![t] = SubSeq(@, n + 1, Len(@))] /\ debugEnabled' = debugEnabled
          /\ saved = (oldTop[t] = Staying)
      BY <1>2, <1>3
    <3> QED BY <1>8, <3>1, <3>2, <3>3, <3>4, Leaves
  <2> QED BY <2>3, <2>4
<1>11. CASE n = 2
  <2>1. PICK m \in 0..2 :
          /\ stack' = Pop(1) \o [i \in 1..m |-> "result"]
          /\ unread' = IF kept THEN unread + m ELSE unread
    BY <1>1, <1>6, <1>11 DEF Unread
  <2>2. m \in Nat /\ stack' = SubSeq(stack, 1, Staying) \o [i \in 1..m |-> "result"]
    <3>1. Len(stack) - 1 = Staying
      BY <1>4, <1>9
    <3>2. Pop(1) = SubSeq(stack, 1, Staying)
      BY <3>1 DEF Pop
    <3>3. m \in Nat
      OBVIOUS
    <3> QED BY <2>1, <3>2, <3>3, Zenon
  <2>3. Staying <= Len(stack)
    BY <1>4, <1>9
  <2>4. /\ stack' \in Seq(Values) /\ Len(stack') = Staying + m
        /\ \A i \in 1..Staying : stack'[i] = stack[i]
        /\ \A i \in Staying + 1 .. Staying + m : stack'[i] = "result"
    <3>1. stack \in Seq(Values) /\ Staying \in Nat /\ m \in Nat /\ Staying <= Len(stack)
      BY <1>4, <2>2, <2>3
    <3>2. \A r : r = SubSeq(stack, 1, Staying) \o [i \in 1..m |-> "result"] =>
            /\ r \in Seq(Values) /\ Len(r) = Staying + m
            /\ \A i \in 1..Staying : r[i] = stack[i]
            /\ \A i \in Staying + 1 .. Staying + m : r[i] = "result"
      BY <3>1, WithResults
    <3> QED BY <2>2, <3>2, Zenon
  <2>5. CASE kept
    <3>1. \A s : NextIs(left[t], n, rest, 0, s)
      BY <1>3, <1>7, <1>11, <2>5 DEF Moves
    <3>2. /\ unread' = unread + m /\ Len(stack') = Staying + m + 0
          /\ \A i \in Staying + 1 .. Staying + m : stack'[i] \in Kept
      BY <1>4, <2>1, <2>2, <2>4, <2>5 DEF Kept
    <3> QED BY <1>2, <1>3, <1>4, <1>8, <2>2, <2>4, <3>1, <3>2, Leaves
  <2>6. CASE ~kept
    <3>1. NextIs(left[t], n, rest, m, saved)
      BY <1>3, <1>7, <1>11, <2>2, <2>6 DEF Moves
    <3>2. /\ unread' = unread + 0 /\ Len(stack') = Staying + 0 + m
          /\ \A i \in Staying + 1 .. Staying + 0 : stack'[i] \in Kept
      BY <1>4, <2>1, <2>2, <2>4, <2>6
    <3> QED BY <1>2, <1>3, <1>4, <1>8, <2>2, <2>4, <3>1, <3>2, Leaves
  <2> QED BY <2>5, <2>6
<1> QED BY <1>10, <1>11

-----------------------------------------------------------------------------
(* Every step, and what follows.                                            *)

\* OpenLua leaves what the invariant says.
LEMMA InitEstablishes == Init => HostInv
<1> SUFFICES ASSUME Init PROVE HostInv
  OBVIOUS
<1>1. TypeOK
  <2>1. OpenedStack(TRUE) \in Seq(Values) /\ OpenedStack(FALSE) \in Seq(Values)
    BY DEF OpenedStack, Values
  <2>2. stack \in Seq(Values) /\ msghander \in {0, 1}
    BY <2>1 DEF Init
  <2>3. globals \in [Names -> Values]
    BY DEF Init, Names, Values
  <2>4. left \in [ThreadNames -> Seq(Ops)]
    BY CatIs DEF Init
  <2> QED BY <2>2, <2>3, <2>4 DEF Init, TypeOK
<1>2. unread = 0 /\ stack = Opened /\ \A t \in ThreadNames : left[t] = <<>>
  BY DEF Init, Opened
<1>3. Staying = Len(stack) /\ Staying = Len(Opened) /\ Staying \in Nat
  BY <1>1, <1>2, Sizes
<1>4. Stays
  BY <1>2, <1>3 DEF Stays
<1> QED BY <1>1, <1>2, <1>3, <1>4 DEF HostInv

\* The hooks of InitLua and Update, and a line of the console.
LEMMA HookKeeps ==
  ASSUME HostInv, InitLua \/ ScriptManagerUpdate \/ ReadLine
  PROVE  HostInv'
<1>1. CASE InitLua
  <2>1. ~raced /\ ~died
    BY <1>1 DEF InitLua, Begin
  <2>2. debugEnabled \in BOOLEAN
    BY <2>1 DEF HostInv, TypeOK
  <2>3. PICK rest \in Rests : ManagerInit = Cat(RegisterFunction("TestLog"), rest)
    BY <2>2, InitCalls
  <2>4. Begin("game", Cat(RegisterFunction("TestLog"), rest))
    BY <1>1, <2>3 DEF InitLua
  <2>5. "game" \in ThreadNames /\ RegisterFunction("TestLog") \in Blocks
    BY DEF ThreadNames, Blocks
  <2> QED BY <2>4, <2>5, BeginKeeps
<1>2. ASSUME NEW t \in ThreadNames, NEW b \in Blocks, Begin(t, b)
      PROVE  HostInv'
  <2>1. <<>> \in Rests /\ <<>> \in Seq(Ops)
    BY CatIs DEF Rests
  <2>2. b \in Seq(Ops)
    BY <2>1, BlockBegins
  <2>3. b = Cat(b, <<>>)
    BY <2>2, CatIs
  <2>4. Begin(t, Cat(b, <<>>))
    BY <1>2, <2>3
  <2> QED BY <2>1, <2>4, BeginKeeps
<1>3. CASE ScriptManagerUpdate
  <2>1. ManagerUpdate # <<>>
    BY <1>3 DEF ScriptManagerUpdate, Begin
  <2>2. ManagerUpdate = Update
    BY <2>1 DEF ManagerUpdate, Update
  <2>3. Begin("game", Update)
    BY <1>3, <2>2 DEF ScriptManagerUpdate
  <2>4. "game" \in ThreadNames /\ Update \in Blocks
    BY DEF ThreadNames, Blocks
  <2> QED BY <1>2, <2>3, <2>4
<1>4. CASE ReadLine
  <2>1. Begin("console", Eval)
    BY <1>4 DEF ReadLine
  <2>2. "console" \in ThreadNames /\ Eval \in Blocks
    BY DEF ThreadNames, Blocks
  <2> QED BY <1>2, <2>1, <2>2
<1> QED BY <1>1, <1>3, <1>4

LEMMA NextKeeps == HostInv /\ [Next]_vars => HostInv'
<1> SUFFICES ASSUME HostInv, [Next]_vars PROVE HostInv'
  OBVIOUS
<1>1. CASE UNCHANGED vars
  BY <1>1 DEF vars, HostInv, TypeOK, Alone, Stays, Staying, Opened, Doing
<1>2. CASE InitLua \/ ScriptManagerUpdate \/ ReadLine
  BY <1>2, HookKeeps
<1>3. ASSUME NEW t \in ThreadNames,
             \/ GetTop(t) \/ SetTop(t) \/ Push(t) \/ Discard(t) \/ SetGlobalOp(t) \/ SetField(t)
             \/ Load(t) \/ Pcall(t) \/ PrintError(t) \/ IsFunction(t) \/ CallUpdate(t)
      PROVE  HostInv'
  BY <1>3, GetTopKeeps, SetTopKeeps, PushKeeps, DiscardKeeps, SetGlobalOpKeeps, SetFieldKeeps,
     LoadKeeps, PcallKeeps, PrintErrorKeeps, IsFunctionKeeps, CallUpdateKeeps
<1> QED BY <1>1, <1>2, <1>3 DEF Next

\* The place of a thread in its list of calls tells how many values it has above those
\* that stay, whatever failed on the way, as long as the threads have not met.
THEOREM HostInvariant == Spec => []HostInv
<1>1. Init => HostInv
  BY InitEstablishes
<1>2. HostInv /\ [Next]_vars => HostInv'
  BY NextKeeps
<1> QED BY <1>1, <1>2, PTL DEF Spec

\* While the two threads do not meet, the stack between the hooks is what OpenLua has
\* left, results of evaluated lines and errors: for any number of hooks and lines, any
\* results and errors of them, and any size of the stack.
THEOREM StackBetweenHooks == Spec => []OnlyResultsAndErrorsStay
<1>1. HostInv => OnlyResultsAndErrorsStay
  <2> SUFFICES ASSUME HostInv, \A t \in ThreadNames : left[t] = <<>>, ~raced, ~died
               PROVE  /\ Len(stack) = Len(Opened) + unread
                      /\ SubSeq(stack, 1, Len(Opened)) = Opened
                      /\ \A i \in Len(Opened) + 1 .. Len(stack) : stack[i] \in Kept
    BY DEF OnlyResultsAndErrorsStay, Opened, Kept
  <2>1. TypeOK /\ Stays /\ Len(stack) = Staying
    <3>1. \A t \in ThreadNames : Alone(t)
      BY DEF Alone
    <3>2. \E t \in ThreadNames : Alone(t)
      BY <3>1 DEF ThreadNames
    <3> QED BY <3>2 DEF HostInv
  <2>2. /\ Len(stack) \in Nat /\ Len(Opened) \in Nat /\ Staying = Len(Opened) + unread
        /\ unread \in Nat
    BY <2>1, Sizes
  <2>3. /\ \A i \in 1..Len(Opened) : stack[i] = Opened[i]
        /\ \A i \in Len(Opened) + 1 .. Staying : stack[i] \in Kept
    BY <2>1 DEF Stays
  <2>4. SubSeq(stack, 1, Len(Opened)) = Opened
    <3> DEFINE n == Len(Opened)
               o == Opened
               c == SubSeq(stack, 1, n)
    <3>1. o \in Seq(Values)
      <4>1. Opened \in {<<"handler", "table">>, <<>>}
        BY DEF Opened, OpenedStack
      <4>2. <<"handler", "table">> \in Seq(Values) /\ <<>> \in Seq(Values)
        BY DEF Values
      <4> QED BY <4>1, <4>2
    <3>2. n = Len(o) /\ n \in Nat /\ n <= Len(stack) /\ \A i \in 1..n : stack[i] = o[i]
      BY <2>1, <2>2, <2>3
    <3>3. stack \in Seq(Values)
      BY <2>1 DEF TypeOK
    <3>4. c = SubSeq(stack, 1, n)
      OBVIOUS
    <3> HIDE DEF n, o, c
    <3>5. c \in Seq(Values) /\ Len(c) = n /\ \A i \in 1..n : c[i] = stack[i]
      BY <3>2, <3>3, <3>4, Cut
    <3>6. c = o
      BY <3>1, <3>2, <3>5, SeqEqual
    <3> QED BY <3>6 DEF c, n, o
  <2> QED BY <2>1, <2>2, <2>3, <2>4
<1> QED BY <1>1, HostInvariant, PTL
=============================================================================
