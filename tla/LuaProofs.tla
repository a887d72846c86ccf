------------------------------ MODULE LuaProofs ------------------------------
(***************************************************************************)
(* The Lua runtime.  Calls implements Coroutines: proved for any threads,  *)
(* any depth and any limit of C calls that an unsigned short can count.    *)
(* Table implements Map: for any keys and hashes, and vectors of any size. *)
(***************************************************************************)
EXTENDS Calls, Table, SequenceTheorems, FiniteSetTheorems, WellFoundedInduction, TLAPS

-----------------------------------------------------------------------------
(* Types.                                                                   *)

Ushort == {n \in Nat : n < 65536}
Limit == MaxCCalls + MaxCCalls \div 8
FrameSet == [what : CFunctions \cup {"lua", "host"}, reentry : BOOLEAN, called : BOOLEAN,
             ypcall : BOOLEAN]
EntrySet == [op : {"execute", "body", "unroll"}] \cup [op : {"call"}, noyield : BOOLEAN]
              \cup [op : {"pcall"}, frames : Nat, nny : Ushort, nCcalls : Ushort]
              \cup [op : {"resume"}, nCcalls : Ushort]

TypeOK ==
  /\ ci \in [Threads -> Seq(FrameSet)]
  /\ status \in [Threads -> {"ok", "yield", "error"}]
  /\ pending \in [Threads -> BOOLEAN]
  /\ nny \in [Threads -> Ushort] /\ nCcalls \in [Threads -> Ushort]
  /\ chain \in Seq(Threads) /\ Len(chain) > 0
  /\ cstack \in [Threads -> Seq(EntrySet)]
  /\ confused \in BOOLEAN

-----------------------------------------------------------------------------
(* The frames of a thread.                                                  *)

\* What can be finished after a yield: a Lua function, or pcall with its continuation.
Unrollable(f) == f.what = "lua" \/ f.ypcall

FrameOK(t, F, k) ==
  /\ F[k].reentry => k > 1 /\ F[k].what = "lua" /\ F[k - 1].what = "lua"
  /\ F[k].what \in {"yield", "resume"} => k = Len(F)
  /\ F[k].what = "host" <=> t = Main /\ k = 1
  /\ F[k].ypcall => F[k].what = "pcall" /\ F[k].called /\ \A l \in 1..k-1 : Unrollable(F[l])
  /\ t # Main /\ k = 1 => F[k].what = "lua"
FramesOK(t, F) == \A k \in 1..Len(F) : FrameOK(t, F, k)

-----------------------------------------------------------------------------
(* A thread's part of the C stack.  When the entry at p is the innermost    *)
(* one, the thread has h[p] frames, and nny and nCcalls are y[p] and c[p].  *)

FromExecute(a) == a.op \in {"resume", "call", "unroll"}

IsExecute(a, b, F, i, j) ==
  /\ b.op = "execute" /\ FromExecute(a) /\ i < j /\ j <= Len(F)
  /\ F[i + 1].what = "lua" /\ ~F[i + 1].reentry /\ \A k \in i + 2 .. j : F[k].reentry
IsBody(a, b, F, i, j) ==
  /\ b.op = "body" /\ a.op \in {"execute", "call", "unroll"} /\ j = i + 1 /\ j <= Len(F)
  /\ F[j].what \in CFunctions
IsCall(a, b, F, i, j) ==
  /\ b.op = "call" /\ a.op \in {"body", "pcall"} /\ i = j /\ 1 <= j /\ j <= Len(F)
  /\ IF b.noyield THEN a.op = "body" => F[j].what = "each"
                  ELSE a.op = "body" /\ F[j].what = "pcall"
IsPcall(a, b, F, i, j, n, m) ==
  /\ b.op = "pcall" /\ a.op = "body" /\ i = j /\ b.frames = j /\ 1 <= j /\ j <= Len(F)
  /\ F[j].what \in {"pcall", "host"} /\ ~F[j].ypcall
  /\ b.nny = n /\ b.nCcalls = m

Link(a, b, F, i, j, n, m, yj, cj) ==
  \/ IsExecute(a, b, F, i, j) /\ yj = n /\ cj = m
  \/ IsBody(a, b, F, i, j) /\ yj = n /\ cj = m
  \/ IsCall(a, b, F, i, j) /\ yj = (IF b.noyield THEN n + 1 ELSE n) /\ cj = Short(m + 1) /\ cj < Limit
  \/ IsPcall(a, b, F, i, j, n, m) /\ yj = n /\ cj = m
  \/ b.op = "unroll" /\ a.op = "resume" /\ yj = n

Base(t) == IF t = Main THEN 1 ELSE 0

Bottom(t, S, F, h, y) ==
  /\ y[1] = Base(t) /\ h[1] = Base(t)
  /\ IF t = Main THEN S[1].op = "body" /\ F # <<>> ELSE S[1].op = "resume"
Last(S, F, n, m, h, y, c) == h[Len(S)] = Len(F) /\ y[Len(S)] = n /\ c[Len(S)] = m
Grows(S, h, y) == \A p, q \in 1..Len(S) : p <= q => h[p] <= h[q] /\ y[p] <= y[q]
Linked(S, F, h, y, c) ==
  \A p \in 1..Len(S) - 1 : Link(S[p], S[p + 1], F, h[p], h[p + 1], y[p], c[p], y[p + 1], c[p + 1])
\* What cannot be finished after a yield is called in a way that forbids it.
Guarded(S, F, h) ==
  \A k \in 1..Len(F) - 1 :
    Unrollable(F[k]) \/ \E p \in 2..Len(S) : S[p].op = "call" /\ S[p].noyield /\ h[p] = k
\* And there are never so many of these calls that nny starts from 0 again.
Counted(t, S, y, c) == \A p \in 1..Len(S) : y[p] = Base(t) \/ (y[p] <= c[p] + 2 /\ c[p] < Limit)

Fits(t, S, F, n, m, h, y, c) ==
  /\ h \in [1..Len(S) -> Nat] /\ y \in [1..Len(S) -> Nat] /\ c \in [1..Len(S) -> Ushort]
  /\ S # <<>>
  /\ Bottom(t, S, F, h, y) /\ Last(S, F, n, m, h, y, c)
  /\ Grows(S, h, y) /\ Linked(S, F, h, y, c) /\ Guarded(S, F, h) /\ Counted(t, S, y, c)

PartOK(t, S, F, n, m) ==
  \E h \in [1..Len(S) -> Nat], y \in [1..Len(S) -> Nat], c \in [1..Len(S) -> Ushort] :
    Fits(t, S, F, n, m, h, y, c)

-----------------------------------------------------------------------------
(* The invariant.                                                           *)

Distinct == \A i, j \in 1..Len(chain) : chain[i] = chain[j] => i = j

Runs(t) ==
  /\ status[t] = "ok" /\ ~pending[t] /\ FramesOK(t, ci[t])
  /\ PartOK(t, cstack[t], ci[t], nny[t], nCcalls[t])

\* A coroutine that has yielded can be gone on with.
Waits(t) ==
  LET F == ci[t] IN
  /\ ~pending[t] /\ FramesOK(t, F) /\ Len(F) >= 2 /\ F[Len(F)].what = "yield"
  /\ \A k \in 1..Len(F) - 1 : Unrollable(F[k])

Rests(t) ==
  \/ status[t] = "ok" /\ ci[t] = <<>>
  \/ status[t] = "error" /\ ~pending[t]
  \/ status[t] = "yield" /\ Waits(t)

CallsInv ==
  /\ TypeOK
  /\ ~confused => /\ chain[1] = Main /\ Distinct
                  /\ \A t \in Threads : IF InChain(t) THEN Runs(t) ELSE Rests(t)

-----------------------------------------------------------------------------
(* Sequences, and the greatest number of a set.                             *)

LEMMA CutIs ==
  ASSUME NEW S, NEW s \in Seq(S), NEW n \in Nat, n <= Len(s)
  PROVE  /\ Cut(s, n) \in Seq(S) /\ Len(Cut(s, n)) = n
         /\ \A i \in 1..n : Cut(s, n)[i] = s[i]
<1>1. Len(s) \in Nat
  BY LenProperties
<1>2. \A i \in 1..n : s[i] \in S
  BY <1>1, ElementOfSeq
<1>3. /\ SubSeq(s, 1, n) \in Seq(S)
      /\ Len(SubSeq(s, 1, n)) = IF 1 <= n THEN n - 1 + 1 ELSE 0
      /\ \A i \in 1..(n - 1 + 1) : SubSeq(s, 1, n)[i] = s[1 + i - 1]
  BY <1>2, SubSeqProperties
<1>4. n - 1 + 1 = n /\ (IF 1 <= n THEN n - 1 + 1 ELSE 0) = n /\ \A i \in 1..n : 1 + i - 1 = i
  OBVIOUS
<1> QED BY <1>3, <1>4 DEF Cut

LEMMA Greatest ==
  ASSUME NEW n \in Nat, NEW T, T \subseteq 1..n, T # {}
  PROVE  \E i \in T : \A j \in T : j <= i
<1> DEFINE R == {ss \in Nat \X Nat : ss[1] < ss[2]}
           U == {m \in Nat : \A j \in T : j <= m}
<1>1. OpToRel(<, Nat) = R
  BY Zenon DEF OpToRel
<1>2. IsWellFoundedOn(R, Nat)
  BY <1>1, NatLessThanWellFounded, Zenon
<1> HIDE DEF R
<1>3. U \subseteq Nat /\ n \in U
  OBVIOUS
<1>4. PICK m \in U : \A k \in U : ~(<<k, m>> \in R)
  BY <1>2, <1>3, WFMin
<1>5. m \in Nat /\ \A j \in T : j <= m /\ j \in Nat /\ j >= 1
  BY <1>4
<1>6. m \in T
  <2>1. SUFFICES ASSUME m \notin T PROVE FALSE
    OBVIOUS
  <2>2. PICK j \in T : TRUE
    OBVIOUS
  <2>3. m >= 1 /\ m - 1 \in Nat
    BY <1>5, <2>2
  <2>4. \A k \in T : k <= m - 1
    BY <1>5, <2>1
  <2>5. m - 1 \in U
    BY <2>3, <2>4
  <2>6. <<m - 1, m>> \in R
    BY <1>5, <2>3 DEF R
  <2> QED BY <1>4, <2>5, <2>6
<1> QED BY <1>5, <1>6

\* A sequence with a new element, and with another last one.
LEMMA AppendIs ==
  ASSUME NEW S, NEW s \in Seq(S), NEW e \in S
  PROVE  /\ Append(s, e) \in Seq(S) /\ Len(Append(s, e)) = Len(s) + 1 /\ Len(s) \in Nat
         /\ \A i \in 1..Len(s) : Append(s, e)[i] = s[i]
         /\ Append(s, e)[Len(s) + 1] = e
  BY AppendProperties, LenProperties

LEMMA ToppedIs ==
  ASSUME NEW S, NEW s \in Seq(S), s # <<>>, NEW e \in S,
         NEW u, u = [s EXCEPT ![Len(s)] = e]
  PROVE  /\ u \in Seq(S) /\ Len(u) = Len(s) /\ Len(s) \in Nat \ {0} /\ u[Len(s)] = e
         /\ \A i \in 1 .. Len(s) - 1 : u[i] = s[i]
<1>1. Len(s) \in Nat \ {0} /\ Len(s) \in 1..Len(s)
  BY EmptySeq, LenProperties
<1> DEFINE n == Len(s)
<1>2. n \in 1..Len(s)
  BY <1>1
<1> HIDE DEF n
<1>3. /\ [s EXCEPT ![n] = e] \in Seq(S) /\ Len([s EXCEPT ![n] = e]) = Len(s)
      /\ \A j \in 1 .. Len(s) : [s EXCEPT ![n] = e][j] = IF j = n THEN e ELSE s[j]
  BY <1>2, ExceptSeq
<1>4. u = [s EXCEPT ![n] = e]
  BY DEF n
<1>5. \A i \in 1 .. Len(s) - 1 : i # n /\ i \in 1..Len(s)
  BY <1>1 DEF n
<1> QED BY <1>1, <1>2, <1>3, <1>4, <1>5 DEF n

-----------------------------------------------------------------------------
(* Parts of the C stack: one more entry, or some less.                      *)

\* Two sequences of frames that agree as far as links can tell.
Alike(F, G, n) == \A k \in 1..n : G[k].what = F[k].what /\ G[k].reentry = F[k].reentry

LEMMA LinkStays ==
  ASSUME NEW a, NEW b, NEW F \in Seq(FrameSet), NEW G \in Seq(FrameSet),
         NEW i \in Nat, NEW j \in Nat, NEW n, NEW m, NEW yj, NEW cj,
         Link(a, b, F, i, j, n, m, yj, cj), i <= j, j <= Len(G), Alike(F, G, j),
         b.op = "pcall" => ~G[j].ypcall
  PROVE  Link(a, b, G, i, j, n, m, yj, cj)
<1>1. Len(F) \in Nat /\ Len(G) \in Nat
  BY LenProperties
<1>2. ASSUME IsExecute(a, b, F, i, j) PROVE IsExecute(a, b, G, i, j)
  <2>1. i + 1 \in 1..j /\ \A k \in i + 2 .. j : k \in 1..j
    BY <1>2 DEF IsExecute
  <2> QED BY <1>2, <2>1 DEF IsExecute, Alike
<1>3. ASSUME IsBody(a, b, F, i, j) PROVE IsBody(a, b, G, i, j)
  <2>1. j \in 1..j
    BY <1>3 DEF IsBody
  <2> QED BY <1>3, <2>1 DEF IsBody, Alike
<1>4. ASSUME IsCall(a, b, F, i, j) PROVE IsCall(a, b, G, i, j)
  <2>1. j \in 1..j
    BY <1>4 DEF IsCall
  <2> QED BY <1>4, <2>1 DEF IsCall, Alike
<1>5. ASSUME IsPcall(a, b, F, i, j, n, m) PROVE IsPcall(a, b, G, i, j, n, m)
  <2>1. j \in 1..j
    BY <1>5 DEF IsPcall
  <2> QED BY <1>5, <2>1 DEF IsPcall, Alike
<1> QED BY <1>2, <1>3, <1>4, <1>5 DEF Link

\* What a part is called with and how high it is.
LEMMA FitsTypes ==
  ASSUME NEW t, NEW S \in Seq(EntrySet), NEW F \in Seq(FrameSet), NEW n, NEW m, NEW h, NEW y, NEW c,
         Fits(t, S, F, n, m, h, y, c)
  PROVE  /\ Len(S) \in Nat \ {0} /\ Len(F) \in Nat /\ n \in Nat /\ m \in Ushort
         /\ \A p \in 1..Len(S) : h[p] \in Nat /\ y[p] \in Nat /\ c[p] \in Ushort /\ h[p] <= Len(F)
                                  /\ y[p] <= n /\ S[p] \in EntrySet
         /\ h[Len(S)] = Len(F) /\ y[Len(S)] = n /\ c[Len(S)] = m
<1>1. Len(S) \in Nat \ {0} /\ Len(F) \in Nat
  BY EmptySeq, LenProperties DEF Fits
<1>2. Len(S) \in 1..Len(S)
  BY <1>1
<1>3. \A p \in 1..Len(S) : h[p] \in Nat /\ y[p] \in Nat /\ c[p] \in Ushort
  BY DEF Fits
<1>4. h[Len(S)] = Len(F) /\ y[Len(S)] = n /\ c[Len(S)] = m
  BY DEF Fits, Last
<1>5. \A p \in 1..Len(S) : h[p] <= h[Len(S)] /\ y[p] <= y[Len(S)]
  BY <1>1, <1>2 DEF Fits, Grows
<1>6. \A p \in 1..Len(S) : S[p] \in EntrySet
  BY ElementOfSeq
<1> QED BY <1>1, <1>2, <1>3, <1>4, <1>5, <1>6

\* Unsigned shorts.
LEMMA ShortIs ==
  ASSUME NEW n \in Ushort
  PROVE  Short(n) = n
<1>1. n \in Nat /\ n < 65536
  BY DEF Ushort
<1> QED BY <1>1 DEF Short

LEMMA ShortOver == Short(65536) = 0
  BY DEF Short

LEMMA ShortUnder ==
  ASSUME NEW n \in Int, n < 0, n >= -65536
  PROVE  Short(n) = n + 65536
  BY DEF Short

LEMMA ShortType ==
  ASSUME NEW n \in Int
  PROVE  Short(n) \in Ushort
  BY DEF Short, Ushort

\* luaD_call counts a C call, and the count is as before when it returns.
LEMMA ShortBack ==
  ASSUME NEW c \in Ushort
  PROVE  Short(Short(c + 1) - 1) = c
<1>1. CASE c = 65535
  <2>1. Short(c + 1) = 0
    BY <1>1, ShortOver
  <2>2. Short(0 - 1) = 65535
    BY ShortUnder
  <2> QED BY <1>1, <2>1, <2>2
<1>2. CASE c # 65535
  <2>1. c + 1 \in Ushort /\ c + 1 - 1 = c
    BY <1>2 DEF Ushort
  <2>2. Short(c + 1) = c + 1
    BY <2>1, ShortIs
  <2>3. Short(c) = c
    BY ShortIs
  <2>4. Short(c + 1) - 1 = c
    BY <2>2 DEF Ushort
  <2> QED BY <2>3, <2>4
<1> QED BY <1>1, <1>2

LEMMA LimitType ==
  ASSUME Limits
  PROVE  Limit \in Nat /\ Limit < 65535
<1>1. MaxCCalls \div 8 \in Nat
  BY DEF Limits
<1> QED BY <1>1 DEF Limits, Limit

LEMMA CountGoesOn ==
  ASSUME Limits, NEW t, NEW y \in Nat, NEW c \in Ushort, NEW more \in {0, 1},
         y = Base(t) \/ (y <= c + 2 /\ c < Limit), Short(c + 1) < Limit
  PROVE  /\ y + more <= Short(c + 1) + 2 /\ y + more \in Ushort /\ Short(y + more) = y + more
         /\ Short(c + 1) \in Ushort
<1>1. Limit \in Nat /\ Limit < 65535
  BY LimitType
<1>2. Base(t) \in {0, 1}
  BY DEF Base
<1>3. c \in Nat /\ c <= 65535
  BY DEF Ushort
<1>4. \/ Short(c + 1) = c + 1
      \/ c = 65535 /\ Short(c + 1) = 0
  <2>1. CASE c = 65535
    BY <2>1, ShortOver
  <2>2. CASE c # 65535
    <3>1. c + 1 \in Ushort
      BY <1>3, <2>2 DEF Ushort
    <3> QED BY <3>1, ShortIs
  <2> QED BY <2>1, <2>2
<1>5. Short(c + 1) \in Nat /\ Short(c + 1) \in Ushort
  BY <1>3, <1>4, ShortType DEF Ushort
<1> HIDE DEF Limit, Base
<1>6. y + more <= Short(c + 1) + 2
  BY <1>1, <1>2, <1>3, <1>4, <1>5
<1>7. y + more \in Ushort
  BY <1>1, <1>5, <1>6 DEF Ushort
<1> QED BY <1>5, <1>6, <1>7, ShortIs

LEMMA Ranges ==
  ASSUME NEW N \in Nat \ {0}
  PROVE  /\ 1 \in 1..N /\ N \in 1..N /\ N + 1 \in 1 .. N + 1
         /\ \A p \in 1 .. N + 1 : p = N + 1 \/ p \in 1..N
         /\ \A p \in 1..N : p \in 1 .. N + 1
         /\ N >= 2 => N \in 2 .. N + 1 /\ N - 1 \in 1 .. N - 1
         /\ \A p \in 2..N : p \in 1..N /\ p \in 2 .. N + 1
         /\ N # 1 => 2 \in 2..N /\ 2 \in 1..N /\ N \in 2..N /\ N - 1 \in 1..N /\ N >= 2
         /\ N # 1 /\ ~(N - 1 \in 2..N) => N = 2
  OBVIOUS

\* A new entry, with the frames as they are or one more.
LEMMA Push ==
  ASSUME NEW t, NEW S \in Seq(EntrySet), NEW F \in Seq(FrameSet), NEW n, NEW m,
         PartOK(t, S, F, n, m),
         NEW b \in EntrySet, NEW G \in Seq(FrameSet), NEW n2 \in Nat, NEW m2 \in Ushort,
         Len(F) <= Len(G), \A k \in 1..Len(F) : G[k] = F[k],
         n <= n2, n2 = Base(t) \/ (n2 <= m2 + 2 /\ m2 < Limit),
         Link(S[Len(S)], b, G, Len(F), Len(G), n, m, n2, m2),
         \A k \in 1 .. Len(G) - 1 : k < Len(F) \/ Unrollable(G[k])
             \/ (S[Len(S)].op = "call" /\ S[Len(S)].noyield /\ k = Len(F) /\ Len(S) >= 2)
  PROVE  PartOK(t, Append(S, b), G, n2, m2)
<1>0. PICK h \in [1..Len(S) -> Nat], y \in [1..Len(S) -> Nat], c \in [1..Len(S) -> Ushort] :
          Fits(t, S, F, n, m, h, y, c)
  BY DEF PartOK
<1> DEFINE N == Len(S)
           A == Append(S, b)
           H == [p \in 1 .. N + 1 |-> IF p = N + 1 THEN Len(G) ELSE h[p]]
           Y == [p \in 1 .. N + 1 |-> IF p = N + 1 THEN n2 ELSE y[p]]
           C2 == [p \in 1 .. N + 1 |-> IF p = N + 1 THEN m2 ELSE c[p]]
<1>1. /\ N \in Nat \ {0} /\ Len(F) \in Nat /\ Len(G) \in Nat /\ n \in Nat /\ m \in Ushort
      /\ \A p \in 1..N : h[p] \in Nat /\ y[p] \in Nat /\ c[p] \in Ushort /\ h[p] <= Len(F) /\ y[p] <= n
      /\ h[N] = Len(F) /\ y[N] = n /\ c[N] = m
  <2>1. Len(G) \in Nat
    BY LenProperties
  <2>2. n \in Nat /\ m \in Ushort /\ Len(F) \in Nat /\ N \in Nat \ {0}
    BY <1>0, FitsTypes
  <2>3. \A p \in 1..N : h[p] \in Nat /\ y[p] \in Nat /\ c[p] \in Ushort /\ h[p] <= Len(F) /\ y[p] <= n
    BY <1>0, FitsTypes
  <2>4. h[N] = Len(F) /\ y[N] = n /\ c[N] = m
    BY <1>0 DEF Fits, Last
  <2> QED BY <2>1, <2>2, <2>3, <2>4
<1>2. /\ A \in Seq(EntrySet) /\ Len(A) = N + 1 /\ A # <<>>
      /\ \A p \in 1..N : A[p] = S[p]
      /\ A[N + 1] = b
  BY AppendProperties
<1> HIDE DEF A, N
<1>3. /\ \A p \in 1..N : H[p] = h[p] /\ Y[p] = y[p] /\ C2[p] = c[p]
      /\ H[N + 1] = Len(G) /\ Y[N + 1] = n2 /\ C2[N + 1] = m2
  BY <1>1
<1>4. /\ H \in [1 .. N + 1 -> Nat] /\ Y \in [1 .. N + 1 -> Nat] /\ C2 \in [1 .. N + 1 -> Ushort]
  BY <1>1
<1> HIDE DEF H, Y, C2
<1>5. Fits(t, A, G, n2, m2, H, Y, C2)
  <2>0. 1 \in 1..N /\ \A p \in 1 .. N + 1 : p = N + 1 \/ p \in 1..N
    BY <1>1, Ranges
  <2>1. Bottom(t, A, G, H, Y)
    <3>1. F # <<>> => G # <<>>
      BY <1>1, EmptySeq
    <3>2. Bottom(t, S, F, h, y)
      BY <1>0 DEF Fits
    <3> QED BY <1>2, <1>3, <2>0, <3>1, <3>2 DEF Bottom
  <2>2. Last(A, G, n2, m2, H, Y, C2)
    BY <1>2, <1>3 DEF Last
  <2>3. Grows(A, H, Y)
    <3>1. SUFFICES ASSUME NEW p \in 1 .. N + 1, NEW q \in 1 .. N + 1, p <= q
                   PROVE H[p] <= H[q] /\ Y[p] <= Y[q]
      BY <1>2 DEF Grows
    <3>2. CASE q \in 1..N
      <4>1. p \in 1..N
        BY <1>1, <3>1, <3>2
      <4> QED BY <1>0, <1>3, <3>1, <3>2, <4>1 DEF Fits, Grows, N
    <3>3. CASE q = N + 1 /\ p \in 1..N
      <4>1. H[q] = Len(G) /\ Y[q] = n2
        BY <1>3, <3>3
      <4>2. H[p] = h[p] /\ Y[p] = y[p]
        BY <1>3, <3>3
      <4>3. h[p] \in Nat /\ y[p] \in Nat /\ h[p] <= Len(F) /\ y[p] <= n
        BY <1>1, <3>3
      <4> QED BY <1>1, <4>1, <4>2, <4>3
    <3>4. CASE q = N + 1 /\ p = N + 1
      BY <1>1, <1>3, <3>4
    <3> QED BY <2>0, <3>2, <3>3, <3>4
  <2>4. Linked(A, G, H, Y, C2)
    <3>1. SUFFICES ASSUME NEW p \in 1 .. N
                   PROVE Link(A[p], A[p + 1], G, H[p], H[p + 1], Y[p], C2[p], Y[p + 1], C2[p + 1])
      <4>1. Len(A) - 1 = N
        BY <1>1, <1>2
      <4> QED BY <4>1 DEF Linked
    <3>2. CASE p = N
      BY <1>1, <1>2, <1>3, <3>2 DEF N
    <3>3. CASE p < N
      <4>1. p + 1 \in 1..N /\ p \in 1 .. N - 1 /\ p <= p + 1
        BY <1>1, <3>3
      <4>2. Link(S[p], S[p + 1], F, h[p], h[p + 1], y[p], c[p], y[p + 1], c[p + 1])
        BY <1>0, <4>1 DEF Fits, Linked, N
      <4>3. h[p] <= h[p + 1] /\ h[p + 1] <= Len(F) /\ h[p] \in Nat /\ h[p + 1] \in Nat
        BY <1>0, <1>1, <4>1 DEF Fits, Grows, N
      <4>4. Alike(F, G, h[p + 1]) /\ h[p + 1] <= Len(G)
        <5>1. h[p + 1] <= Len(G) /\ \A k \in 1..h[p + 1] : k \in 1..Len(F)
          BY <1>1, <4>3
        <5> QED BY <5>1 DEF Alike
      <4>5. S[p + 1].op = "pcall" => ~G[h[p + 1]].ypcall
        <5>1. S[p + 1].op = "pcall" => IsPcall(S[p], S[p + 1], F, h[p], h[p + 1], y[p], c[p])
          BY <4>2 DEF Link, IsExecute, IsBody, IsCall
        <5>2. S[p + 1].op = "pcall" => ~F[h[p + 1]].ypcall /\ h[p + 1] \in 1..Len(F)
          BY <1>1, <4>3, <5>1 DEF IsPcall
        <5> QED BY <5>2
      <4>6. Link(S[p], S[p + 1], G, h[p], h[p + 1], y[p], c[p], y[p + 1], c[p + 1])
        BY <4>2, <4>3, <4>4, <4>5, LinkStays
      <4> QED BY <1>2, <1>3, <4>1, <4>6
    <3> QED BY <1>1, <3>2, <3>3
  <2>5. Guarded(A, G, H)
    <3>1. SUFFICES ASSUME NEW k \in 1 .. Len(G) - 1
                   PROVE Unrollable(G[k])
                     \/ \E p \in 2 .. N + 1 : A[p].op = "call" /\ A[p].noyield /\ H[p] = k
      BY <1>2 DEF Guarded
    <3>2. CASE k < Len(F)
      <4>1. k \in 1 .. Len(F) - 1 /\ k \in 1..Len(F)
        BY <1>1, <3>2
      <4>2. Unrollable(F[k]) \/ \E p \in 2..N : S[p].op = "call" /\ S[p].noyield /\ h[p] = k
        BY <1>0, <4>1 DEF Fits, Guarded, N
      <4>3. \A p \in 2..N : p \in 1..N /\ p \in 2 .. N + 1
        BY <1>1
      <4> QED BY <1>2, <1>3, <4>1, <4>2, <4>3
    <3>3. CASE S[N].op = "call" /\ S[N].noyield /\ k = Len(F) /\ N >= 2
      <4>1. N \in 2 .. N + 1 /\ N \in 1..N
        BY <1>1, <3>3, Ranges
      <4> QED BY <1>1, <1>2, <1>3, <3>3, <4>1
    <3> QED BY <3>2, <3>3 DEF N
  <2>6. Counted(t, A, Y, C2)
    <3>1. SUFFICES ASSUME NEW p \in 1 .. N + 1
                   PROVE Y[p] = Base(t) \/ (Y[p] <= C2[p] + 2 /\ C2[p] < Limit)
      BY <1>2 DEF Counted
    <3>2. CASE p \in 1..N
      BY <1>0, <1>3, <3>2 DEF Fits, Counted, N
    <3>3. CASE p = N + 1
      BY <1>3, <3>3
    <3> QED BY <2>0, <3>2, <3>3
  <2> QED BY <1>0, <1>2, <1>4, <2>1, <2>2, <2>3, <2>4, <2>5, <2>6 DEF Fits
<1> QED BY <1>2, <1>4, <1>5 DEF PartOK, A

\* What can be said of any part.
LEMMA PartTypes ==
  ASSUME NEW t, NEW S \in Seq(EntrySet), NEW F \in Seq(FrameSet), NEW n, NEW m,
         PartOK(t, S, F, n, m)
  PROVE  /\ Len(S) \in Nat \ {0} /\ Len(F) \in Nat /\ n \in Nat /\ m \in Ushort /\ Base(t) <= n
         /\ \A p \in 1..Len(S) : S[p] \in EntrySet
         /\ n = Base(t) \/ (n <= m + 2 /\ m < Limit)
         /\ IF t = Main THEN S[1].op = "body" /\ F # <<>> ELSE S[1].op = "resume"
<1>1. PICK h \in [1..Len(S) -> Nat], y \in [1..Len(S) -> Nat], c \in [1..Len(S) -> Ushort] :
          Fits(t, S, F, n, m, h, y, c)
  BY DEF PartOK
<1>2. /\ Len(S) \in Nat \ {0} /\ Len(F) \in Nat /\ n \in Nat /\ m \in Ushort
      /\ \A p \in 1..Len(S) : y[p] <= n /\ S[p] \in EntrySet
      /\ y[Len(S)] = n /\ c[Len(S)] = m
  <2>1. Len(S) \in Nat \ {0} /\ Len(F) \in Nat /\ n \in Nat /\ m \in Ushort
    BY <1>1, FitsTypes
  <2>2. \A p \in 1..Len(S) : y[p] <= n /\ S[p] \in EntrySet
    BY <1>1, FitsTypes
  <2> QED BY <1>1, <2>1, <2>2 DEF Fits, Last
<1>3. 1 \in 1..Len(S) /\ Len(S) \in 1..Len(S)
  BY <1>2
<1>4. y[1] = Base(t) /\ IF t = Main THEN S[1].op = "body" /\ F # <<>> ELSE S[1].op = "resume"
  BY <1>1 DEF Fits, Bottom
<1>5. n = Base(t) \/ (n <= m + 2 /\ m < Limit)
  BY <1>1, <1>2, <1>3 DEF Fits, Counted
<1> QED BY <1>2, <1>3, <1>4, <1>5

\* Only the entry of lua_resume is at the bottom of a coroutine, and in no other place.
LEMMA FitsOps ==
  ASSUME NEW t, NEW S \in Seq(EntrySet), NEW F \in Seq(FrameSet), NEW n, NEW m, NEW h, NEW y, NEW c,
         Fits(t, S, F, n, m, h, y, c)
  PROVE  /\ \A p \in 2..Len(S) : S[p].op # "resume" /\ p - 1 \in 1 .. Len(S) - 1
         /\ \A p \in 2..Len(S) : Link(S[p - 1], S[p], F, h[p - 1], h[p], y[p - 1], c[p - 1], y[p], c[p])
         /\ \A p \in 1 .. Len(S) - 1 :
              Link(S[p], S[p + 1], F, h[p], h[p + 1], y[p], c[p], y[p + 1], c[p + 1])
<1>1. Len(S) \in Nat \ {0}
  BY FitsTypes
<1>2. \A p \in 2..Len(S) : p - 1 \in 1 .. Len(S) - 1 /\ p - 1 + 1 = p
  BY <1>1
<1>3. \A p \in 2..Len(S) : Link(S[p - 1], S[p], F, h[p - 1], h[p], y[p - 1], c[p - 1], y[p], c[p])
  BY <1>2 DEF Fits, Linked
<1>4. ASSUME NEW p \in 2..Len(S) PROVE S[p].op # "resume"
  BY <1>3 DEF Link, IsExecute, IsBody, IsCall, IsPcall
<1>5. \A p \in 1 .. Len(S) - 1 :
         Link(S[p], S[p + 1], F, h[p], h[p + 1], y[p], c[p], y[p + 1], c[p + 1])
  BY DEF Fits, Linked
<1> QED BY <1>2, <1>3, <1>4, <1>5

\* A part of a part: the entries up to i, and the frames that there were then.
LEMMA Shorter ==
  ASSUME NEW t, NEW S \in Seq(EntrySet), NEW F \in Seq(FrameSet), NEW n, NEW m, NEW h, NEW y, NEW c,
         Fits(t, S, F, n, m, h, y, c), NEW i \in 1..Len(S)
  PROVE  PartOK(t, Cut(S, i), Cut(F, h[i]), y[i], c[i])
<1> DEFINE N == Len(S)
           A == Cut(S, i)
           G == Cut(F, h[i])
           H == [p \in 1..i |-> h[p]]
           Y == [p \in 1..i |-> y[p]]
           C2 == [p \in 1..i |-> c[p]]
<1>1. /\ N \in Nat \ {0} /\ Len(F) \in Nat
      /\ \A p \in 1..N : h[p] \in Nat /\ y[p] \in Nat /\ c[p] \in Ushort /\ h[p] <= Len(F)
  BY FitsTypes
<1>2. i \in Nat \ {0} /\ i <= N /\ h[i] \in Nat /\ h[i] <= Len(F) /\ \A p \in 1..i : p \in 1..N
  BY <1>1
<1>3. A \in Seq(EntrySet) /\ Len(A) = i /\ \A p \in 1..i : A[p] = S[p]
  BY <1>2, CutIs
<1>4. G \in Seq(FrameSet) /\ Len(G) = h[i] /\ \A k \in 1..h[i] : G[k] = F[k]
  BY <1>2, CutIs
<1> HIDE DEF A, G, N
<1>5. \A p \in 1..i : H[p] = h[p] /\ Y[p] = y[p] /\ C2[p] = c[p]
  OBVIOUS
<1>6. H \in [1..i -> Nat] /\ Y \in [1..i -> Nat] /\ C2 \in [1..i -> Ushort]
  BY <1>1, <1>2
<1> HIDE DEF H, Y, C2
<1>7. A # <<>> /\ 1 \in 1..i /\ i \in 1..i
  <2>1. Len(<<>>) = 0
    OBVIOUS
  <2> QED BY <1>2, <1>3, <2>1
<1>8. \A p \in 1..i : h[p] <= h[i]
  BY <1>1, <1>2 DEF Fits, Grows, N
<1>9. Fits(t, A, G, y[i], c[i], H, Y, C2)
  <2>1. Bottom(t, A, G, H, Y)
    <3>1. Bottom(t, S, F, h, y)
      BY DEF Fits
    <3>2. t = Main => h[i] # 0
      BY <1>1, <1>2, <1>7, <1>8, <3>1 DEF Bottom, Base
    <3>3. t = Main => G # <<>>
      <4>1. Len(<<>>) = 0
        OBVIOUS
      <4> QED BY <1>4, <3>2, <4>1
    <3> QED BY <1>3, <1>5, <1>7, <3>1, <3>3 DEF Bottom
  <2>2. Last(A, G, y[i], c[i], H, Y, C2)
    BY <1>3, <1>4, <1>5, <1>7 DEF Last
  <2>3. Grows(A, H, Y)
    <3>1. \A p, q \in 1..N : p <= q => h[p] <= h[q] /\ y[p] <= y[q]
      BY DEF Fits, Grows, N
    <3> QED BY <1>2, <1>3, <1>5, <3>1 DEF Grows
  <2>4. Linked(A, G, H, Y, C2)
    <3>1. SUFFICES ASSUME NEW p \in 1 .. i - 1
                   PROVE Link(A[p], A[p + 1], G, H[p], H[p + 1], Y[p], C2[p], Y[p + 1], C2[p + 1])
      BY <1>3 DEF Linked
    <3>2. p \in 1..i /\ p + 1 \in 1..i /\ p \in 1 .. N - 1 /\ p <= p + 1
      BY <1>1, <1>2
    <3>3. Link(S[p], S[p + 1], F, h[p], h[p + 1], y[p], c[p], y[p + 1], c[p + 1])
      BY <3>2 DEF Fits, Linked, N
    <3>4. h[p] <= h[p + 1] /\ h[p + 1] <= h[i] /\ h[p] \in Nat /\ h[p + 1] \in Nat
      BY <1>1, <1>2, <1>8, <3>2 DEF Fits, Grows, N
    <3>5. Alike(F, G, h[p + 1]) /\ h[p + 1] <= Len(G)
      BY <1>1, <1>2, <1>4, <3>4 DEF Alike
    <3>6. S[p + 1].op = "pcall" => ~G[h[p + 1]].ypcall
      <4>1. S[p + 1].op = "pcall" => IsPcall(S[p], S[p + 1], F, h[p], h[p + 1], y[p], c[p])
        BY <3>3 DEF Link, IsExecute, IsBody, IsCall
      <4>2. S[p + 1].op = "pcall" => ~F[h[p + 1]].ypcall /\ h[p + 1] \in 1..h[i]
        BY <1>2, <3>4, <4>1 DEF IsPcall
      <4> QED BY <1>4, <4>2
    <3>7. Link(S[p], S[p + 1], G, h[p], h[p + 1], y[p], c[p], y[p + 1], c[p + 1])
      BY <1>4, <3>3, <3>4, <3>5, <3>6, LinkStays
    <3> QED BY <1>3, <1>5, <3>2, <3>7
  <2>5. Guarded(A, G, H)
    <3>1. SUFFICES ASSUME NEW k \in 1 .. h[i] - 1
                   PROVE Unrollable(G[k]) \/ \E p \in 2..i : A[p].op = "call" /\ A[p].noyield /\ H[p] = k
      BY <1>3, <1>4 DEF Guarded
    <3>2. k \in 1 .. Len(F) - 1 /\ k \in 1..h[i] /\ k < h[i]
      BY <1>1, <1>2
    <3>3. Unrollable(F[k]) \/ \E p \in 2..N : S[p].op = "call" /\ S[p].noyield /\ h[p] = k
      BY <3>2 DEF Fits, Guarded, N
    <3>4. ASSUME NEW p \in 2..N, h[p] = k PROVE p \in 2..i /\ p \in 1..i
      <4>1. p \in 1..N
        BY <1>1
      <4>2. i <= p => h[i] <= h[p]
        BY <1>1, <1>2, <4>1 DEF Fits, Grows, N
      <4> QED BY <1>1, <1>2, <3>2, <3>4, <4>1, <4>2
    <3> QED BY <1>3, <1>4, <1>5, <3>2, <3>3, <3>4
  <2>6. Counted(t, A, Y, C2)
    <3>1. \A p \in 1..N : y[p] = Base(t) \/ (y[p] <= c[p] + 2 /\ c[p] < Limit)
      BY DEF Fits, Counted, N
    <3> QED BY <1>2, <1>3, <1>5, <3>1 DEF Counted
  <2> QED BY <1>3, <1>6, <1>7, <2>1, <2>2, <2>3, <2>4, <2>5, <2>6 DEF Fits
<1> QED BY <1>3, <1>6, <1>9 DEF PartOK, A, G

\* The top frame is marked, as called or as one that has a continuation.
LEMMA Retop ==
  ASSUME NEW t, NEW S \in Seq(EntrySet), NEW F \in Seq(FrameSet), NEW n, NEW m,
         PartOK(t, S, F, n, m), F # <<>>, NEW f \in FrameSet, NEW G, G = [F EXCEPT ![Len(F)] = f],
         f.what = F[Len(F)].what, f.reentry = F[Len(F)].reentry,
         f.ypcall => S[Len(S)].op = "body"
  PROVE  PartOK(t, S, G, n, m)
<1>1. PICK h \in [1..Len(S) -> Nat], y \in [1..Len(S) -> Nat], c \in [1..Len(S) -> Ushort] :
          Fits(t, S, F, n, m, h, y, c)
  BY DEF PartOK
<1> DEFINE N == Len(S)
<1>2. /\ G \in Seq(FrameSet) /\ Len(G) = Len(F) /\ Len(F) \in Nat \ {0} /\ G[Len(F)] = f
      /\ \A k \in 1 .. Len(F) - 1 : G[k] = F[k]
  BY ToppedIs
<1>3. N \in Nat \ {0} /\ \A p \in 1..N : h[p] \in Nat /\ h[p] <= Len(F)
  BY <1>1, FitsTypes
<1> HIDE DEF N
<1>4. \A k \in 1..Len(F) : k = Len(F) \/ k \in 1 .. Len(F) - 1
  BY <1>2
<1>5. \A k \in 1..Len(F) : G[k].what = F[k].what /\ G[k].reentry = F[k].reentry
  BY <1>2, <1>4
<1>6. Fits(t, S, G, n, m, h, y, c)
  <2>1. Bottom(t, S, G, h, y)
    <3>1. Bottom(t, S, F, h, y)
      BY <1>1 DEF Fits
    <3>2. G # <<>>
      BY <1>2, EmptySeq
    <3> QED BY <3>1, <3>2 DEF Bottom
  <2>2. Last(S, G, n, m, h, y, c)
    BY <1>1, <1>2 DEF Fits, Last
  <2>3. Linked(S, G, h, y, c)
    <3>1. SUFFICES ASSUME NEW p \in 1 .. N - 1
                   PROVE Link(S[p], S[p + 1], G, h[p], h[p + 1], y[p], c[p], y[p + 1], c[p + 1])
      BY DEF Linked, N
    <3>2. p \in 1..N /\ p + 1 \in 1..N /\ p <= p + 1
      BY <1>3
    <3>3. Link(S[p], S[p + 1], F, h[p], h[p + 1], y[p], c[p], y[p + 1], c[p + 1])
      BY <1>1, <3>1 DEF Fits, Linked, N
    <3>4. h[p] <= h[p + 1] /\ h[p + 1] <= Len(F) /\ h[p] \in Nat /\ h[p + 1] \in Nat
      BY <1>1, <1>3, <3>2 DEF Fits, Grows, N
    <3>5. \A k \in 1..h[p + 1] : k \in 1..Len(F)
      BY <1>2, <3>4
    <3>6. Alike(F, G, h[p + 1])
      BY <1>5, <3>5 DEF Alike
    <3>7. ASSUME S[p + 1].op = "pcall" PROVE ~G[h[p + 1]].ypcall
      <4>1. IsPcall(S[p], S[p + 1], F, h[p], h[p + 1], y[p], c[p])
        BY <3>3, <3>7 DEF Link, IsExecute, IsBody, IsCall
      <4>2. ~F[h[p + 1]].ypcall /\ h[p + 1] \in 1..Len(F)
        BY <1>2, <3>4, <4>1 DEF IsPcall
      <4>3. CASE h[p + 1] # Len(F)
        BY <1>2, <1>4, <4>2, <4>3
      <4>4. CASE h[p + 1] = Len(F) /\ ~f.ypcall
        BY <1>2, <4>4
      <4>5. CASE h[p + 1] = Len(F) /\ S[N].op = "body"
        <5>1. p + 1 # N
          BY <3>7, <4>5
        <5>2. N - 1 \in 1 .. N - 1 /\ N - 1 \in 1..N /\ N - 1 + 1 = N /\ p + 1 <= N - 1
          BY <1>3, <3>2, <5>1
        <5>3. Link(S[N - 1], S[N], F, h[N - 1], h[N], y[N - 1], c[N - 1], y[N], c[N])
          BY <1>1, <5>2 DEF Fits, Linked, N
        <5>4. h[N] = h[N - 1] + 1
          BY <4>5, <5>3 DEF Link, IsExecute, IsBody, IsCall, IsPcall
        <5>5. h[N] = Len(F)
          BY <1>1 DEF Fits, Last, N
        <5>6. h[p + 1] <= h[N - 1] /\ h[N - 1] \in Nat
          BY <1>1, <1>3, <3>2, <5>2 DEF Fits, Grows, N
        <5> QED BY <1>2, <4>5, <5>4, <5>5, <5>6
      <4> QED BY <4>3, <4>4, <4>5 DEF N
    <3> QED BY <1>2, <3>3, <3>4, <3>6, <3>7, LinkStays
  <2>4. Guarded(S, G, h)
    BY <1>1, <1>2 DEF Fits, Guarded
  <2> QED BY <1>1, <2>1, <2>2, <2>3, <2>4 DEF Fits
<1> QED BY <1>6 DEF PartOK

\* Lua functions that the innermost luaV_execute calls, or that return to it.
LEMMA Reenter ==
  ASSUME NEW t, NEW S \in Seq(EntrySet), NEW F \in Seq(FrameSet), NEW n, NEW m,
         NEW h, NEW y, NEW c, Fits(t, S, F, n, m, h, y, c),
         Len(S) >= 2, S[Len(S)].op = "execute", NEW G \in Seq(FrameSet), h[Len(S) - 1] < Len(G),
         \A k \in 1..Len(F) : k <= Len(G) => G[k] = F[k],
         \A k \in h[Len(S) - 1] + 2 .. Len(G) : G[k].reentry,
         \A k \in 1 .. Len(G) - 1 : k < Len(F) \/ Unrollable(G[k])
  PROVE  PartOK(t, S, G, n, m)
<1> DEFINE N == Len(S)
           H == [p \in 1..N |-> IF p = N THEN Len(G) ELSE h[p]]
<1>1. /\ N \in Nat \ {0} /\ Len(F) \in Nat /\ n \in Nat /\ m \in Ushort
      /\ \A p \in 1..N : h[p] \in Nat /\ y[p] \in Nat /\ c[p] \in Ushort /\ h[p] <= Len(F)
      /\ h[N] = Len(F) /\ y[N] = n /\ c[N] = m
  <2>1. N \in Nat \ {0} /\ Len(F) \in Nat /\ n \in Nat /\ m \in Ushort
    BY FitsTypes
  <2>2. \A p \in 1..N : h[p] \in Nat /\ y[p] \in Nat /\ c[p] \in Ushort /\ h[p] <= Len(F)
    BY FitsTypes
  <2> QED BY <2>1, <2>2 DEF Fits, Last
<1>2. Len(G) \in Nat /\ N >= 2 /\ S[N].op = "execute"
  BY LenProperties
<1>3. 1 \in 1..N /\ N \in 1..N /\ N - 1 \in 1..N /\ N - 1 \in 1 .. N - 1 /\ N - 1 + 1 = N /\ 1 # N
      /\ \A p \in 1..N : p = N \/ (p # N /\ p <= N - 1)
  BY <1>1, <1>2
<1>4. h[N - 1] \in Nat /\ h[N - 1] < Len(G)
  BY <1>1, <1>3 DEF N
<1> HIDE DEF N
<1>5. H[N] = Len(G) /\ \A p \in 1..N : p # N => H[p] = h[p]
  BY <1>3
<1>6. H \in [1..N -> Nat]
  BY <1>1, <1>2
<1> HIDE DEF H
<1>7. \A p \in 1..N : p # N => h[p] <= h[N - 1]
  BY <1>1, <1>3 DEF Fits, Grows, N
<1>8. IsExecute(S[N - 1], S[N], F, h[N - 1], h[N]) /\ y[N] = y[N - 1] /\ c[N] = c[N - 1]
  <2>1. Link(S[N - 1], S[N], F, h[N - 1], h[N], y[N - 1], c[N - 1], y[N], c[N])
    BY <1>3 DEF Fits, Linked, N
  <2> QED BY <1>2, <2>1 DEF Link, IsBody, IsCall, IsPcall
<1>9. Fits(t, S, G, n, m, H, y, c)
  <2>1. Bottom(t, S, G, H, y)
    <3>1. Bottom(t, S, F, h, y)
      BY DEF Fits
    <3>2. G # <<>>
      BY <1>2, <1>4, EmptySeq
    <3> QED BY <1>3, <1>5, <3>1, <3>2 DEF Bottom
  <2>2. Last(S, G, n, m, H, y, c)
    BY <1>1, <1>5 DEF Last, N
  <2>3. Grows(S, H, y)
    <3>1. \A p, q \in 1..N : p <= q => h[p] <= h[q] /\ y[p] <= y[q]
      BY DEF Fits, Grows, N
    <3>2. \A p \in 1..N : p # N => h[p] \in Nat /\ h[p] <= Len(G)
      BY <1>1, <1>2, <1>4, <1>7
    <3>3. SUFFICES ASSUME NEW p \in 1..N, NEW q \in 1..N, p <= q PROVE H[p] <= H[q]
      BY <3>1 DEF Grows, N
    <3>4. CASE q = N
      BY <1>2, <1>5, <3>2, <3>4
    <3>5. CASE q # N
      <4>1. p # N
        BY <1>1, <3>3, <3>5
      <4> QED BY <1>5, <3>1, <3>3, <3>5, <4>1
    <3> QED BY <3>4, <3>5
  <2>4. Linked(S, G, H, y, c)
    <3>1. SUFFICES ASSUME NEW p \in 1 .. N - 1
                   PROVE Link(S[p], S[p + 1], G, H[p], H[p + 1], y[p], c[p], y[p + 1], c[p + 1])
      BY DEF Linked, N
    <3>2. p \in 1..N /\ p + 1 \in 1..N /\ p <= p + 1 /\ p # N
      BY <1>1, <3>1
    <3>3. CASE p + 1 = N
      <4>1. p = N - 1
        BY <1>1, <3>2, <3>3
      <4>2. h[N - 1] + 1 \in 1..Len(F) /\ h[N - 1] + 1 <= Len(G)
        BY <1>1, <1>2, <1>3, <1>4, <1>8 DEF IsExecute
      <4>3. G[h[N - 1] + 1] = F[h[N - 1] + 1]
        BY <4>2
      <4>4. IsExecute(S[N - 1], S[N], G, h[N - 1], Len(G))
        <5>1. \A k \in h[N - 1] + 2 .. Len(G) : G[k].reentry
          BY DEF N
        <5> QED BY <1>2, <1>4, <1>8, <4>3, <5>1 DEF IsExecute
      <4> QED BY <1>3, <1>5, <1>8, <3>2, <3>3, <4>1, <4>4 DEF Link
    <3>4. CASE p + 1 # N
      <4>1. Link(S[p], S[p + 1], F, h[p], h[p + 1], y[p], c[p], y[p + 1], c[p + 1])
        BY <3>1 DEF Fits, Linked, N
      <4>2. h[p] <= h[p + 1] /\ h[p + 1] <= h[N - 1] /\ h[p] \in Nat /\ h[p + 1] \in Nat /\ h[p + 1] <= Len(F)
        BY <1>1, <1>7, <3>2, <3>4 DEF Fits, Grows, N
      <4>3. h[p + 1] <= Len(G) /\ \A k \in 1..h[p + 1] : k \in 1..Len(F) /\ k <= Len(G)
        BY <1>1, <1>2, <1>4, <4>2
      <4>4. \A k \in 1..h[p + 1] : G[k] = F[k]
        BY <4>3
      <4>5. Alike(F, G, h[p + 1])
        BY <4>4 DEF Alike
      <4>6. S[p + 1].op = "pcall" => ~G[h[p + 1]].ypcall
        <5>1. S[p + 1].op = "pcall" => IsPcall(S[p], S[p + 1], F, h[p], h[p + 1], y[p], c[p])
          BY <4>1 DEF Link, IsExecute, IsBody, IsCall
        <5>2. S[p + 1].op = "pcall" => ~F[h[p + 1]].ypcall /\ h[p + 1] \in 1..h[p + 1]
          BY <4>2, <5>1 DEF IsPcall
        <5> QED BY <4>4, <5>2
      <4>7. Link(S[p], S[p + 1], G, h[p], h[p + 1], y[p], c[p], y[p + 1], c[p + 1])
        BY <4>1, <4>2, <4>3, <4>5, <4>6, LinkStays
      <4> QED BY <1>5, <3>2, <3>4, <4>7
    <3> QED BY <3>3, <3>4
  <2>5. Guarded(S, G, H)
    <3>1. SUFFICES ASSUME NEW k \in 1 .. Len(G) - 1, ~Unrollable(G[k])
                   PROVE \E p \in 2..N : S[p].op = "call" /\ S[p].noyield /\ H[p] = k
      BY DEF Guarded, N
    <3>2. k < Len(F) /\ k <= Len(G) /\ k \in 1..Len(F) /\ k \in 1 .. Len(F) - 1
      BY <1>1, <1>2, <3>1
    <3>3. G[k] = F[k]
      BY <3>2
    <3>4. \E p \in 2..N : S[p].op = "call" /\ S[p].noyield /\ h[p] = k
      BY <3>1, <3>2, <3>3 DEF Fits, Guarded, N
    <3>5. \A p \in 2..N : p \in 1..N
      BY <1>1
    <3> QED BY <1>2, <1>5, <3>4, <3>5
  <2> QED BY <1>6, <2>1, <2>2, <2>3, <2>4, <2>5 DEF Fits, N
<1> QED BY <1>6, <1>9 DEF PartOK, Fits, N

\* A coroutine that is about to begin, and one that goes on in unroll.
LEMMA Fresh ==
  ASSUME NEW t, t # Main, NEW r \in EntrySet, r.op = "resume", NEW m \in Ushort
  PROVE  PartOK(t, <<r>>, <<>>, 0, m)
<1> DEFINE S == <<r>>
           h == [p \in 1..1 |-> 0]
           c == [p \in 1..1 |-> m]
<1>1. Len(S) = 1 /\ S[1] = r /\ S # <<>> /\ Len(<<>>) = 0
  OBVIOUS
<1>2. h \in [1..1 -> Nat] /\ c \in [1..1 -> Ushort] /\ h[1] = 0 /\ c[1] = m /\ \A p \in 1..1 : p = 1
  OBVIOUS
<1> HIDE DEF S, h, c
<1>3. Base(t) = 0
  BY DEF Base
<1>4. Bottom(t, S, <<>>, h, h) /\ Last(S, <<>>, 0, m, h, h, c)
  BY <1>1, <1>2, <1>3 DEF Bottom, Last
<1>5. Grows(S, h, h) /\ Linked(S, <<>>, h, h, c) /\ Guarded(S, <<>>, h) /\ Counted(t, S, h, c)
  <2>1. Grows(S, h, h)
    BY <1>1, <1>2 DEF Grows
  <2>2. 1 .. 1 - 1 = {} /\ 1 .. 0 - 1 = {}
    OBVIOUS
  <2>3. Linked(S, <<>>, h, h, c)
    BY <1>1, <2>2 DEF Linked
  <2>4. Guarded(S, <<>>, h)
    BY <1>1, <2>2 DEF Guarded
  <2>5. Counted(t, S, h, c)
    BY <1>1, <1>2, <1>3 DEF Counted
  <2> QED BY <2>1, <2>3, <2>4, <2>5
<1> QED BY <1>1, <1>2, <1>4, <1>5 DEF PartOK, Fits, S

LEMMA Unrolled ==
  ASSUME NEW t, t # Main, NEW r \in EntrySet, r.op = "resume", NEW m \in Ushort,
         NEW F \in Seq(FrameSet), \A k \in 1 .. Len(F) - 1 : Unrollable(F[k])
  PROVE  PartOK(t, <<r, Unroll>>, F, 0, m)
<1>1. <<r>> \in Seq(EntrySet) /\ Len(<<r>>) = 1 /\ <<r>>[1] = r /\ Append(<<r>>, Unroll) = <<r, Unroll>>
  <2>1. <<r>> \in Seq(EntrySet)
    OBVIOUS
  <2>2. Len(<<r>>) = 1 /\ <<r>>[1] = r
    OBVIOUS
  <2>3. Append(<<r>>, Unroll) = <<r, Unroll>>
    <3> DEFINE s == Append(<<r>>, Unroll)
               u == <<r, Unroll>>
    <3>1. Unroll \in EntrySet
      BY DEF Unroll, EntrySet
    <3>2. s \in Seq(EntrySet) /\ Len(s) = 2 /\ s[1] = r /\ s[2] = Unroll
      <4>1. s \in Seq(EntrySet) /\ Len(s) = Len(<<r>>) + 1
        BY <2>1, <3>1, AppendIs
      <4>2. s[Len(<<r>>) + 1] = Unroll /\ \A i \in 1..Len(<<r>>) : s[i] = <<r>>[i]
        BY <2>1, <3>1, AppendIs
      <4> QED BY <2>2, <4>1, <4>2
    <3>3. u \in Seq(EntrySet) /\ Len(u) = 2 /\ u[1] = r /\ u[2] = Unroll
      BY <3>1
    <3> HIDE DEF s, u
    <3>4. \A i \in 1..2 : i = 1 \/ i = 2
      OBVIOUS
    <3>5. s = u
      BY <3>2, <3>3, <3>4, SeqEqual
    <3> QED BY <3>5 DEF s, u
  <2> QED BY <2>1, <2>2, <2>3
<1>2. <<>> \in Seq(FrameSet) /\ Len(<<>>) = 0 /\ Len(F) \in Nat
  BY LenProperties
<1>3. Unroll \in EntrySet /\ Unroll.op = "unroll"
  BY DEF Unroll, EntrySet
<1>4. PartOK(t, <<r>>, <<>>, 0, m)
  BY Fresh
<1>5. Link(r, Unroll, F, 0, Len(F), 0, m, 0, m)
  BY <1>3 DEF Link
<1>6. Base(t) = 0
  BY DEF Base
<1>7. \A k \in 1..0 : F[k] = <<>>[k]
  OBVIOUS
<1> DEFINE S == <<r>>
           E == <<>>
<1>8. S \in Seq(EntrySet) /\ E \in Seq(FrameSet) /\ Len(S) = 1 /\ S[Len(S)] = r /\ Len(E) = 0
  BY <1>1, <1>2
<1>9. PartOK(t, S, E, 0, m) /\ Append(S, Unroll) = <<r, Unroll>> /\ \A k \in 1..Len(E) : F[k] = E[k]
  BY <1>1, <1>2, <1>4, <1>7
<1> HIDE DEF S, E
<1>10. PartOK(t, Append(S, Unroll), F, 0, m)
  <2>1. Len(E) <= Len(F) /\ 0 <= 0 /\ 0 \in Nat
    BY <1>2, <1>8
  <2>2. Link(S[Len(S)], Unroll, F, Len(E), Len(F), 0, m, 0, m)
    BY <1>5, <1>8
  <2> QED BY <1>3, <1>6, <1>8, <1>9, <2>1, <2>2, Push
<1> QED BY <1>9, <1>10

\* The main thread, in the caller of lua_pcall.
LEMMA HostStarts ==
  ASSUME NEW F \in Seq(FrameSet), Len(F) = 1
  PROVE  PartOK(Main, <<Body>>, F, 1, 0)
<1> DEFINE S == <<Body>>
           h == [p \in 1..1 |-> 1]
           c == [p \in 1..1 |-> 0]
<1>1. Len(S) = 1 /\ S[1].op = "body" /\ S # <<>> /\ F # <<>>
  BY EmptySeq DEF Body
<1>2. /\ h \in [1..1 -> Nat] /\ c \in [1..1 -> Ushort] /\ h[1] = 1 /\ c[1] = 0 /\ \A p \in 1..1 : p = 1
  BY DEF Ushort
<1> HIDE DEF S, h, c
<1>3. Base(Main) = 1
  BY DEF Base
<1>4. Bottom(Main, S, F, h, h) /\ Last(S, F, 1, 0, h, h, c)
  BY <1>1, <1>2, <1>3 DEF Bottom, Last
<1>5. Grows(S, h, h) /\ Linked(S, F, h, h, c) /\ Guarded(S, F, h) /\ Counted(Main, S, h, c)
  <2>1. Grows(S, h, h)
    BY <1>1, <1>2 DEF Grows
  <2>2. 1 .. 1 - 1 = {}
    OBVIOUS
  <2>3. Linked(S, F, h, h, c)
    BY <1>1, <2>2 DEF Linked
  <2>4. Guarded(S, F, h)
    BY <2>2 DEF Guarded
  <2>5. Counted(Main, S, h, c)
    BY <1>1, <1>2, <1>3 DEF Counted
  <2> QED BY <2>1, <2>3, <2>4, <2>5
<1> QED BY <1>1, <1>2, <1>4, <1>5 DEF PartOK, Fits, S

-----------------------------------------------------------------------------
(* What errors and yields find.                                             *)

\* A yield is possible: then there is nothing that could not be gone on with.
LEMMA Quiet ==
  ASSUME NEW t, NEW S \in Seq(EntrySet), NEW F \in Seq(FrameSet), NEW m, PartOK(t, S, F, 0, m)
  PROVE  /\ t # Main /\ S[1].op = "resume"
         /\ \A k \in 1 .. Len(F) - 1 : Unrollable(F[k])
         /\ \A p \in 1 .. Len(S) : ~IsTry(S[p]) \/ p = 1 \/ p = Len(S)
<1>1. PICK h \in [1..Len(S) -> Nat], y \in [1..Len(S) -> Nat], c \in [1..Len(S) -> Ushort] :
          Fits(t, S, F, 0, m, h, y, c)
  BY DEF PartOK
<1>2. t # Main /\ S[1].op = "resume"
  <2>1. Base(t) <= 0 /\ IF t = Main THEN S[1].op = "body" ELSE S[1].op = "resume"
    BY PartTypes
  <2> QED BY <2>1 DEF Base
<1>3. Len(S) \in Nat \ {0} /\ \A p \in 1..Len(S) : y[p] \in Nat /\ y[p] <= 0
  <2>1. Len(S) \in Nat \ {0}
    BY <1>1, FitsTypes
  <2>2. \A p \in 1..Len(S) : y[p] \in Nat /\ y[p] <= 0
    BY <1>1, FitsTypes
  <2> QED BY <2>1, <2>2
<1>4. ASSUME NEW p \in 2..Len(S) PROVE ~(S[p].op = "call" /\ S[p].noyield)
  <2>1. Link(S[p - 1], S[p], F, h[p - 1], h[p], y[p - 1], c[p - 1], y[p], c[p])
    BY <1>1, FitsOps
  <2>2. p \in 1..Len(S) /\ p - 1 \in 1..Len(S)
    BY <1>3
  <2>3. y[p] = 0 /\ y[p - 1] = 0
    BY <1>3, <2>2
  <2> QED BY <2>1, <2>3 DEF Link, IsExecute, IsBody, IsPcall
<1>5. \A k \in 1 .. Len(F) - 1 : Unrollable(F[k])
  BY <1>1, <1>4 DEF Fits, Guarded
<1>6. ASSUME NEW p \in 1 .. Len(S), p # 1, p # Len(S) PROVE ~IsTry(S[p])
  <2>1. p \in 2..Len(S) /\ p + 1 \in 2..Len(S) /\ p + 1 - 1 = p
    BY <1>3, <1>6
  <2>2. Link(S[p], S[p + 1], F, h[p], h[p + 1], y[p], c[p], y[p + 1], c[p + 1])
    <3>1. p \in 1 .. Len(S) - 1
      BY <1>3, <1>6
    <3> QED BY <1>1, <3>1, FitsOps
  <2>3. S[p].op # "resume"
    BY <1>1, <2>1, FitsOps
  <2>4. ~(S[p + 1].op = "call" /\ S[p + 1].noyield)
    BY <1>4, <2>1
  <2> QED BY <2>2, <2>3, <2>4 DEF IsTry, Link, IsExecute, IsBody, IsCall, IsPcall, FromExecute
<1> QED BY <1>2, <1>5, <1>6

\* The innermost protected call, or lua_resume, of the C stack of a thread.
Innermost_(S, i) ==
  i \in 1..Len(S) /\ IsTry(S[i]) /\ \A j \in i + 1 .. Len(S) : ~IsTry(S[j])

LEMMA TryFound ==
  ASSUME NEW S \in Seq(EntrySet), S = Active, NEW k \in 1..Len(S), IsTry(S[k])
  PROVE  Innermost_(S, InnermostTry)
<1> DEFINE T == {i \in 1..Len(S) : IsTry(S[i])}
<1>1. Len(S) \in Nat
  BY LenProperties
<1>2. T \subseteq 1..Len(S) /\ T # {}
  OBVIOUS
<1>3. PICK i \in T : \A j \in T : j <= i
  BY <1>1, <1>2, Greatest
<1>4. i \in 1..Len(S) /\ IsTry(S[i]) /\ \A j \in i + 1 .. Len(S) : ~IsTry(S[j])
  <2>1. ASSUME NEW j \in i + 1 .. Len(S) PROVE ~IsTry(S[j])
    <3>1. j \in 1..Len(S) /\ ~(j <= i)
      BY <1>1
    <3> QED BY <1>3, <3>1
  <2> QED BY <2>1
<1>5. DOMAIN Active = 1..Len(S)
  BY LenProperties
<1> HIDE DEF T
<1> QED BY <1>4, <1>5 DEF InnermostTry, Innermost_

\* A thread that runs Lua code, or a C function of its own, is below some protection.
LEMMA TryExists ==
  ASSUME NEW t, NEW S \in Seq(EntrySet), NEW F \in Seq(FrameSet), NEW n, NEW m,
         PartOK(t, S, F, n, m), FramesOK(t, F),
         t = Main => S[Len(S)].op # "body" \/ F[Len(F)].what # "host"
  PROVE  \E k \in 1..Len(S) : IsTry(S[k])
<1>1. PICK h \in [1..Len(S) -> Nat], y \in [1..Len(S) -> Nat], c \in [1..Len(S) -> Ushort] :
          Fits(t, S, F, n, m, h, y, c)
  BY DEF PartOK
<1>2. /\ Len(S) \in Nat \ {0} /\ Len(F) \in Nat
      /\ IF t = Main THEN S[1].op = "body" /\ F # <<>> ELSE S[1].op = "resume"
  BY PartTypes
<1>3. CASE t # Main
  <2>1. 1 \in 1..Len(S) /\ IsTry(S[1])
    BY <1>2, <1>3 DEF IsTry
  <2> QED BY <2>1
<1>4. CASE t = Main
  <2>1. h[1] = 1 /\ S[1].op = "body" /\ h[Len(S)] = Len(F)
    BY <1>1, <1>2, <1>4 DEF Fits, Bottom, Last, Base
  <2>2. 1 \in 1..Len(F)
    BY <1>2, <1>4, EmptySeq
  <2>3. F[1].what = "host"
    BY <1>4, <2>2 DEF FramesOK, FrameOK
  <2>4. 2 \in 2..Len(S) /\ 2 \in 1..Len(S)
    <3>1. Len(S) # 1
      BY <1>4, <2>1, <2>3
    <3>2. Len(S) \in Nat \ {0}
      BY <1>2
    <3> QED BY <3>1, <3>2, Ranges
  <2>5. Link(S[1], S[2], F, h[1], h[2], y[1], c[1], y[2], c[2])
    <3>1. Link(S[2 - 1], S[2], F, h[2 - 1], h[2], y[2 - 1], c[2 - 1], y[2], c[2])
      BY <1>1, <2>4, FitsOps
    <3>2. 2 - 1 = 1
      OBVIOUS
    <3> QED BY <3>1, <3>2
  <2>6. S[2].op = "pcall"
    BY <2>1, <2>3, <2>5 DEF Link, IsExecute, IsBody, IsCall, IsPcall, FromExecute
  <2> QED BY <2>4, <2>6 DEF IsTry
<1> QED BY <1>3, <1>4

\* A call of pcall that has not lost its C calls is on the C stack.
LEMMA Unprotected ==
  ASSUME NEW t, NEW S \in Seq(EntrySet), NEW F \in Seq(FrameSet), NEW n, NEW m, NEW h, NEW y, NEW c,
         Fits(t, S, F, n, m, h, y, c), NEW k \in 1 .. Len(F) - 1, F[k].what = "pcall", ~F[k].ypcall
  PROVE  \E p \in 2..Len(S) : S[p].op = "pcall" /\ h[p] = k
<1>1. Len(S) \in Nat \ {0} /\ S[1].op \in {"body", "resume"}
  <2>1. Len(S) \in Nat \ {0}
    BY FitsTypes
  <2> QED BY <2>1 DEF Fits, Bottom
<1>2. PICK p \in 2..Len(S) : S[p].op = "call" /\ S[p].noyield /\ h[p] = k
  BY DEF Fits, Guarded, Unrollable
<1>3. Link(S[p - 1], S[p], F, h[p - 1], h[p], y[p - 1], c[p - 1], y[p], c[p])
  BY FitsOps
<1>4. S[p - 1].op = "pcall" /\ h[p - 1] = k
  BY <1>2, <1>3 DEF Link, IsExecute, IsBody, IsCall, IsPcall
<1>5. p - 1 \in 2..Len(S)
  <2>1. p - 1 # 1
    BY <1>1, <1>4
  <2> QED BY <1>1, <2>1
<1> QED BY <1>4, <1>5

\* luaD_pcall finds the frames, nny and nCcalls that there were when it was called.
LEMMA Caught ==
  ASSUME NEW t, NEW S \in Seq(EntrySet), NEW F \in Seq(FrameSet), NEW n, NEW m,
         PartOK(t, S, F, n, m), FramesOK(t, F), NEW i, Innermost_(S, i), S[i].op = "pcall"
  PROVE  /\ S[i].frames \in 1..Len(F) /\ F[S[i].frames].what \in {"pcall", "host"}
         /\ i - 1 \in 1..Len(S) /\ i \in 1..Len(S)
         /\ PartOK(t, Cut(S, i - 1), Cut(F, S[i].frames), S[i].nny, S[i].nCcalls)
         /\ \A k \in S[i].frames + 1 .. Len(F) - 1 : F[k].what \notin {"pcall", "host"}
<1>1. PICK h \in [1..Len(S) -> Nat], y \in [1..Len(S) -> Nat], c \in [1..Len(S) -> Ushort] :
          Fits(t, S, F, n, m, h, y, c)
  BY DEF PartOK
<1>2. /\ Len(S) \in Nat \ {0} /\ Len(F) \in Nat
      /\ IF t = Main THEN S[1].op = "body" /\ F # <<>> ELSE S[1].op = "resume"
  BY PartTypes
<1>3. i \in 2..Len(S) /\ i - 1 \in 1..Len(S) /\ i \in 1..Len(S)
  <2>1. i \in 1..Len(S) /\ i # 1
    BY <1>2 DEF Innermost_
  <2> QED BY <1>2, <2>1
<1>4. \A p \in 1..Len(S) : h[p] \in Nat /\ h[p] <= Len(F)
  BY <1>1, FitsTypes
<1>5. Link(S[i - 1], S[i], F, h[i - 1], h[i], y[i - 1], c[i - 1], y[i], c[i])
  BY <1>1, <1>3, FitsOps
<1>6. IsPcall(S[i - 1], S[i], F, h[i - 1], h[i], y[i - 1], c[i - 1])
  BY <1>5 DEF Link, IsExecute, IsBody, IsCall
<1> DEFINE j == S[i].frames
<1>7. j = h[i] /\ j = h[i - 1] /\ j \in 1..Len(F) /\ F[j].what \in {"pcall", "host"} /\ ~F[j].ypcall
  BY <1>2, <1>3, <1>4, <1>6 DEF IsPcall
<1> HIDE DEF j
<1>8. PartOK(t, Cut(S, i - 1), Cut(F, j), S[i].nny, S[i].nCcalls)
  <2>1. PartOK(t, Cut(S, i - 1), Cut(F, h[i - 1]), y[i - 1], c[i - 1])
    BY <1>1, <1>3, Shorter
  <2>2. S[i].nny = y[i - 1] /\ S[i].nCcalls = c[i - 1]
    BY <1>6 DEF IsPcall
  <2> QED BY <1>7, <2>1, <2>2
<1>9. ASSUME NEW k \in j + 1 .. Len(F) - 1 PROVE F[k].what \notin {"pcall", "host"}
  <2>1. k \in 1 .. Len(F) - 1 /\ k \in 1..Len(F) /\ j < k /\ j \in 1 .. k - 1 /\ k # 1
    BY <1>2, <1>7
  <2>2. FrameOK(t, F, k)
    BY <2>1 DEF FramesOK
  <2>3. F[k].what # "host"
    BY <2>1, <2>2 DEF FrameOK
  <2>4. ~F[k].ypcall
    <3>1. ~Unrollable(F[j])
      BY <1>7 DEF Unrollable
    <3> QED BY <2>1, <2>2, <3>1 DEF FrameOK
  <2>5. ASSUME F[k].what = "pcall" PROVE FALSE
    <3>1. PICK p \in 2..Len(S) : S[p].op = "pcall" /\ h[p] = k
      BY <1>1, <2>1, <2>4, <2>5, Unprotected
    <3>2. p \in 1..Len(S)
      BY <1>2
    <3>3. ~(p <= i)
      <4>1. p <= i => h[p] <= h[i]
        BY <1>1, <1>3, <3>2 DEF Fits, Grows
      <4> QED BY <1>3, <1>4, <1>7, <2>1, <3>1, <3>2, <4>1
    <3>4. p \in i + 1 .. Len(S)
      BY <1>2, <1>3, <3>2, <3>3
    <3> QED BY <3>1, <3>4 DEF Innermost_, IsTry
  <2> QED BY <2>3, <2>5
<1> QED BY <1>3, <1>7, <1>8, <1>9 DEF j

\* An error that arrives at lua_resume: only calls of pcall that lost their C calls are left.
LEMMA Uncaught ==
  ASSUME NEW t, NEW S \in Seq(EntrySet), NEW F \in Seq(FrameSet), NEW n, NEW m,
         PartOK(t, S, F, n, m), FramesOK(t, F), NEW i, Innermost_(S, i), S[i].op = "resume"
  PROVE  /\ i = 1 /\ t # Main
         /\ \A k \in 1 .. Len(F) - 1 : F[k].what = "pcall" => F[k].ypcall
         /\ \A k \in 1 .. Len(F) : F[k].what # "host"
<1>1. PICK h \in [1..Len(S) -> Nat], y \in [1..Len(S) -> Nat], c \in [1..Len(S) -> Ushort] :
          Fits(t, S, F, n, m, h, y, c)
  BY DEF PartOK
<1>2. /\ Len(S) \in Nat \ {0}
      /\ IF t = Main THEN S[1].op = "body" /\ F # <<>> ELSE S[1].op = "resume"
  BY PartTypes
<1>3. \A p \in 2..Len(S) : S[p].op # "resume"
  BY <1>1, FitsOps
<1>4. i = 1
  <2>1. i \in 1..Len(S) /\ ~(i \in 2..Len(S))
    BY <1>3 DEF Innermost_
  <2> QED BY <1>2, <2>1
<1>5. t # Main
  BY <1>2, <1>4
<1>6. ASSUME NEW k \in 1 .. Len(F) - 1, F[k].what = "pcall", ~F[k].ypcall PROVE FALSE
  <2>1. PICK p \in 2..Len(S) : S[p].op = "pcall"
    BY <1>1, <1>6, Unprotected
  <2>2. p \in i + 1 .. Len(S)
    BY <1>4
  <2> QED BY <2>1, <2>2 DEF Innermost_, IsTry
<1>7. \A k \in 1 .. Len(F) : F[k].what # "host"
  BY <1>5 DEF FramesOK, FrameOK
<1> QED BY <1>4, <1>5, <1>6, <1>7

-----------------------------------------------------------------------------
(* What a return leaves.                                                    *)

LEMMA CutAll ==
  ASSUME NEW S, NEW s \in Seq(S)
  PROVE  Cut(s, Len(s)) = s
<1>1. Len(s) \in Nat /\ Len(s) <= Len(s)
  BY LenProperties
<1>2. Cut(s, Len(s)) \in Seq(S) /\ Len(Cut(s, Len(s))) = Len(s) /\ \A i \in 1..Len(s) : Cut(s, Len(s))[i] = s[i]
  BY <1>1, CutIs
<1> DEFINE u == Cut(s, Len(s))
<1>3. u \in Seq(S) /\ Len(u) = Len(s) /\ \A i \in 1..Len(s) : u[i] = s[i]
  BY <1>2
<1> HIDE DEF u
<1>4. u = s
  BY <1>3, SeqEqual
<1> QED BY <1>4 DEF u

LEMMA AboveFirst ==
  ASSUME NEW t, NEW S \in Seq(EntrySet), NEW F \in Seq(FrameSet), NEW n, NEW m,
         PartOK(t, S, F, n, m), FramesOK(t, F), S[Len(S)].op # "resume",
         S[Len(S)].op # "body" \/ F[Len(F)].what # "host"
  PROVE  Len(S) \in 2..Len(S) /\ Len(S) - 1 \in 1..Len(S) /\ Len(S) \in 1..Len(S)
<1>1. PICK h \in [1..Len(S) -> Nat], y \in [1..Len(S) -> Nat], c \in [1..Len(S) -> Ushort] :
          Fits(t, S, F, n, m, h, y, c)
  BY DEF PartOK
<1>2. /\ Len(S) \in Nat \ {0} /\ Len(F) \in Nat
      /\ IF t = Main THEN S[1].op = "body" /\ F # <<>> ELSE S[1].op = "resume"
  BY PartTypes
<1>3. ASSUME Len(S) = 1 PROVE FALSE
  <2>1. t = Main /\ S[1].op = "body" /\ F[Len(F)].what # "host"
    BY <1>2, <1>3
  <2>2. h[1] = 1 /\ h[1] = Len(F)
    BY <1>1, <1>3, <2>1 DEF Fits, Bottom, Last, Base
  <2>3. 1 \in 1..Len(F)
    BY <2>2
  <2>4. F[1].what = "host"
    BY <2>1, <2>3 DEF FramesOK, FrameOK
  <2> QED BY <2>1, <2>2, <2>4
<1>4. Len(S) \in Nat \ {0} /\ Len(S) # 1
  BY <1>2, <1>3
<1> QED BY <1>4, Ranges

LEMMA LastLink ==
  ASSUME NEW t, NEW S \in Seq(EntrySet), NEW F \in Seq(FrameSet), NEW n, NEW m, NEW h, NEW y, NEW c,
         Fits(t, S, F, n, m, h, y, c), Len(S) >= 2
  PROVE  /\ Link(S[Len(S) - 1], S[Len(S)], F, h[Len(S) - 1], Len(F), y[Len(S) - 1], c[Len(S) - 1], n, m)
         /\ h[Len(S) - 1] \in Nat /\ y[Len(S) - 1] \in Nat /\ c[Len(S) - 1] \in Ushort
         /\ PartOK(t, Cut(S, Len(S) - 1), Cut(F, h[Len(S) - 1]), y[Len(S) - 1], c[Len(S) - 1])
<1>1. Len(S) \in Nat \ {0}
  BY FitsTypes
<1>2. Len(S) \in 2..Len(S) /\ Len(S) - 1 \in 1..Len(S)
  BY <1>1
<1>3. h[Len(S)] = Len(F) /\ y[Len(S)] = n /\ c[Len(S)] = m
  BY DEF Fits, Last
<1>4. Link(S[Len(S) - 1], S[Len(S)], F, h[Len(S) - 1], h[Len(S)], y[Len(S) - 1], c[Len(S) - 1], y[Len(S)], c[Len(S)])
  BY <1>2, FitsOps
<1>5. h[Len(S) - 1] \in Nat /\ y[Len(S) - 1] \in Nat /\ c[Len(S) - 1] \in Ushort
  <2>1. \A p \in 1..Len(S) : h[p] \in Nat /\ y[p] \in Nat /\ c[p] \in Ushort
    BY FitsTypes
  <2> QED BY <1>2, <2>1
<1>6. PartOK(t, Cut(S, Len(S) - 1), Cut(F, h[Len(S) - 1]), y[Len(S) - 1], c[Len(S) - 1])
  BY <1>2, Shorter
<1> QED BY <1>3, <1>4, <1>5, <1>6

\* The end of luaV_execute, and of the body of a C function.
LEMMA PopBody ==
  ASSUME NEW t, NEW S \in Seq(EntrySet), NEW F \in Seq(FrameSet), NEW n, NEW m,
         PartOK(t, S, F, n, m), FramesOK(t, F),
         \/ S[Len(S)].op = "execute" /\ ~F[Len(F)].reentry
         \/ S[Len(S)].op = "body" /\ F[Len(F)].what # "host"
  PROVE  /\ Len(F) - 1 \in Nat /\ Len(S) - 1 \in Nat
         /\ PartOK(t, Cut(S, Len(S) - 1), Cut(F, Len(F) - 1), n, m)
<1>1. PICK h \in [1..Len(S) -> Nat], y \in [1..Len(S) -> Nat], c \in [1..Len(S) -> Ushort] :
          Fits(t, S, F, n, m, h, y, c)
  BY DEF PartOK
<1>2. Len(S) \in Nat \ {0} /\ Len(F) \in Nat
  BY PartTypes
<1>3. Len(S) >= 2 /\ Len(S) - 1 \in Nat
  BY <1>2, AboveFirst
<1> DEFINE i == h[Len(S) - 1]
<1>4. /\ Link(S[Len(S) - 1], S[Len(S)], F, i, Len(F), y[Len(S) - 1], c[Len(S) - 1], n, m)
      /\ i \in Nat /\ PartOK(t, Cut(S, Len(S) - 1), Cut(F, i), y[Len(S) - 1], c[Len(S) - 1])
  BY <1>1, <1>3, LastLink
<1> HIDE DEF i
<1>5. y[Len(S) - 1] = n /\ c[Len(S) - 1] = m
  BY <1>4 DEF Link, IsCall, IsPcall
<1>6. Len(F) = i + 1
  <2>1. CASE S[Len(S)].op = "body"
    BY <1>4, <2>1 DEF Link, IsExecute, IsBody, IsCall, IsPcall
  <2>2. CASE S[Len(S)].op = "execute" /\ ~F[Len(F)].reentry
    <3>1. IsExecute(S[Len(S) - 1], S[Len(S)], F, i, Len(F))
      BY <1>4, <2>2 DEF Link, IsBody, IsCall, IsPcall
    <3>2. ~(Len(F) \in i + 2 .. Len(F)) /\ i < Len(F)
      BY <2>2, <3>1 DEF IsExecute
    <3> QED BY <1>2, <1>4, <3>2
  <2> QED BY <2>1, <2>2
<1>7. Len(F) - 1 = i
  BY <1>4, <1>6
<1> QED BY <1>3, <1>4, <1>5, <1>7

\* The end of luaD_call, with the frame of its caller as it was.
LEMMA PopCall ==
  ASSUME NEW t, NEW S \in Seq(EntrySet), NEW F \in Seq(FrameSet), NEW n \in Ushort, NEW m,
         PartOK(t, S, F, n, m), FramesOK(t, F), S[Len(S)].op = "call"
  PROVE  /\ Len(S) - 1 \in Nat /\ F # <<>>
         /\ PartOK(t, Cut(S, Len(S) - 1), F, IF S[Len(S)].noyield THEN Short(n - 1) ELSE n, Short(m - 1))
<1>1. PICK h \in [1..Len(S) -> Nat], y \in [1..Len(S) -> Nat], c \in [1..Len(S) -> Ushort] :
          Fits(t, S, F, n, m, h, y, c)
  BY DEF PartOK
<1>2. Len(S) \in Nat \ {0} /\ Len(F) \in Nat
  BY PartTypes
<1>3. Len(S) >= 2 /\ Len(S) - 1 \in Nat
  BY <1>2, AboveFirst
<1> DEFINE i == h[Len(S) - 1]
           y1 == y[Len(S) - 1]
           c1 == c[Len(S) - 1]
<1>4. /\ Link(S[Len(S) - 1], S[Len(S)], F, i, Len(F), y1, c1, n, m)
      /\ i \in Nat /\ y1 \in Nat /\ c1 \in Ushort /\ PartOK(t, Cut(S, Len(S) - 1), Cut(F, i), y1, c1)
  BY <1>1, <1>3, LastLink
<1> HIDE DEF i, y1, c1
<1>5. /\ IsCall(S[Len(S) - 1], S[Len(S)], F, i, Len(F))
      /\ n = (IF S[Len(S)].noyield THEN y1 + 1 ELSE y1) /\ m = Short(c1 + 1)
  BY <1>4 DEF Link, IsExecute, IsBody, IsPcall
<1>6. i = Len(F) /\ 1 <= Len(F)
  BY <1>5 DEF IsCall
<1>7. Cut(F, i) = F
  BY <1>6, CutAll
<1>8. F # <<>>
  BY <1>6, EmptySeq
<1>9. Short(m - 1) = c1
  BY <1>4, <1>5, ShortBack
<1>10. (IF S[Len(S)].noyield THEN Short(n - 1) ELSE n) = y1
  <2>1. CASE S[Len(S)].noyield
    <3>1. n - 1 = y1 /\ n - 1 \in Ushort
      BY <1>4, <1>5, <2>1 DEF Ushort
    <3>2. Short(n - 1) = n - 1
      BY <3>1, ShortIs
    <3> QED BY <2>1, <3>1, <3>2
  <2>2. CASE ~S[Len(S)].noyield
    BY <1>5, <2>2
  <2> QED BY <2>1, <2>2
<1> QED BY <1>3, <1>4, <1>7, <1>8, <1>9, <1>10

\* The end of luaD_rawrunprotected.
LEMMA PopTry ==
  ASSUME NEW t, NEW S \in Seq(EntrySet), NEW F \in Seq(FrameSet), NEW n, NEW m,
         PartOK(t, S, F, n, m), FramesOK(t, F), S[Len(S)].op = "pcall"
  PROVE  /\ Len(S) - 1 \in Nat
         /\ PartOK(t, Cut(S, Len(S) - 1), F, n, S[Len(S)].nCcalls)
<1>1. PICK h \in [1..Len(S) -> Nat], y \in [1..Len(S) -> Nat], c \in [1..Len(S) -> Ushort] :
          Fits(t, S, F, n, m, h, y, c)
  BY DEF PartOK
<1>2. Len(S) \in Nat \ {0} /\ Len(F) \in Nat
  BY PartTypes
<1>3. Len(S) >= 2 /\ Len(S) - 1 \in Nat
  BY <1>2, AboveFirst
<1> DEFINE i == h[Len(S) - 1]
           y1 == y[Len(S) - 1]
           c1 == c[Len(S) - 1]
<1>4. /\ Link(S[Len(S) - 1], S[Len(S)], F, i, Len(F), y1, c1, n, m)
      /\ PartOK(t, Cut(S, Len(S) - 1), Cut(F, i), y1, c1)
  BY <1>1, <1>3, LastLink
<1> HIDE DEF i, y1, c1
<1>5. IsPcall(S[Len(S) - 1], S[Len(S)], F, i, Len(F), y1, c1) /\ n = y1
  BY <1>4 DEF Link, IsExecute, IsBody, IsCall
<1>6. i = Len(F) /\ S[Len(S)].nCcalls = c1
  BY <1>5 DEF IsPcall
<1>7. Cut(F, i) = F
  BY <1>6, CutAll
<1> QED BY <1>3, <1>4, <1>5, <1>6, <1>7

-----------------------------------------------------------------------------
(* The frames of a thread: less of them, one more, another one on top.      *)

LEMMA FramesCut ==
  ASSUME NEW t, NEW F \in Seq(FrameSet), FramesOK(t, F), NEW n \in Nat, n <= Len(F)
  PROVE  FramesOK(t, Cut(F, n))
<1> DEFINE G == Cut(F, n)
<1>1. Len(G) = n /\ Len(F) \in Nat /\ \A k \in 1..n : G[k] = F[k]
  BY CutIs, LenProperties
<1> HIDE DEF G
<1>2. SUFFICES ASSUME NEW k \in 1..n PROVE FrameOK(t, G, k)
  BY <1>1 DEF FramesOK, G
<1>3. k \in 1..Len(F) /\ (k > 1 => k - 1 \in 1..n) /\ \A l \in 1 .. k - 1 : l \in 1..n
  BY <1>1
<1>4. FrameOK(t, F, k)
  BY <1>3 DEF FramesOK
<1>5. G[k] = F[k] /\ (k > 1 => G[k - 1] = F[k - 1]) /\ \A l \in 1 .. k - 1 : G[l] = F[l]
  BY <1>1, <1>3
<1>6. k = Len(F) => k = Len(G)
  BY <1>1, <1>3
<1> QED BY <1>4, <1>5, <1>6 DEF FrameOK

LEMMA FramesAppend ==
  ASSUME NEW t, NEW F \in Seq(FrameSet), FramesOK(t, F), NEW f \in FrameSet,
         f.what # "host", ~f.ypcall,
         IF F = <<>> THEN t # Main /\ f.what = "lua" /\ ~f.reentry
         ELSE /\ F[Len(F)].what \notin {"yield", "resume"}
              /\ f.reentry => f.what = "lua" /\ F[Len(F)].what = "lua"
  PROVE  FramesOK(t, Append(F, f))
<1> DEFINE G == Append(F, f)
           N == Len(F)
<1>1. Len(G) = N + 1 /\ N \in Nat /\ G[N + 1] = f /\ \A k \in 1..N : G[k] = F[k]
  BY AppendIs
<1>2. N = 0 <=> F = <<>>
  BY EmptySeq
<1> HIDE DEF G
<1>3. SUFFICES ASSUME NEW k \in 1 .. N + 1 PROVE FrameOK(t, G, k)
  BY <1>1 DEF FramesOK, G
<1>4. CASE k \in 1..N
  <2>1. FrameOK(t, F, k)
    BY <1>4 DEF FramesOK
  <2>2. G[k] = F[k] /\ (k > 1 => G[k - 1] = F[k - 1]) /\ \A l \in 1 .. k - 1 : G[l] = F[l]
    BY <1>1, <1>4
  <2>3. F[k].what \notin {"yield", "resume"}
    <3>1. CASE k = N
      <4>1. F # <<>>
        BY <1>2, <1>4, <3>1
      <4> QED BY <3>1, <4>1
    <3>2. CASE k # N
      BY <2>1, <3>2 DEF FrameOK
    <3> QED BY <3>1, <3>2
  <2> QED BY <2>1, <2>2, <2>3 DEF FrameOK
<1>5. CASE k = N + 1
  <2>1. G[k] = f /\ k = Len(G)
    BY <1>1, <1>5
  <2>2. CASE F = <<>>
    <3>1. k = 1 /\ t # Main /\ f.what = "lua" /\ ~f.reentry
      BY <1>1, <1>2, <1>5, <2>2
    <3> QED BY <2>1, <3>1 DEF FrameOK
  <2>3. CASE F # <<>>
    <3>1. k > 1 /\ k - 1 = N /\ N \in 1..N
      BY <1>1, <1>2, <1>5, <2>3
    <3>2. G[k - 1] = F[N]
      BY <1>1, <3>1
    <3>3. f.reentry => f.what = "lua" /\ F[N].what = "lua"
      BY <2>3
    <3> QED BY <2>1, <3>1, <3>2, <3>3 DEF FrameOK
  <2> QED BY <2>2, <2>3
<1> QED BY <1>1, <1>4, <1>5

LEMMA FramesTopped ==
  ASSUME NEW t, NEW F \in Seq(FrameSet), FramesOK(t, F), F # <<>>, NEW f \in FrameSet,
         NEW G, G = [F EXCEPT ![Len(F)] = f],
         f.what = F[Len(F)].what, f.reentry = F[Len(F)].reentry,
         f.ypcall => f.what = "pcall" /\ f.called /\ \A l \in 1 .. Len(F) - 1 : Unrollable(F[l])
  PROVE  FramesOK(t, G)
<1> DEFINE N == Len(F)
<1>1. Len(G) = N /\ N \in Nat \ {0} /\ G[N] = f /\ \A k \in 1 .. N - 1 : G[k] = F[k]
  BY ToppedIs
<1>2. SUFFICES ASSUME NEW k \in 1..N PROVE FrameOK(t, G, k)
  BY <1>1 DEF FramesOK
<1>3. FrameOK(t, F, k)
  BY DEF FramesOK
<1>4. /\ k > 1 => k - 1 \in 1 .. N - 1
      /\ \A l \in 1 .. k - 1 : l \in 1 .. N - 1
  BY <1>1
<1>5. (k > 1 => G[k - 1] = F[k - 1]) /\ \A l \in 1 .. k - 1 : G[l] = F[l]
  BY <1>1, <1>4
<1>6. CASE k = N
  BY <1>1, <1>3, <1>5, <1>6 DEF FrameOK
<1>7. CASE k # N
  <2>1. k \in 1 .. N - 1
    BY <1>1, <1>7
  <2>2. G[k] = F[k]
    BY <1>1, <2>1
  <2> QED BY <1>1, <1>3, <1>5, <2>2 DEF FrameOK
<1> QED BY <1>6, <1>7

-----------------------------------------------------------------------------
(* The frames as the manual sees them.                                      *)

Names == CFunctions \cup {"lua", "host"}

LEMMA AbstractIs ==
  ASSUME NEW F \in Seq(FrameSet)
  PROVE  /\ Len(F) \in Nat /\ Shown(F) \in Nat /\ Shown(F) <= Len(F) /\ Len(F) <= Shown(F) + 1
         /\ Shown(F) = Len(F) - 1 <=> F # <<>> /\ F[Len(F)].what = "yield"
         /\ Abstract(F) \in Seq(Names) /\ Len(Abstract(F)) = Shown(F)
         /\ \A k \in 1..Shown(F) : Abstract(F)[k] = Name(F[k]) /\ k \in 1..Len(F)
<1>1. Len(F) \in Nat /\ (F # <<>> => Len(F) > 0)
  BY EmptySeq, LenProperties
<1>2. Shown(F) \in Nat /\ Shown(F) <= Len(F) /\ Len(F) <= Shown(F) + 1
  BY <1>1 DEF Shown
<1>3. Shown(F) = Len(F) - 1 <=> F # <<>> /\ F[Len(F)].what = "yield"
  BY <1>1 DEF Shown
<1>4. \A k \in 1..Shown(F) : k \in 1..Len(F)
  BY <1>1, <1>2
<1>5. \A k \in 1..Shown(F) : Name(F[k]) \in Names
  <2>1. \A k \in 1..Shown(F) : F[k] \in FrameSet
    BY <1>4, ElementOfSeq
  <2> QED BY <2>1 DEF FrameSet, Names, Name, CFunctions
<1>6. Abstract(F) \in Seq(Names) /\ Len(Abstract(F)) = Shown(F) /\ \A k \in 1..Shown(F) : Abstract(F)[k] = Name(F[k])
  BY <1>2, <1>5 DEF Abstract
<1> QED BY <1>1, <1>2, <1>3, <1>4, <1>6

LEMMA AbstractSame ==
  ASSUME NEW F \in Seq(FrameSet), NEW G \in Seq(FrameSet), Len(G) = Len(F),
         \A k \in 1..Len(F) : G[k].what = F[k].what
  PROVE  Abstract(G) = Abstract(F)
<1>1. Len(F) \in Nat /\ (F # <<>> <=> Len(F) > 0) /\ (G # <<>> <=> Len(G) > 0)
  BY EmptySeq, LenProperties
<1>2. F # <<>> => Len(F) \in 1..Len(F)
  BY <1>1
<1>3. Shown(G) = Shown(F)
  BY <1>1, <1>2 DEF Shown
<1>4. \A k \in 1..Shown(F) : Name(G[k]) = Name(F[k])
  BY AbstractIs DEF Name
<1> QED BY <1>3, <1>4 DEF Abstract

LEMMA AbstractAppend ==
  ASSUME NEW F \in Seq(FrameSet), F # <<>> => F[Len(F)].what # "yield", NEW f \in FrameSet
  PROVE  Abstract(Append(F, f)) = IF f.what = "yield" THEN Abstract(F) ELSE Append(Abstract(F), Name(f))
<1> DEFINE G == Append(F, f)
           N == Len(F)
<1>1. G \in Seq(FrameSet) /\ Len(G) = N + 1 /\ N \in Nat /\ G[N + 1] = f /\ \A k \in 1..N : G[k] = F[k]
  BY AppendIs
<1>2. G # <<>>
  BY <1>1, EmptySeq
<1> HIDE DEF G
<1>3. Shown(F) = N
  BY DEF Shown
<1>4. Shown(G) = IF f.what = "yield" THEN N ELSE N + 1
  BY <1>1, <1>2 DEF Shown
<1>5. CASE f.what = "yield"
  <2>1. \A k \in 1..N : Name(G[k]) = Name(F[k])
    BY <1>1
  <2> QED BY <1>3, <1>4, <1>5, <2>1 DEF Abstract, G
<1>6. CASE f.what # "yield"
  <2> DEFINE A == Abstract(G)
             B == Append(Abstract(F), Name(f))
  <2>1. A \in Seq(Names) /\ Len(A) = N + 1 /\ \A k \in 1 .. N + 1 : A[k] = Name(G[k])
    BY <1>1, <1>4, <1>6, AbstractIs
  <2>2. Name(f) \in Names
    BY DEF FrameSet, Names, Name, CFunctions
  <2>3. Abstract(F) \in Seq(Names) /\ Len(Abstract(F)) = N /\ \A k \in 1..N : Abstract(F)[k] = Name(F[k])
    BY <1>3, AbstractIs
  <2>4. B \in Seq(Names) /\ Len(B) = N + 1 /\ B[N + 1] = Name(f) /\ \A k \in 1..N : B[k] = Abstract(F)[k]
    BY <2>2, <2>3, AppendIs
  <2> HIDE DEF A, B
  <2>5. \A k \in 1 .. N + 1 : A[k] = B[k]
    <3>1. \A k \in 1..N : A[k] = B[k]
      BY <1>1, <2>1, <2>3, <2>4
    <3>2. A[N + 1] = B[N + 1]
      BY <1>1, <2>1, <2>4
    <3> QED BY <1>1, <3>1, <3>2
  <2>6. A = B
    BY <2>1, <2>4, <2>5, SeqEqual
  <2> QED BY <1>6, <2>6 DEF A, B, G
<1> QED BY <1>5, <1>6

LEMMA AbstractCut ==
  ASSUME NEW t, NEW F \in Seq(FrameSet), FramesOK(t, F), NEW n \in Nat, n <= Shown(F)
  PROVE  Abstract(Cut(F, n)) = SubSeq(Abstract(F), 1, n)
<1> DEFINE G == Cut(F, n)
           A == Abstract(G)
           B == SubSeq(Abstract(F), 1, n)
<1>1. /\ Len(F) \in Nat /\ Shown(F) \in Nat /\ Shown(F) <= Len(F)
      /\ Abstract(F) \in Seq(Names) /\ Len(Abstract(F)) = Shown(F)
      /\ \A k \in 1..Shown(F) : Abstract(F)[k] = Name(F[k]) /\ k \in 1..Len(F)
  BY AbstractIs
<1>2. n <= Len(F)
  BY <1>1
<1>3. G \in Seq(FrameSet) /\ Len(G) = n /\ \A k \in 1..n : G[k] = F[k]
  BY <1>2, CutIs
<1>4. B \in Seq(Names) /\ Len(B) = n /\ \A k \in 1..n : B[k] = Abstract(F)[k]
  <2>1. Cut(Abstract(F), n) \in Seq(Names) /\ Len(Cut(Abstract(F), n)) = n
    BY <1>1, CutIs
  <2>2. \A k \in 1..n : Cut(Abstract(F), n)[k] = Abstract(F)[k]
    BY <1>1, CutIs
  <2> QED BY <2>1, <2>2 DEF Cut
<1> HIDE DEF G
<1>5. Shown(G) = n
  <2>1. SUFFICES ASSUME G # <<>> PROVE G[n].what # "yield"
    BY <1>3 DEF Shown
  <2>2. n \in 1..n /\ n \in 1..Len(F)
    BY <1>2, <1>3, <2>1, EmptySeq
  <2>3. ASSUME F[n].what = "yield" PROVE FALSE
    <3>1. n = Len(F)
      BY <2>2, <2>3 DEF FramesOK, FrameOK
    <3>2. F # <<>>
      BY <2>2, <3>1, EmptySeq
    <3>3. Shown(F) = Len(F) - 1
      BY <2>3, <3>1, <3>2 DEF Shown
    <3> QED BY <1>1, <3>1, <3>3
  <2> QED BY <1>3, <2>2, <2>3
<1>6. A \in Seq(Names) /\ Len(A) = n /\ \A k \in 1..n : A[k] = Name(G[k])
  BY <1>3, <1>5, AbstractIs
<1> HIDE DEF A, B
<1>7. \A k \in 1..n : A[k] = B[k]
  <2>1. \A k \in 1..n : k \in 1..Shown(F)
    BY <1>1
  <2> QED BY <1>1, <1>3, <1>4, <1>6, <2>1
<1>8. A = B
  BY <1>4, <1>6, <1>7, SeqEqual
<1> QED BY <1>8 DEF A, B, G

-----------------------------------------------------------------------------
(* The state that an action finds, in terms of the running thread.          *)

LEMMA RunningOK ==
  ASSUME CallsInv, ~confused
  PROVE  /\ chain \in Seq(Threads) /\ Len(chain) \in Nat \ {0} /\ Running \in Threads /\ InChain(Running)
         /\ Active \in Seq(EntrySet) /\ Frames \in Seq(FrameSet)
         /\ nny[Running] \in Ushort /\ nCcalls[Running] \in Ushort
         /\ status[Running] = "ok" /\ ~pending[Running]
         /\ FramesOK(Running, Frames)
         /\ PartOK(Running, Active, Frames, nny[Running], nCcalls[Running])
<1>1. chain \in Seq(Threads) /\ Len(chain) \in Nat \ {0} /\ Len(chain) \in 1..Len(chain)
  BY LenProperties DEF CallsInv, TypeOK
<1>2. Running \in Threads
  BY <1>1, ElementOfSeq DEF Running
<1>3. InChain(Running)
  BY <1>1, LenProperties DEF InChain, Running
<1>4. Runs(Running)
  BY <1>2, <1>3 DEF CallsInv
<1>5. Active \in Seq(EntrySet) /\ Frames \in Seq(FrameSet)
  BY <1>2 DEF CallsInv, TypeOK, Active, Frames
<1>6. nny[Running] \in Ushort /\ nCcalls[Running] \in Ushort
  BY <1>2 DEF CallsInv, TypeOK
<1> QED BY <1>1, <1>2, <1>3, <1>4, <1>5, <1>6 DEF Runs, Active, Frames

\* The value of a variable for the running thread, after the step.
Becomes(v, w, e) == w = [v EXCEPT ![Running] = e] \/ (w = v /\ e = v[Running])

\* What a program sees when the calls of the running thread change from A to B.
Entered(A, B) == A # <<>> /\ \E what \in {"lua", "pcall", "each", "resume"} : B = Append(A, what)
Left(A, B) == Len(A) > Base(Running) /\ B = SubSeq(A, 1, Len(A) - 1)
Arrived(A, B) ==
  \E i \in DOMAIN A : /\ A[i] = "pcall" /\ \A j \in DOMAIN A : A[j] = "pcall" => j <= i
                      /\ B = SubSeq(A, 1, i)
Seen(A, B) == B = A \/ Entered(A, B) \/ Left(A, B) \/ Arrived(A, B)

CallsOf == [t \in Threads |-> IF status[t] = "error" THEN <<>> ELSE Abstract(ci[t])]
StatusOf == [t \in Threads |->
               IF pending[t] THEN "fresh"
               ELSE IF status[t] = "error" \/ (ci[t] = <<>> /\ ~InChain(t)) THEN "dead" ELSE "live"]

LEMMA SeenSteps ==
  ASSUME CallsInv, ~confused, CallsOf' = [CallsOf EXCEPT ![Running] = Abstract(ci'[Running])],
         StatusOf' = StatusOf, chain' = chain, Seen(Abstract(Frames), Abstract(ci'[Running]))
  PROVE  StepsAsCoroutines
<1> DEFINE A == Abstract(Frames)
           B == Abstract(ci'[Running])
<1>1. CallsOf[Running] = A /\ Running \in Threads
  BY RunningOK DEF CallsOf, Frames
<1>2. C!Running = Running /\ C!Stack = A
  BY <1>1 DEF C!Running, Running, C!Stack, CallsOf
<1>3. C!vars = <<CallsOf, chain, StatusOf>> /\ C!vars' = <<CallsOf', chain', StatusOf'>>
  BY DEF C!vars, CallsOf, StatusOf
<1>4. CASE B = A
  <2>1. CallsOf' = CallsOf
    BY <1>1, <1>4 DEF CallsOf
  <2> QED BY <1>3, <2>1 DEF StepsAsCoroutines
<1> HIDE DEF A, B
<1>5. CallsOf' = [CallsOf EXCEPT ![C!Running] = B] /\ CallsOf[C!Running] = A /\ C!Stack = A
  BY <1>1, <1>2 DEF B
<1>6. CASE Entered(A, B)
  <2>1. PICK what \in {"lua", "pcall", "each", "resume"} : B = Append(A, what)
    BY <1>6 DEF Entered
  <2>2. A # <<>>
    BY <1>6 DEF Entered
  <2>3. CallsOf' = [CallsOf EXCEPT ![C!Running] = Append(@, what)]
    BY <1>5, <2>1
  <2>4. C!Enter(what)
    BY <1>5, <2>2, <2>3 DEF C!Enter, CallsOf, StatusOf
  <2> QED BY <2>4 DEF C!Next, StepsAsCoroutines
<1>7. CASE Left(A, B)
  <2>1. CallsOf' = [CallsOf EXCEPT ![C!Running] = SubSeq(@, 1, Len(@) - 1)]
    BY <1>5, <1>7 DEF Left
  <2>2. Len(C!Stack) > IF C!Running = Main THEN 1 ELSE 0
    BY <1>2, <1>5, <1>7 DEF Left, Base
  <2>3. C!Leave
    BY <2>1, <2>2 DEF C!Leave, CallsOf, StatusOf
  <2> QED BY <2>3 DEF C!Next, StepsAsCoroutines
<1>8. CASE Arrived(A, B)
  <2>1. PICK i \in DOMAIN A : /\ A[i] = "pcall" /\ \A j \in DOMAIN A : A[j] = "pcall" => j <= i
                             /\ B = SubSeq(A, 1, i)
    BY <1>8 DEF Arrived
  <2>2. C!Protected = {j \in DOMAIN A : A[j] = "pcall"}
    BY <1>5 DEF C!Protected
  <2>3. i \in C!Protected /\ \A j \in C!Protected : j <= i
    BY <2>1, <2>2
  <2>4. CallsOf' = [CallsOf EXCEPT ![C!Running] = SubSeq(@, 1, i)]
    BY <1>5, <2>1
  <2>5. C!Throw
    BY <2>3, <2>4 DEF C!Throw, CallsOf, StatusOf
  <2> QED BY <2>5 DEF C!Next, StepsAsCoroutines
<1> QED BY <1>4, <1>6, <1>7, <1>8 DEF Seen, A, B

\* A step in which only the part of the running thread changes.
LEMMA Stays ==
  ASSUME CallsInv, ~confused, UNCHANGED <<status, pending, chain, confused>>,
         NEW S \in Seq(EntrySet), NEW F \in Seq(FrameSet), NEW n \in Ushort, NEW m \in Ushort,
         Becomes(cstack, cstack', S), Becomes(ci, ci', F),
         Becomes(nny, nny', n), Becomes(nCcalls, nCcalls', m),
         FramesOK(Running, F), PartOK(Running, S, F, n, m),
         Seen(Abstract(Frames), Abstract(F))
  PROVE  CallsInv' /\ StepsAsCoroutines
<1>1. Running \in Threads /\ InChain(Running) /\ status[Running] = "ok" /\ ~pending[Running]
  BY RunningOK
<1>2. /\ ci \in [Threads -> Seq(FrameSet)] /\ cstack \in [Threads -> Seq(EntrySet)]
      /\ nny \in [Threads -> Ushort] /\ nCcalls \in [Threads -> Ushort]
  BY DEF CallsInv, TypeOK
<1>3. /\ ci' \in [Threads -> Seq(FrameSet)] /\ ci'[Running] = F
      /\ \A u \in Threads : u # Running => ci'[u] = ci[u]
  BY <1>1, <1>2 DEF Becomes
<1>4. /\ cstack' \in [Threads -> Seq(EntrySet)] /\ cstack'[Running] = S
      /\ \A u \in Threads : u # Running => cstack'[u] = cstack[u]
  BY <1>1, <1>2 DEF Becomes
<1>5. /\ nny' \in [Threads -> Ushort] /\ nny'[Running] = n
      /\ \A u \in Threads : u # Running => nny'[u] = nny[u]
  BY <1>1, <1>2 DEF Becomes
<1>6. /\ nCcalls' \in [Threads -> Ushort] /\ nCcalls'[Running] = m
      /\ \A u \in Threads : u # Running => nCcalls'[u] = nCcalls[u]
  BY <1>1, <1>2 DEF Becomes
<1>7. CallsInv'
  <2>1. TypeOK'
    BY <1>3, <1>4, <1>5, <1>6 DEF CallsInv, TypeOK
  <2>2. chain'[1] = Main /\ Distinct'
    BY DEF CallsInv, Distinct
  <2>3. \A u \in Threads : InChain(u)' <=> InChain(u)
    BY DEF InChain
  <2>4. ASSUME NEW u \in Threads PROVE IF InChain(u)' THEN Runs(u)' ELSE Rests(u)'
    <3>1. CASE u = Running
      <4>1. Runs(u)'
        BY <1>1, <1>3, <1>4, <1>5, <1>6, <3>1 DEF Runs
      <4> QED BY <1>1, <2>3, <3>1, <4>1
    <3>2. CASE u # Running
      <4>1. IF InChain(u) THEN Runs(u) ELSE Rests(u)
        BY DEF CallsInv
      <4>2. Runs(u) => Runs(u)'
        BY <1>3, <1>4, <1>5, <1>6, <3>2 DEF Runs
      <4>3. Rests(u) => Rests(u)'
        BY <1>3, <3>2 DEF Rests, Waits
      <4> QED BY <2>3, <4>1, <4>2, <4>3
    <3> QED BY <3>1, <3>2
  <2> QED BY <2>1, <2>2, <2>4 DEF CallsInv
<1>8. StepsAsCoroutines
  <2>1. CallsOf' = [CallsOf EXCEPT ![Running] = Abstract(ci'[Running])]
    <3>1. \A u \in Threads : status'[u] = status[u] /\ (u # Running => ci'[u] = ci[u])
      BY <1>3
    <3> QED BY <1>1, <3>1 DEF CallsOf
  <2>2. StatusOf' = StatusOf
    <3>1. \A u \in Threads : InChain(u)' <=> InChain(u)
      BY DEF InChain
    <3>2. \A u \in Threads : /\ status'[u] = status[u] /\ pending'[u] = pending[u]
                             /\ (ci'[u] = <<>> /\ ~InChain(u)') <=> (ci[u] = <<>> /\ ~InChain(u))
      BY <1>1, <1>3, <3>1
    <3> QED BY <3>2 DEF StatusOf
  <2> QED BY <1>3, <2>1, <2>2, SeenSteps
<1> QED BY <1>7, <1>8

-----------------------------------------------------------------------------
(* Calls.                                                                   *)

LEMMA TopIs ==
  ASSUME NEW t, NEW S \in Seq(EntrySet), NEW F \in Seq(FrameSet), NEW n, NEW m,
         PartOK(t, S, F, n, m), FramesOK(t, F)
  PROVE  /\ S[Len(S)].op = "execute" => Len(S) >= 2 /\ F # <<>> /\ F[Len(F)].what = "lua"
         /\ S[Len(S)].op = "body" => F # <<>> /\ F[Len(F)].what # "lua"
         /\ S[Len(S)].op = "unroll" => t # Main /\ Len(S) = 2 /\ n = 0 /\ S[1].op = "resume"
         /\ S[Len(S)].op = "resume" => t # Main /\ Len(S) = 1 /\ n = 0 /\ F = <<>>
<1>1. PICK h \in [1..Len(S) -> Nat], y \in [1..Len(S) -> Nat], c \in [1..Len(S) -> Ushort] :
          Fits(t, S, F, n, m, h, y, c)
  BY DEF PartOK
<1>2. /\ Len(S) \in Nat \ {0} /\ Len(F) \in Nat
      /\ IF t = Main THEN S[1].op = "body" /\ F # <<>> ELSE S[1].op = "resume"
  BY PartTypes
<1>3. CASE Len(S) # 1
  <2>1. Len(S) >= 2 /\ Len(S) \in 2..Len(S) /\ Len(S) - 1 \in 1..Len(S)
    BY <1>2, <1>3, Ranges
  <2> DEFINE a == S[Len(S) - 1]
             b == S[Len(S)]
             i == h[Len(S) - 1]
             y1 == y[Len(S) - 1]
             c1 == c[Len(S) - 1]
  <2>2. Link(a, b, F, i, Len(F), y1, c1, n, m) /\ i \in Nat
    BY <1>1, <2>1, LastLink
  <2> HIDE DEF i, y1, c1
  <2>3. ASSUME b.op = "execute" PROVE F # <<>> /\ F[Len(F)].what = "lua"
    <3>1. IsExecute(a, b, F, i, Len(F))
      BY <2>2, <2>3 DEF Link, IsBody, IsCall, IsPcall
    <3>2. Len(F) \in 1..Len(F) /\ i < Len(F)
      BY <1>2, <2>2, <3>1 DEF IsExecute
    <3>3. CASE Len(F) = i + 1
      BY <3>1, <3>2, <3>3, EmptySeq DEF IsExecute
    <3>4. CASE Len(F) # i + 1
      <4>1. Len(F) \in i + 2 .. Len(F)
        BY <1>2, <2>2, <3>2, <3>4
      <4>2. F[Len(F)].reentry
        BY <3>1, <4>1 DEF IsExecute
      <4> QED BY <3>2, <4>2, EmptySeq DEF FramesOK, FrameOK
    <3> QED BY <3>3, <3>4
  <2>4. ASSUME b.op = "body" PROVE F # <<>> /\ F[Len(F)].what # "lua"
    <3>1. IsBody(a, b, F, i, Len(F))
      BY <2>2, <2>4 DEF Link, IsExecute, IsCall, IsPcall
    <3>2. Len(F) = i + 1 /\ F[Len(F)].what \in CFunctions
      BY <3>1 DEF IsBody
    <3> QED BY <2>2, <3>2, EmptySeq DEF CFunctions
  <2>5. ASSUME b.op = "unroll" PROVE t # Main /\ Len(S) = 2 /\ n = 0 /\ S[1].op = "resume"
    <3>1. a.op = "resume" /\ n = y1
      BY <2>2, <2>5 DEF Link, IsExecute, IsBody, IsCall, IsPcall
    <3>2. ~(Len(S) - 1 \in 2..Len(S))
      BY <1>1, <3>1, FitsOps
    <3>3. Len(S) - 1 = 1 /\ Len(S) = 2
      <4>1. Len(S) = 2
        BY <1>2, <1>3, <3>2, Ranges
      <4> QED BY <4>1
    <3>4. S[1].op = "resume" /\ y1 = y[1]
      BY <3>1, <3>3 DEF y1
    <3>5. t # Main
      BY <1>2, <3>4
    <3>6. y[1] = 0
      BY <1>1, <3>5 DEF Fits, Bottom, Base
    <3> QED BY <3>1, <3>3, <3>4, <3>5, <3>6
  <2>6. b.op # "resume"
    BY <1>1, <2>1, FitsOps
  <2> QED BY <2>1, <2>3, <2>4, <2>5, <2>6
<1>4. CASE Len(S) = 1
  <2>1. h[1] = Base(t) /\ y[1] = Base(t) /\ h[1] = Len(F) /\ y[1] = n
    BY <1>1, <1>4 DEF Fits, Bottom, Last
  <2>2. CASE t = Main
    <3>1. Len(F) = 1
      BY <2>1, <2>2 DEF Base
    <3>2. F[1].what = "host"
      BY <2>2, <3>1 DEF FramesOK, FrameOK
    <3> QED BY <1>2, <1>4, <2>2, <3>1, <3>2
  <2>3. CASE t # Main
    <3>1. Len(F) = 0 /\ n = 0
      BY <2>1, <2>3 DEF Base
    <3>2. F = <<>>
      BY <3>1, EmptySeq
    <3> QED BY <1>2, <1>4, <2>3, <3>1, <3>2
  <2> QED BY <2>2, <2>3
<1> QED BY <1>3, <1>4

LEMMA FrameTypes ==
  /\ \A what \in CFunctions \cup {"lua", "host"}, reentry \in BOOLEAN :
       /\ Frame(what, reentry) \in FrameSet /\ Frame(what, reentry).what = what
       /\ Frame(what, reentry).reentry = reentry /\ ~Frame(what, reentry).ypcall
       /\ ~Frame(what, reentry).called
  /\ Execute \in EntrySet /\ Execute.op = "execute" /\ Body \in EntrySet /\ Body.op = "body"
  /\ \A noyield \in BOOLEAN :
       Call(noyield) \in EntrySet /\ Call(noyield).op = "call" /\ Call(noyield).noyield = noyield
<1>1. \A what \in CFunctions \cup {"lua", "host"}, reentry \in BOOLEAN :
       /\ Frame(what, reentry) \in FrameSet /\ Frame(what, reentry).what = what
       /\ Frame(what, reentry).reentry = reentry /\ ~Frame(what, reentry).ypcall
       /\ ~Frame(what, reentry).called
  BY DEF Frame, FrameSet
<1>2. Execute \in EntrySet /\ Execute.op = "execute" /\ Body \in EntrySet /\ Body.op = "body"
  BY DEF Execute, Body, EntrySet
<1>3. \A noyield \in BOOLEAN :
       Call(noyield) \in EntrySet /\ Call(noyield).op = "call" /\ Call(noyield).noyield = noyield
  BY DEF Call, EntrySet
<1> QED BY <1>1, <1>2, <1>3

\* A new frame for a function that is called from a state in which the top frame is not a yield.
LEMMA SeenEnter ==
  ASSUME NEW F \in Seq(FrameSet), F # <<>>, F[Len(F)].what # "yield",
         NEW E \in Seq(FrameSet), Abstract(E) = Abstract(F),
         NEW what \in CFunctions \cup {"lua"}, NEW f \in FrameSet, f.what = what
  PROVE  Seen(Abstract(E), Abstract(Append(F, f)))
<1>1. Abstract(Append(F, f)) = IF f.what = "yield" THEN Abstract(F) ELSE Append(Abstract(F), Name(f))
  BY AbstractAppend
<1>2. Name(f) = what
  BY DEF Name, CFunctions
<1>3. Abstract(F) # <<>>
  <2>1. Len(F) # 0 /\ Shown(F) = Len(F) /\ Len(Abstract(F)) = Shown(F)
    BY AbstractIs, EmptySeq DEF Shown
  <2>2. Len(<<>>) = 0
    OBVIOUS
  <2> QED BY <2>1, <2>2
<1>4. CASE what = "yield"
  BY <1>1, <1>4 DEF Seen
<1>5. CASE what # "yield"
  <2>1. what \in {"lua", "pcall", "each", "resume"}
    BY <1>5 DEF CFunctions
  <2> QED BY <1>1, <1>2, <1>3, <1>5, <2>1 DEF Seen, Entered
<1> QED BY <1>4, <1>5

LEMMA CallFromLuaOK ==
  ASSUME CallsInv, NEW what \in CFunctions \cup {"lua"}, CallFromLua(what)
  PROVE  CallsInv' /\ StepsAsCoroutines
<1> DEFINE t == Running
           S == Active
           F == Frames
           n == nny[Running]
           m == nCcalls[Running]
<1>1. ~confused /\ S[Len(S)].op = "execute"
  BY DEF CallFromLua, In, Innermost
<1>2. /\ S \in Seq(EntrySet) /\ F \in Seq(FrameSet) /\ n \in Ushort /\ m \in Ushort
      /\ FramesOK(t, F) /\ PartOK(t, S, F, n, m)
  BY <1>1, RunningOK
<1>3. Becomes(nny, nny', n) /\ Becomes(nCcalls, nCcalls', m) /\ UNCHANGED <<status, pending, chain, confused>>
  BY DEF Becomes, CallFromLua
<1>4. (what = "lua" => Becomes(cstack, cstack', S) /\ Becomes(ci, ci', Append(F, Frame("lua", TRUE))))
  BY DEF Becomes, CallFromLua, WithFrames, Active
<1>5. what # "lua" => Becomes(cstack, cstack', Append(S, Body)) /\ Becomes(ci, ci', Append(F, Frame(what, FALSE)))
  BY DEF Becomes, CallFromLua, Enter, WithFrames, WithActive
<1> HIDE DEF t, S, F, n, m
<1>6. Len(S) >= 2 /\ F # <<>> /\ F[Len(F)].what = "lua"
  BY <1>1, <1>2, TopIs
<1>7. CASE what = "lua"
  <2> DEFINE f == Frame("lua", TRUE)
             G == Append(F, f)
  <2>1. f \in FrameSet /\ f.what = "lua" /\ f.reentry /\ ~f.ypcall
    BY FrameTypes
  <2> HIDE DEF f
  <2>2. G \in Seq(FrameSet) /\ Len(G) = Len(F) + 1 /\ Len(F) \in Nat /\ G[Len(F) + 1] = f /\ \A k \in 1..Len(F) : G[k] = F[k]
    BY <1>2, <2>1, AppendIs
  <2>3. FramesOK(t, G)
    BY <1>2, <1>6, <2>1, FramesAppend
  <2>4. PartOK(t, S, G, n, m)
    <3>1. PICK h \in [1..Len(S) -> Nat], y \in [1..Len(S) -> Nat], c \in [1..Len(S) -> Ushort] :
              Fits(t, S, F, n, m, h, y, c)
      BY <1>2 DEF PartOK
    <3>2. Link(S[Len(S) - 1], S[Len(S)], F, h[Len(S) - 1], Len(F), y[Len(S) - 1], c[Len(S) - 1], n, m) /\ h[Len(S) - 1] \in Nat
      BY <1>2, <1>6, <3>1, LastLink
    <3>3. IsExecute(S[Len(S) - 1], S[Len(S)], F, h[Len(S) - 1], Len(F))
      BY <1>1, <3>2 DEF Link, IsBody, IsCall, IsPcall
    <3> DEFINE i == h[Len(S) - 1]
    <3>4. i < Len(F) /\ i \in Nat /\ \A k \in i + 2 .. Len(F) : F[k].reentry
      BY <3>2, <3>3 DEF IsExecute
    <3> HIDE DEF i
    <3>5. \A k \in i + 2 .. Len(G) : G[k].reentry
      <4>1. SUFFICES ASSUME NEW k \in i + 2 .. Len(F) + 1 PROVE G[k].reentry
        BY <2>2
      <4>2. CASE k = Len(F) + 1
        BY <2>1, <2>2, <4>2
      <4>3. CASE k # Len(F) + 1
        <5>1. k \in 1..Len(F) /\ k \in i + 2 .. Len(F)
          BY <2>2, <3>4, <4>3
        <5> QED BY <2>2, <3>4, <5>1
      <4> QED BY <4>2, <4>3
    <3>6. \A k \in 1 .. Len(G) - 1 : k < Len(F) \/ Unrollable(G[k])
      <4>1. SUFFICES ASSUME NEW k \in 1 .. Len(F), ~(k < Len(F)) PROVE Unrollable(G[k])
        BY <2>2
      <4>2. k = Len(F) /\ G[k] = F[k]
        BY <2>2, <4>1
      <4> QED BY <1>6, <4>2 DEF Unrollable
    <3>7. i < Len(G) /\ \A k \in 1..Len(F) : k <= Len(G) => G[k] = F[k]
      BY <2>2, <3>4
    <3> HIDE DEF G
    <3> QED BY <1>1, <1>2, <1>6, <2>2, <3>1, <3>5, <3>6, <3>7, Reenter DEF i
  <2>5. Seen(Abstract(F), Abstract(G))
    BY <1>2, <1>6, <2>1, SeenEnter
  <2> QED BY <1>1, <1>2, <1>3, <1>4, <1>7, <2>2, <2>3, <2>4, <2>5, Stays DEF t, F, f
<1>8. CASE what # "lua"
  <2> DEFINE f == Frame(what, FALSE)
             G == Append(F, f)
  <2>1. f \in FrameSet /\ f.what = what /\ ~f.reentry /\ ~f.ypcall /\ what \in CFunctions /\ what # "host"
    BY <1>8, FrameTypes DEF CFunctions
  <2>a. Body \in EntrySet /\ Body.op = "body"
    BY FrameTypes
  <2> HIDE DEF f
  <2>2. G \in Seq(FrameSet) /\ Len(G) = Len(F) + 1 /\ Len(F) \in Nat /\ G[Len(F) + 1] = f /\ \A k \in 1..Len(F) : G[k] = F[k]
    BY <1>2, <2>1, AppendIs
  <2>3. FramesOK(t, G)
    BY <1>2, <1>6, <2>1, FramesAppend
  <2>4. PartOK(t, Append(S, Body), G, n, m)
    <3>1. Link(S[Len(S)], Body, G, Len(F), Len(G), n, m, n, m)
      BY <1>1, <2>1, <2>a, <2>2 DEF Link, IsBody
    <3>2. n \in Nat /\ (n = Base(t) \/ (n <= m + 2 /\ m < Limit))
      BY <1>2, PartTypes
    <3>3. \A k \in 1 .. Len(G) - 1 : k < Len(F) \/ Unrollable(G[k])
      <4>1. SUFFICES ASSUME NEW k \in 1 .. Len(F), ~(k < Len(F)) PROVE Unrollable(G[k])
        BY <2>2
      <4>2. k = Len(F) /\ G[k] = F[k]
        BY <2>2, <4>1
      <4> QED BY <1>6, <4>2 DEF Unrollable
    <3>4. Len(F) <= Len(G) /\ n <= n
      BY <2>2, <3>2
    <3> HIDE DEF G
    <3> QED BY <1>2, <2>a, <2>2, <3>1, <3>2, <3>3, <3>4, Push
  <2>5. Seen(Abstract(F), Abstract(G))
    BY <1>2, <1>6, <2>1, SeenEnter
  <2>6. Append(S, Body) \in Seq(EntrySet)
    BY <1>2, <2>a, AppendIs
  <2> QED BY <1>1, <1>2, <1>3, <1>5, <1>8, <2>2, <2>3, <2>4, <2>5, <2>6, Stays DEF t, F, f
<1> QED BY <1>7, <1>8

LEMMA ConcatOne ==
  ASSUME NEW S, NEW s \in Seq(S), NEW e \in S
  PROVE  s \o <<e>> = Append(s, e) /\ s \o <<>> = s
<1> DEFINE u == s \o <<e>>
           v == Append(s, e)
           o == <<e>>
<1>1. o \in Seq(S) /\ Len(o) = 1 /\ o[1] = e /\ Len(s) \in Nat
  BY LenProperties
<1> HIDE DEF o
<1>2. /\ s \o o \in Seq(S) /\ Len(s \o o) = Len(s) + Len(o)
      /\ \A i \in 1 .. Len(s) + Len(o) : (s \o o)[i] = IF i <= Len(s) THEN s[i] ELSE o[i - Len(s)]
  BY <1>1, ConcatProperties
<1>3. v \in Seq(S) /\ Len(v) = Len(s) + 1 /\ v[Len(s) + 1] = e /\ \A i \in 1..Len(s) : v[i] = s[i]
  BY AppendIs
<1>4. u \in Seq(S) /\ Len(u) = Len(s) + 1 /\ \A i \in 1 .. Len(s) + 1 : u[i] = IF i <= Len(s) THEN s[i] ELSE o[i - Len(s)]
  BY <1>1, <1>2 DEF o
<1> HIDE DEF u, v
<1>5. \A i \in 1 .. Len(s) + 1 : u[i] = v[i]
  <2>1. ASSUME NEW i \in 1 .. Len(s) + 1 PROVE u[i] = v[i]
    <3>1. CASE i <= Len(s)
      BY <1>1, <1>3, <1>4, <3>1
    <3>2. CASE i = Len(s) + 1
      BY <1>1, <1>3, <1>4, <3>2
    <3> QED BY <1>1, <3>1, <3>2
  <2> QED BY <2>1
<1>6. u = v
  BY <1>3, <1>4, <1>5, SeqEqual
<1>7. s \o <<>> = s
  BY ConcatEmptySeq
<1> QED BY <1>6, <1>7 DEF u, v

\* luaD_call: the caller has been marked, and has pushed what it restores when the callee throws.
LEMMA DCallOK ==
  ASSUME Limits, CallsInv, ~confused, NEW what \in CFunctions \cup {"lua"}, NEW top \in FrameSet,
         NEW tries, NEW noyield \in BOOLEAN, DCall(what, top, tries, noyield),
         NEW S \in Seq(EntrySet), S = Active \o tries, Frames # <<>>,
         NEW F, F = Topped(top), FramesOK(Running, F), top.what \in {"pcall", "host", "each"},
         top.what = Top.what, PartOK(Running, S, F, nny[Running], nCcalls[Running]),
         IF noyield THEN S[Len(S)].op = "pcall" \/ (S[Len(S)].op = "body" /\ top.what = "each")
                    ELSE S[Len(S)].op = "body" /\ top.what = "pcall" /\ top.ypcall
  PROVE  CallsInv' /\ StepsAsCoroutines
<1> DEFINE t == Running
           n == nny[Running]
           m == nCcalls[Running]
           m2 == Short(m + 1)
           more == IF noyield THEN 1 ELSE 0
           n2 == n + more
           b == Call(noyield)
           f == Frame(what, FALSE)
           e == IF what = "lua" THEN Execute ELSE Body
           G == Append(F, f)
<1>1. /\ Frames \in Seq(FrameSet) /\ n \in Ushort /\ m \in Ushort /\ FramesOK(t, Frames) /\ Active \in Seq(EntrySet)
  BY RunningOK
<1>2. /\ F \in Seq(FrameSet) /\ Len(F) = Len(Frames) /\ Len(Frames) \in Nat \ {0} /\ F[Len(Frames)] = top
      /\ \A k \in 1 .. Len(Frames) - 1 : F[k] = Frames[k]
  BY <1>1, ToppedIs DEF Topped
<1>3. F # <<>> /\ F[Len(F)] = top /\ Len(F) \in Nat /\ Len(F) >= 1
  BY <1>2, EmptySeq
<1>4. /\ e \in EntrySet /\ e.op = (IF what = "lua" THEN "execute" ELSE "body")
      /\ b \in EntrySet /\ b.op = "call" /\ b.noyield = noyield
      /\ f \in FrameSet /\ f.what = what /\ ~f.reentry /\ ~f.ypcall /\ what # "host"
  BY FrameTypes DEF CFunctions
<1> HIDE DEF e, b, f
<1>5. m2 < Limit
  <2>1. ~Overflow(m2)
    BY DEF DCall
  <2>2. ~(m2 >= Limit)
    BY <2>1 DEF Overflow, Limit
  <2>3. m2 \in Nat /\ Limit \in Nat
    <3>1. m + 1 \in Int
      BY <1>1 DEF Ushort
    <3>2. Short(m + 1) \in Ushort
      BY <3>1, ShortType
    <3> QED BY <3>2, LimitType DEF Ushort
  <2> HIDE DEF m2, Limit
  <2> QED BY <2>2, <2>3
<1>6. n \in Nat /\ (n = Base(t) \/ (n <= m + 2 /\ m < Limit)) /\ Len(S) \in Nat \ {0}
  BY <1>2, PartTypes
<1>7. n2 <= m2 + 2 /\ n2 \in Ushort /\ Short(n2) = n2 /\ m2 \in Ushort /\ n <= n2 /\ n2 \in Nat
  <2>1. more \in {0, 1}
    OBVIOUS
  <2> HIDE DEF more
  <2>2. n2 <= m2 + 2 /\ n2 \in Ushort /\ Short(n2) = n2 /\ m2 \in Ushort
    BY <1>1, <1>5, <1>6, <2>1, CountGoesOn
  <2> QED BY <1>6, <2>1, <2>2 DEF Ushort
<1>8. /\ Becomes(nCcalls, nCcalls', m2) /\ UNCHANGED <<status, pending, chain, confused>>
      /\ Becomes(ci, ci', G)
      /\ cstack' = WithActive(Append(S \o <<b>>, e))
  <2>1. (Active \o tries) \o <<b>> = Active \o tries \o <<b>>
    OBVIOUS
  <2> QED BY <2>1 DEF Becomes, DCall, Enter, WithFrames, b, e, f
<1>9. Becomes(nny, nny', n2)
  <2>1. Running \in Threads /\ nny \in [Threads -> Ushort]
    BY RunningOK DEF CallsInv, TypeOK
  <2>2. CASE noyield
    <3>1. nny' = [nny EXCEPT ![Running] = Short(n + 1)]
      BY <2>2 DEF DCall
    <3> QED BY <1>7, <2>2, <3>1 DEF Becomes
  <2>3. CASE ~noyield
    <3>1. nny' = nny
      BY <2>3 DEF DCall
    <3> QED BY <1>6, <2>3, <3>1 DEF Becomes
  <2> QED BY <2>2, <2>3
<1>10. S \o <<b>> = Append(S, b) /\ Append(S, b) \in Seq(EntrySet)
  BY <1>4, ConcatOne, AppendIs
<1> DEFINE S1 == Append(S, b)
<1>11. /\ S1 \in Seq(EntrySet) /\ Len(S1) = Len(S) + 1 /\ S1[Len(S1)] = b /\ Len(S1) >= 2
       /\ Append(S1, e) \in Seq(EntrySet)
  <2>1. S1 \in Seq(EntrySet) /\ Len(S1) = Len(S) + 1 /\ S1[Len(S) + 1] = b
    BY <1>4, AppendIs
  <2>2. Append(S1, e) \in Seq(EntrySet)
    BY <1>4, <2>1, AppendIs
  <2> QED BY <1>6, <2>1, <2>2
<1>12. G \in Seq(FrameSet) /\ Len(G) = Len(F) + 1 /\ G[Len(F) + 1] = f /\ \A k \in 1..Len(F) : G[k] = F[k]
  BY <1>2, <1>4, AppendIs
<1> HIDE DEF t, n, m, m2, more, n2, G, S1
<1>13. Becomes(cstack, cstack', Append(S1, e))
  BY <1>8, <1>10 DEF Becomes, WithActive, S1
<1>14. PartOK(t, S1, F, n2, m2)
  <2>1. Link(S[Len(S)], b, F, Len(F), Len(F), n, m, n2, m2)
    <3>1. IsCall(S[Len(S)], b, F, Len(F), Len(F))
      <4>1. 1 <= Len(F) /\ Len(F) <= Len(F)
        BY <1>3
      <4>2. CASE noyield
        BY <1>3, <1>4, <4>1, <4>2 DEF IsCall
      <4>3. CASE ~noyield
        BY <1>3, <1>4, <4>1, <4>3 DEF IsCall
      <4> QED BY <4>2, <4>3
    <3>2. n2 = (IF b.noyield THEN n + 1 ELSE n)
      BY <1>4, <1>6 DEF n2, more
    <3> QED BY <1>5, <3>1, <3>2 DEF Link, m2
  <2>2. PartOK(t, S, F, n, m)
    BY DEF t, n, m
  <2>3. \A k \in 1 .. Len(F) - 1 : k < Len(F) 
    BY <1>3
  <2>4. Len(F) <= Len(F)
    BY <1>3
  <2> QED BY <1>2, <1>4, <1>5, <1>7, <2>1, <2>2, <2>3, <2>4, Push DEF S1
<1>15. PartOK(t, Append(S1, e), G, n2, m2)
  <2>1. Link(b, e, G, Len(F), Len(G), n2, m2, n2, m2)
    <3>1. CASE what = "lua"
      <4>1. G[Len(F) + 1].what = "lua" /\ ~G[Len(F) + 1].reentry /\ e.op = "execute"
        BY <1>4, <1>12, <3>1
      <4>2. Len(F) < Len(G) /\ Len(G) <= Len(G) /\ \A k \in Len(F) + 2 .. Len(G) : G[k].reentry
        BY <1>3, <1>12
      <4> QED BY <1>4, <4>1, <4>2 DEF Link, IsExecute, FromExecute
    <3>2. CASE what # "lua"
      <4>1. G[Len(G)].what \in CFunctions /\ e.op = "body"
        BY <1>4, <1>12, <3>2
      <4> QED BY <1>3, <1>4, <1>12, <4>1 DEF Link, IsBody
    <3> QED BY <3>1, <3>2
  <2>2. ASSUME NEW k \in 1 .. Len(G) - 1
        PROVE k < Len(F) \/ Unrollable(G[k]) \/ (b.op = "call" /\ b.noyield /\ k = Len(F) /\ Len(S1) >= 2)
    <3>1. CASE k = Len(F)
      <4>1. G[k] = top
        BY <1>3, <1>12, <3>1
      <4> QED BY <1>4, <1>11, <3>1, <4>1 DEF Unrollable
    <3>2. CASE k # Len(F)
      BY <1>3, <1>12, <3>2
    <3> QED BY <3>1, <3>2
  <2>3. n2 <= n2 /\ Len(F) <= Len(G)
    BY <1>3, <1>7, <1>12
  <2> QED BY <1>2, <1>4, <1>5, <1>7, <1>11, <1>12, <1>14, <2>1, <2>2, <2>3, Push
<1>16. FramesOK(t, G)
  BY <1>2, <1>3, <1>4, FramesAppend DEF G, t
<1>17. Seen(Abstract(Frames), Abstract(G))
  <2>1. \A k \in 1..Len(F) : F[k].what = Frames[k].what
    <3>1. \A k \in 1..Len(F) : k = Len(F) \/ k \in 1 .. Len(Frames) - 1
      BY <1>2
    <3> QED BY <1>2, <3>1 DEF Top
  <2>2. Abstract(F) = Abstract(Frames)
    BY <1>1, <1>2, <2>1, AbstractSame
  <2> QED BY <1>1, <1>2, <1>3, <1>4, <2>2, SeenEnter DEF G
<1> QED BY <1>7, <1>8, <1>9, <1>11, <1>12, <1>13, <1>15, <1>16, <1>17, Stays DEF t

\* The top frame is marked.
LEMMA Marked ==
  ASSUME CallsInv, ~confused, Frames # <<>>, NEW f \in FrameSet,
         f.what = Top.what, f.reentry = Top.reentry,
         f.ypcall => /\ Active[Len(Active)].op = "body" /\ f.what = "pcall" /\ f.called
                     /\ \A l \in 1 .. Len(Frames) - 1 : Unrollable(Frames[l])
  PROVE  /\ Topped(f) \in Seq(FrameSet) /\ Topped(f) # <<>> /\ Len(Topped(f)) = Len(Frames)
         /\ Topped(f)[Len(Frames)] = f /\ \A k \in 1 .. Len(Frames) - 1 : Topped(f)[k] = Frames[k]
         /\ FramesOK(Running, Topped(f))
         /\ PartOK(Running, Active, Topped(f), nny[Running], nCcalls[Running])
         /\ Abstract(Topped(f)) = Abstract(Frames)
<1> DEFINE G == Topped(f)
<1>1. /\ Frames \in Seq(FrameSet) /\ FramesOK(Running, Frames) /\ Active \in Seq(EntrySet)
      /\ PartOK(Running, Active, Frames, nny[Running], nCcalls[Running])
  BY RunningOK
<1>2. G = [Frames EXCEPT ![Len(Frames)] = f] /\ Top = Frames[Len(Frames)]
  BY DEF Topped, Top
<1> HIDE DEF G
<1>3. /\ G \in Seq(FrameSet) /\ Len(G) = Len(Frames) /\ Len(Frames) \in Nat \ {0} /\ G[Len(Frames)] = f
      /\ \A k \in 1 .. Len(Frames) - 1 : G[k] = Frames[k]
  BY <1>1, <1>2, ToppedIs
<1>4. FramesOK(Running, G)
  BY <1>1, <1>2, FramesTopped
<1>5. PartOK(Running, Active, G, nny[Running], nCcalls[Running])
  BY <1>1, <1>2, Retop
<1>6. \A k \in 1..Len(Frames) : G[k].what = Frames[k].what
  <2>1. \A k \in 1..Len(Frames) : k = Len(Frames) \/ k \in 1 .. Len(Frames) - 1
    BY <1>3
  <2> QED BY <1>2, <1>3, <2>1
<1>7. Abstract(G) = Abstract(Frames)
  BY <1>1, <1>3, <1>6, AbstractSame
<1>8. G # <<>>
  BY <1>3, EmptySeq
<1> QED BY <1>3, <1>4, <1>5, <1>7, <1>8 DEF G

LEMMA BodyIs ==
  ASSUME CallsInv, NEW what, InBody(what)
  PROVE  /\ ~confused /\ Active[Len(Active)].op = "body" /\ Frames # <<>> /\ Top.what = what
         /\ Top \in FrameSet /\ Top = Frames[Len(Frames)] /\ Active # <<>>
         /\ what # "pcall" => ~Top.ypcall
         /\ Top.ypcall => Top.called
         /\ Called \in FrameSet /\ Called.what = what /\ Called.reentry = Top.reentry
         /\ Called.called /\ Called.ypcall = Top.ypcall
<1>1. ~confused /\ Active[Len(Active)].op = "body" /\ Top.what = what /\ Top = Frames[Len(Frames)]
  BY DEF InBody, In, Innermost, Top
<1>2. /\ Frames \in Seq(FrameSet) /\ FramesOK(Running, Frames) /\ Active \in Seq(EntrySet)
      /\ PartOK(Running, Active, Frames, nny[Running], nCcalls[Running])
  BY <1>1, RunningOK
<1>3. Frames # <<>>
  BY <1>1, <1>2, TopIs
<1>4. Len(Frames) \in 1..Len(Frames)
  BY <1>2, <1>3, EmptySeq, LenProperties
<1>5. Top \in FrameSet
  BY <1>1, <1>2, <1>4, ElementOfSeq
<1>6. (what # "pcall" => ~Top.ypcall) /\ (Top.ypcall => Top.called)
  BY <1>1, <1>2, <1>4 DEF FramesOK, FrameOK
<1>7. /\ Called \in FrameSet /\ Called.what = what /\ Called.reentry = Top.reentry
      /\ Called.called /\ Called.ypcall = Top.ypcall
  BY <1>1, <1>5 DEF Called, FrameSet
<1>8. Active # <<>>
  BY <1>2 DEF PartOK, Fits
<1> QED BY <1>1, <1>3, <1>5, <1>6, <1>7, <1>8

LEMMA CallkOK ==
  ASSUME Limits, CallsInv, NEW what \in CFunctions \cup {"lua"}, Callk(what)
  PROVE  CallsInv' /\ StepsAsCoroutines
<1>1. InBody("each") /\ DCall(what, Called, <<>>, TRUE)
  BY DEF Callk
<1>2. /\ ~confused /\ Active[Len(Active)].op = "body" /\ Frames # <<>> /\ Top.what = "each"
      /\ Called \in FrameSet /\ Called.what = "each" /\ Called.reentry = Top.reentry /\ ~Called.ypcall
  BY <1>1, BodyIs
<1>3. /\ FramesOK(Running, Topped(Called))
      /\ PartOK(Running, Active, Topped(Called), nny[Running], nCcalls[Running])
  BY <1>2, Marked
<1>4. Active \in Seq(EntrySet)
  BY <1>2, RunningOK
<1>5. Active = Active \o <<>>
  BY <1>4, ConcatEmptySeq
<1>6. TRUE \in BOOLEAN
  OBVIOUS
<1> DEFINE tries == <<>>
           noyield == TRUE
           top == Called
           F == Topped(Called)
           S == Active
<1>7. /\ DCall(what, top, tries, noyield) /\ S \in Seq(EntrySet) /\ S = Active \o tries /\ noyield \in BOOLEAN
      /\ top \in FrameSet /\ F = Topped(top) /\ FramesOK(Running, F) /\ top.what = "each" /\ top.what = Top.what
      /\ PartOK(Running, S, F, nny[Running], nCcalls[Running]) /\ S[Len(S)].op = "body" /\ noyield
  BY <1>1, <1>2, <1>3, <1>4, <1>5
<1> HIDE DEF tries, noyield, top, F, S
<1> QED BY <1>2, <1>7, DCallOK

LEMMA PcallkOK ==
  ASSUME Limits, CallsInv, NEW what \in CFunctions \cup {"lua"}, Pcallk(what)
  PROVE  CallsInv' /\ StepsAsCoroutines
<1>1. CASE /\ InBody("host") \/ (InBody("pcall") /\ ~Top.called /\ nny[Running] > 0)
           /\ DCall(what, Called, <<Try>>, TRUE)
  <2>1. PICK w \in {"host", "pcall"} : InBody(w) /\ (w = "pcall" => ~Top.called)
    BY <1>1
  <2>2. /\ ~confused /\ Active[Len(Active)].op = "body" /\ Frames # <<>> /\ Top.what = w
        /\ Called \in FrameSet /\ Called.what = w /\ Called.reentry = Top.reentry /\ ~Called.ypcall
    BY <2>1, BodyIs
  <2> DEFINE F == Topped(Called)
             S == Active
             b == Try
             t == Running
             n == nny[Running]
             m == nCcalls[Running]
             top == Called
             tries == <<Try>>
             noyield == TRUE
  <2>3. /\ FramesOK(t, F) /\ PartOK(t, S, F, n, m)
        /\ F \in Seq(FrameSet) /\ Len(F) = Len(Frames) /\ F[Len(F)] = Called
    BY <2>2, Marked
  <2>4. /\ S \in Seq(EntrySet) /\ n \in Ushort /\ m \in Ushort /\ Len(Frames) \in Nat \ {0}
    BY <2>2, RunningOK, EmptySeq, LenProperties
  <2>5. b \in EntrySet /\ b.op = "pcall" /\ b.frames = Len(Frames) /\ b.nny = n /\ b.nCcalls = m
    BY <2>4 DEF Try, EntrySet
  <2>6. tries = <<b>> /\ top = Called /\ F = Topped(top) /\ noyield /\ noyield \in BOOLEAN
        /\ DCall(what, top, tries, noyield)
    BY <1>1
  <2>7. n = nny[Running] /\ m = nCcalls[Running] /\ t = Running /\ S = Active
    OBVIOUS
  <2> HIDE DEF F, S, b, t, n, m, top, tries, noyield
  <2>8. n \in Nat /\ (n = Base(t) \/ (n <= m + 2 /\ m < Limit))
    BY <2>3, <2>4, PartTypes
  <2>9. PartOK(t, Append(S, b), F, n, m)
    <3>1. IsPcall(S[Len(S)], b, F, Len(F), Len(F), n, m)
      BY <2>2, <2>3, <2>4, <2>5, <2>7 DEF IsPcall
    <3>2. Link(S[Len(S)], b, F, Len(F), Len(F), n, m, n, m)
      BY <3>1 DEF Link
    <3>3. Len(F) <= Len(F) /\ n <= n /\ \A k \in 1 .. Len(F) - 1 : k < Len(F)
      BY <2>3, <2>4, <2>8
    <3> QED BY <2>3, <2>4, <2>5, <2>8, <3>2, <3>3, Push
  <2> DEFINE A == Append(S, b)
  <2>10. A \in Seq(EntrySet) /\ A[Len(A)] = b /\ A = Active \o tries
    <3>1. A \in Seq(EntrySet) /\ Len(A) = Len(S) + 1 /\ A[Len(S) + 1] = b
      BY <2>4, <2>5, AppendIs
    <3>2. S \o <<b>> = A
      BY <2>4, <2>5, ConcatOne
    <3> QED BY <2>6, <2>7, <3>1, <3>2
  <2>11. PartOK(Running, A, F, nny[Running], nCcalls[Running])
    BY <2>7, <2>9
  <2> HIDE DEF A
  <2>12. top \in FrameSet /\ top.what \in {"pcall", "host", "each"} /\ top.what = Top.what
    BY <2>2, <2>6
  <2> QED BY <2>2, <2>3, <2>5, <2>6, <2>7, <2>10, <2>11, <2>12, DCallOK
<1>2. CASE /\ InBody("pcall") /\ ~Top.called /\ nny[Running] = 0
           /\ DCall(what, [Called EXCEPT !.ypcall = TRUE], <<>>, FALSE)
  <2>1. /\ ~confused /\ Active[Len(Active)].op = "body" /\ Frames # <<>> /\ Top.what = "pcall"
        /\ Called \in FrameSet /\ Called.what = "pcall" /\ Called.reentry = Top.reentry /\ Called.called
    BY <1>2, BodyIs
  <2> DEFINE tries == <<>>
             noyield == FALSE
             top == [Called EXCEPT !.ypcall = TRUE]
             F == Topped(top)
             S == Active
  <2>2. top \in FrameSet /\ top.what = "pcall" /\ top.reentry = Top.reentry /\ top.called /\ top.ypcall
    BY <2>1 DEF FrameSet
  <2>3. Active \in Seq(EntrySet) /\ Frames \in Seq(FrameSet) /\ PartOK(Running, Active, Frames, 0, nCcalls[Running])
    BY <1>2, <2>1, RunningOK
  <2>4. \A l \in 1 .. Len(Frames) - 1 : Unrollable(Frames[l])
    BY <2>3, Quiet
  <2>5. DCall(what, top, tries, noyield) /\ noyield \in BOOLEAN /\ ~noyield /\ tries = <<>>
    BY <1>2
  <2> HIDE DEF top, tries, noyield
  <2>6. FramesOK(Running, F) /\ PartOK(Running, S, F, nny[Running], nCcalls[Running])
    BY <2>1, <2>2, <2>4, Marked
  <2>7. S \in Seq(EntrySet) /\ S = Active \o tries /\ S[Len(S)].op = "body"
    BY <2>1, <2>3, <2>5, ConcatEmptySeq
  <2>8. F = Topped(top) /\ top.what = Top.what
    BY <2>1, <2>2
  <2> HIDE DEF F, S
  <2> QED BY <2>1, <2>2, <2>5, <2>6, <2>7, <2>8, DCallOK
<1> QED BY <1>1, <1>2 DEF Pcallk

-----------------------------------------------------------------------------
(* Errors.                                                                  *)

\* The calls up to j are left, and above j no protected call was left out.
LEMMA SeenThrow ==
  ASSUME NEW t, NEW F \in Seq(FrameSet), FramesOK(t, F), NEW j \in 1..Len(F),
         F[j].what \in {"pcall", "host"}, F[Len(F)].what \notin {"pcall", "host"},
         \A k \in j + 1 .. Len(F) - 1 : F[k].what \notin {"pcall", "host"}
  PROVE  Seen(Abstract(F), Abstract(Cut(F, j)))
<1> DEFINE A == Abstract(F)
<1>1. /\ Len(F) \in Nat /\ Shown(F) \in Nat /\ Shown(F) <= Len(F) /\ Len(F) <= Shown(F) + 1
      /\ A \in Seq(Names) /\ Len(A) = Shown(F)
      /\ \A k \in 1..Shown(F) : A[k] = Name(F[k]) /\ k \in 1..Len(F)
  BY AbstractIs
<1>2. DOMAIN A = 1..Shown(F)
  BY <1>1, LenProperties
<1> HIDE DEF A
<1>3. j # Len(F) /\ j \in Nat /\ j <= Shown(F) /\ j \in 1..Shown(F)
  BY <1>1
<1>4. Abstract(Cut(F, j)) = SubSeq(A, 1, j)
  BY <1>3, AbstractCut DEF A
<1>5. A[j] = "pcall"
  BY <1>1, <1>3 DEF Name
<1>6. ASSUME NEW k \in DOMAIN A, A[k] = "pcall" PROVE k <= j
  <2>1. k \in 1..Shown(F) /\ k \in 1..Len(F)
    BY <1>1, <1>2, <1>6
  <2>2. F[k].what \in {"pcall", "host"}
    BY <1>1, <1>6, <2>1 DEF Name
  <2>3. k # Len(F) /\ ~(k \in j + 1 .. Len(F) - 1)
    BY <2>2
  <2> QED BY <1>1, <2>1, <2>3
<1> QED BY <1>2, <1>3, <1>4, <1>5, <1>6 DEF Seen, Arrived, A

LEMMA CaughtOK ==
  ASSUME CallsInv, ~confused, NEW i, Innermost_(Active, i), Active[i].op = "pcall", EndPcall(i),
         UNCHANGED <<status, pending, confused>>, Frames # <<>>, Top.what \notin {"pcall", "host"}
  PROVE  CallsInv' /\ StepsAsCoroutines
<1> DEFINE S == Active
           F == Frames
           S2 == Cut(S, i - 1)
           F2 == Cut(F, S[i].frames)
           n2 == S[i].nny
           m2 == S[i].nCcalls
<1>1. /\ S \in Seq(EntrySet) /\ F \in Seq(FrameSet) /\ FramesOK(Running, F)
      /\ PartOK(Running, S, F, nny[Running], nCcalls[Running])
  BY RunningOK
<1>2. /\ Becomes(cstack, cstack', S2) /\ Becomes(ci, ci', F2) /\ Becomes(nny, nny', n2)
      /\ Becomes(nCcalls, nCcalls', m2) /\ chain' = chain
  BY DEF EndPcall, Becomes, WithActive, WithFrames
<1>3. Top = F[Len(F)]
  BY DEF Top
<1>4. Innermost_(S, i) /\ S[i].op = "pcall"
  OBVIOUS
<1>5. F = Frames
  OBVIOUS
<1> HIDE DEF S, F
<1>6. /\ S[i].frames \in 1..Len(F) /\ F[S[i].frames].what \in {"pcall", "host"}
      /\ i - 1 \in 1..Len(S) /\ i \in 1..Len(S) /\ PartOK(Running, S2, F2, n2, m2)
      /\ \A k \in S[i].frames + 1 .. Len(F) - 1 : F[k].what \notin {"pcall", "host"}
  BY <1>1, <1>4, Caught
<1>7. n2 \in Ushort /\ m2 \in Ushort
  <2>1. S[i] \in EntrySet
    BY <1>1, <1>6, ElementOfSeq
  <2> QED BY <1>4, <2>1 DEF EntrySet
<1>8. i - 1 \in Nat /\ i - 1 <= Len(S) /\ S[i].frames \in Nat /\ S[i].frames <= Len(F)
  BY <1>1, <1>6, LenProperties
<1>9. S2 \in Seq(EntrySet) /\ F2 \in Seq(FrameSet)
  BY <1>1, <1>8, CutIs
<1>10. FramesOK(Running, F2)
  BY <1>1, <1>8, FramesCut
<1>11. Seen(Abstract(F), Abstract(F2))
  BY <1>1, <1>3, <1>6, SeenThrow
<1> HIDE DEF S2, F2, n2, m2
<1> QED BY <1>2, <1>5, <1>6, <1>7, <1>9, <1>10, <1>11, Stays

LEMMA EntryOfResume ==
  ASSUME NEW S \in Seq(EntrySet), S # <<>>, S[1].op = "resume"
  PROVE  S[1] \in EntrySet /\ S[1].nCcalls \in Ushort /\ <<S[1], Unroll>> \in Seq(EntrySet)
<1>1. 1 \in 1..Len(S)
  BY EmptySeq, LenProperties
<1>2. S[1] \in EntrySet
  BY <1>1, ElementOfSeq
<1>3. S[1].nCcalls \in Ushort
  BY <1>2 DEF EntrySet
<1>4. Unroll \in EntrySet
  BY DEF Unroll, EntrySet
<1> QED BY <1>2, <1>3, <1>4

LEMMA ZeroIsShort == 0 \in Ushort
  BY DEF Ushort

LEMMA RecoverOK ==
  ASSUME CallsInv, ~confused, NEW i, Innermost_(Active, i), Active[i].op = "resume",
         Recoverable # {}, Recover,
         UNCHANGED <<pending, confused>>, Frames # <<>>, Top.what \notin {"pcall", "host"}
  PROVE  CallsInv' /\ StepsAsCoroutines
<1> DEFINE S == Active
           F == Frames
           j == Findpcall
           S2 == <<S[1], Unroll>>
           F2 == Cut(F, j)
           m2 == S[1].nCcalls
<1>1. /\ S \in Seq(EntrySet) /\ F \in Seq(FrameSet) /\ FramesOK(Running, F) /\ Len(F) \in Nat
      /\ PartOK(Running, S, F, nny[Running], nCcalls[Running])
  BY RunningOK, LenProperties
<1>2. j \in Recoverable /\ \A k \in Recoverable : k <= j
  <2>1. Recoverable \subseteq 1..Len(F)
    BY <1>1, LenProperties DEF Recoverable
  <2>2. \E k \in Recoverable : \A l \in Recoverable : l <= k
    BY <1>1, <2>1, Greatest
  <2> QED BY <2>2 DEF Findpcall
<1>3. Recoverable = {k \in 1..Len(F) : F[k].ypcall}
  BY <1>1, LenProperties DEF Recoverable
<1>4. /\ Becomes(cstack, cstack', S2) /\ Becomes(ci, ci', F2) /\ Becomes(nny, nny', 0)
      /\ Becomes(nCcalls, nCcalls', m2) /\ UNCHANGED <<status, chain>>
  BY DEF Recover, Becomes, WithActive, WithFrames
<1>5. Top = F[Len(F)] /\ F = Frames /\ Innermost_(S, i) /\ S[i].op = "resume"
  BY DEF Top
<1> HIDE DEF S, F, j
<1>6. /\ i = 1 /\ Running # Main
      /\ \A k \in 1 .. Len(F) - 1 : F[k].what = "pcall" => F[k].ypcall
      /\ \A k \in 1 .. Len(F) : F[k].what # "host"
  BY <1>1, <1>5, Uncaught
<1>7. j \in 1..Len(F) /\ F[j].ypcall
  BY <1>2, <1>3
<1>8. F[j].what = "pcall" /\ \A l \in 1 .. j - 1 : Unrollable(F[l])
  BY <1>1, <1>7 DEF FramesOK, FrameOK
<1>9. ASSUME NEW k \in j + 1 .. Len(F) - 1 PROVE F[k].what \notin {"pcall", "host"}
  <2>1. k \in 1..Len(F) /\ k \in 1 .. Len(F) - 1 /\ ~(k <= j)
    BY <1>1, <1>7
  <2>2. ~F[k].ypcall
    BY <1>2, <1>3, <2>1
  <2> QED BY <1>6, <2>1, <2>2
<1>10. Seen(Abstract(F), Abstract(F2))
  BY <1>1, <1>5, <1>7, <1>8, <1>9, SeenThrow
<1>11. j \in Nat /\ j <= Len(F)
  BY <1>1, <1>7
<1>12. F2 \in Seq(FrameSet) /\ Len(F2) = j /\ \A k \in 1..j : F2[k] = F[k]
  BY <1>1, <1>11, CutIs
<1>13. FramesOK(Running, F2)
  BY <1>1, <1>11, FramesCut
<1>14. S # <<>> /\ S[1].op = "resume"
  BY <1>1, <1>5, <1>6 DEF PartOK, Fits
<1>15. S[1] \in EntrySet /\ m2 \in Ushort /\ S2 \in Seq(EntrySet)
  BY <1>1, <1>14, EntryOfResume
<1>16. PartOK(Running, S2, F2, 0, m2)
  <2>1. \A k \in 1 .. Len(F2) - 1 : Unrollable(F2[k])
    <3>1. \A k \in 1 .. j - 1 : k \in 1..j
      BY <1>11
    <3> QED BY <1>8, <1>12, <3>1
  <2> HIDE DEF F2, m2
  <2> QED BY <1>6, <1>12, <1>14, <1>15, <2>1, Unrolled
<1> HIDE DEF S2, F2, m2
<1> QED BY <1>4, <1>5, <1>10, <1>12, <1>13, <1>15, <1>16, Stays, ZeroIsShort

LEMMA OverflowOK ==
  ASSUME CallsInv, InBody("pcall"), ~Top.called,
         ci' = WithFrames(Topped(Called)),
         IF nny[Running] > 0
           THEN UNCHANGED <<cstack, nCcalls>>
           ELSE /\ cstack' = WithActive(<<Active[1], Unroll>>)
                /\ nCcalls' = [nCcalls EXCEPT ![Running] = Active[1].nCcalls],
         UNCHANGED <<status, pending, nny, chain, confused>>
  PROVE  CallsInv' /\ StepsAsCoroutines
<1> DEFINE S == Active
           F == Topped(Called)
           n == nny[Running]
           m == nCcalls[Running]
<1>1. /\ ~confused /\ S[Len(S)].op = "body" /\ Frames # <<>> /\ S # <<>>
      /\ Called \in FrameSet /\ Called.what = Top.what /\ Called.reentry = Top.reentry /\ ~Called.ypcall
  BY BodyIs
<1>2. /\ F \in Seq(FrameSet) /\ Len(F) = Len(Frames) /\ \A k \in 1 .. Len(Frames) - 1 : F[k] = Frames[k]
      /\ FramesOK(Running, F) /\ PartOK(Running, S, F, n, m) /\ Abstract(F) = Abstract(Frames)
  BY <1>1, Marked
<1>3. S \in Seq(EntrySet) /\ n \in Ushort /\ m \in Ushort
  BY <1>1, RunningOK
<1>4. Becomes(ci, ci', F) /\ Becomes(nny, nny', n) /\ Seen(Abstract(Frames), Abstract(F))
  BY <1>2 DEF Becomes, WithFrames, Seen
<1>5. CASE n > 0
  <2>1. Becomes(cstack, cstack', S) /\ Becomes(nCcalls, nCcalls', m)
    BY <1>5 DEF Becomes, Active
  <2> HIDE DEF S, F, n, m
  <2> QED BY <1>1, <1>2, <1>3, <1>4, <2>1, Stays
<1>6. CASE ~(n > 0)
  <2> DEFINE S2 == <<S[1], Unroll>>
             m2 == S[1].nCcalls
  <2>1. Becomes(cstack, cstack', S2) /\ Becomes(nCcalls, nCcalls', m2)
    BY <1>6 DEF Becomes, WithActive
  <2> HIDE DEF S, F, n, m
  <2>2. n = 0
    BY <1>3, <1>6 DEF Ushort
  <2>3. Running # Main /\ S[1].op = "resume" /\ \A k \in 1 .. Len(F) - 1 : Unrollable(F[k])
    BY <1>2, <1>3, <2>2, Quiet
  <2>4. S[1] \in EntrySet /\ m2 \in Ushort /\ S2 \in Seq(EntrySet)
    BY <1>1, <1>3, <2>3, EntryOfResume
  <2> HIDE DEF m2
  <2>5. PartOK(Running, S2, F, n, m2)
    BY <1>2, <2>2, <2>3, <2>4, Unrolled
  <2> HIDE DEF S2
  <2> QED BY <1>1, <1>2, <1>3, <1>4, <2>1, <2>4, <2>5, Stays
<1> QED BY <1>5, <1>6

-----------------------------------------------------------------------------
(* The end of lua_resume: an error, a return of the coroutine, a yield.     *)

LEMMA ChainShorter ==
  ASSUME CallsInv, ~confused, Running # Main, chain' = Cut(chain, Len(chain) - 1)
  PROVE  /\ chain' \in Seq(Threads) /\ Len(chain') > 0 /\ chain'[1] = Main /\ Distinct'
         /\ \A u \in Threads : InChain(u)' <=> InChain(u) /\ u # Running
<1> DEFINE N == Len(chain)
           new == Cut(chain, N - 1)
<1>1. chain \in Seq(Threads) /\ N \in Nat \ {0} /\ chain[1] = Main
  BY RunningOK DEF CallsInv
<1>2. \A i, j \in 1..N : chain[i] = chain[j] => i = j
  BY DEF CallsInv, Distinct
<1>3. N # 1
  BY <1>1 DEF Running
<1>4. N - 1 \in Nat /\ N - 1 <= Len(chain) /\ N - 1 > 0
  <2>1. N >= 2 /\ N \in Nat
    BY <1>1, <1>3, Ranges
  <2> HIDE DEF N
  <2>2. N - 1 \in Nat /\ N - 1 <= N /\ N - 1 > 0
    BY <2>1
  <2> QED BY <2>2 DEF N
<1>5. new \in Seq(Threads) /\ Len(new) = N - 1 /\ \A i \in 1 .. N - 1 : new[i] = chain[i]
  BY <1>1, <1>4, CutIs
<1>6. DOMAIN chain = 1..N /\ DOMAIN new = 1 .. N - 1
  BY <1>1, <1>5, LenProperties
<1>7. chain' = new /\ Running = chain[N]
  BY DEF Running
<1> HIDE DEF new, N
<1>8. \A i \in 1 .. N - 1 : i \in 1..N /\ i # N
  BY <1>1
<1>9. N \in 1..N /\ 1 \in 1 .. N - 1
  BY <1>1, <1>4
<1>10. new[1] = Main
  BY <1>1, <1>5, <1>9
<1>11. \A i, j \in 1 .. N - 1 : new[i] = new[j] => i = j
  BY <1>2, <1>5, <1>8
<1>12. ASSUME NEW u \in Threads
       PROVE (\E i \in 1 .. N - 1 : new[i] = u) <=> (\E i \in 1..N : chain[i] = u) /\ u # Running
  <2>1. ASSUME NEW i \in 1 .. N - 1, new[i] = u PROVE (\E k \in 1..N : chain[k] = u) /\ u # Running
    BY <1>2, <1>5, <1>7, <1>8, <1>9, <2>1
  <2>2. ASSUME NEW i \in 1..N, chain[i] = u, u # Running PROVE \E k \in 1 .. N - 1 : new[k] = u
    <3>1. i # N
      BY <1>7, <2>2
    <3>2. i \in 1 .. N - 1
      BY <1>1, <3>1
    <3> QED BY <1>5, <2>2, <3>2
  <2> QED BY <2>1, <2>2
<1>13. \A u \in Threads : InChain(u) <=> \E i \in 1..N : chain[i] = u
  BY <1>6 DEF InChain
<1>14. \A u \in Threads : InChain(u)' <=> \E i \in 1 .. N - 1 : new[i] = u
  BY <1>6, <1>7 DEF InChain
<1>15. Distinct'
  BY <1>5, <1>7, <1>11 DEF Distinct
<1>16. \A u \in Threads : InChain(u)' <=> InChain(u) /\ u # Running
  BY <1>12, <1>13, <1>14
<1> QED BY <1>4, <1>5, <1>7, <1>10, <1>15, <1>16

LEMMA Leaves ==
  ASSUME CallsInv, ~confused, Running # Main, EndResume, UNCHANGED <<pending, confused, ci>>,
         NEW st \in {"ok", "error", "yield"}, Becomes(status, status', st),
         st = "ok" => Frames = <<>>,
         st = "yield" => /\ Len(Frames) >= 2 /\ Frames[Len(Frames)].what = "yield"
                         /\ \A k \in 1 .. Len(Frames) - 1 : Unrollable(Frames[k])
  PROVE  CallsInv'
<1>1. /\ Running \in Threads /\ InChain(Running) /\ status[Running] = "ok" /\ ~pending[Running]
      /\ FramesOK(Running, Frames) /\ Active \in Seq(EntrySet) /\ Frames \in Seq(FrameSet)
      /\ PartOK(Running, Active, Frames, nny[Running], nCcalls[Running])
  BY RunningOK
<1>2. /\ chain' \in Seq(Threads) /\ Len(chain') > 0 /\ chain'[1] = Main /\ Distinct'
      /\ \A u \in Threads : InChain(u)' <=> InChain(u) /\ u # Running
  BY ChainShorter DEF EndResume
<1>3. Active # <<>> /\ Active[1].op = "resume"
  <2>1. Active # <<>>
    BY <1>1 DEF PartOK, Fits
  <2>2. Active[1].op = "resume"
    BY <1>1, PartTypes
  <2> QED BY <2>1, <2>2
<1>4. Short(Active[1].nCcalls - 1) \in Ushort
  <2>1. Active[1].nCcalls \in Ushort
    BY <1>1, <1>3, EntryOfResume
  <2>2. Active[1].nCcalls - 1 \in Int
    BY <2>1 DEF Ushort
  <2> QED BY <2>2, ShortType
<1>5. /\ ci \in [Threads -> Seq(FrameSet)] /\ cstack \in [Threads -> Seq(EntrySet)]
      /\ nny \in [Threads -> Ushort] /\ nCcalls \in [Threads -> Ushort]
      /\ status \in [Threads -> {"ok", "yield", "error"}]
      /\ pending \in [Threads -> BOOLEAN] /\ confused \in BOOLEAN
  BY DEF CallsInv, TypeOK
<1>6. 1 \in Ushort
  BY DEF Ushort
<1>7. /\ cstack' \in [Threads -> Seq(EntrySet)]
      /\ \A u \in Threads : u # Running => cstack'[u] = cstack[u]
  <2>1. <<>> \in Seq(EntrySet)
    OBVIOUS
  <2> QED BY <1>1, <1>5, <2>1 DEF EndResume, WithActive
<1>8. /\ nny' \in [Threads -> Ushort] /\ nCcalls' \in [Threads -> Ushort]
      /\ \A u \in Threads : u # Running => nny'[u] = nny[u] /\ nCcalls'[u] = nCcalls[u]
  BY <1>1, <1>4, <1>5, <1>6 DEF EndResume
<1>9. /\ status' \in [Threads -> {"ok", "yield", "error"}] /\ status'[Running] = st
      /\ \A u \in Threads : u # Running => status'[u] = status[u]
  BY <1>1, <1>5 DEF Becomes
<1>10. TypeOK'
  BY <1>2, <1>5, <1>7, <1>8, <1>9 DEF TypeOK
<1>11. ASSUME NEW u \in Threads PROVE IF InChain(u)' THEN Runs(u)' ELSE Rests(u)'
  <2>1. CASE u = Running
    <3>1. ~InChain(u)'
      BY <1>2, <2>1
    <3>2. Rests(u)'
      <4>1. ci'[u] = Frames /\ ~pending'[u] /\ status'[u] = st
        BY <1>1, <1>9, <2>1 DEF Frames
      <4>2. CASE st = "ok"
        BY <4>1, <4>2 DEF Rests
      <4>3. CASE st = "error"
        BY <4>1, <4>3 DEF Rests
      <4>4. CASE st = "yield"
        BY <1>1, <2>1, <4>1, <4>4 DEF Rests, Waits
      <4> QED BY <4>2, <4>3, <4>4
    <3> QED BY <3>1, <3>2
  <2>2. CASE u # Running
    <3>1. IF InChain(u) THEN Runs(u) ELSE Rests(u)
      BY DEF CallsInv
    <3>2. Runs(u) => Runs(u)'
      BY <1>7, <1>8, <1>9, <2>2 DEF Runs
    <3>3. Rests(u) => Rests(u)'
      BY <1>9, <2>2 DEF Rests, Waits
    <3>4. InChain(u)' <=> InChain(u)
      BY <1>2, <2>2
    <3> QED BY <3>1, <3>2, <3>3, <3>4
  <2> QED BY <2>1, <2>2
<1> QED BY <1>2, <1>10, <1>11 DEF CallsInv

\* The names of Coroutines.
LEMMA SeenState ==
  /\ C!Running = Running /\ C!vars = <<CallsOf, chain, StatusOf>>
  /\ C!vars' = <<CallsOf', chain', StatusOf'>>
  BY DEF C!Running, Running, C!vars, CallsOf, StatusOf

LEMMA SeenOver ==
  ASSUME CallsInv, ~confused, Running # Main, EndResume, UNCHANGED <<pending, ci>>,
         \A u \in Threads : u # Running => status'[u] = status[u],
         status'[Running] = "error" \/ (status'[Running] = "ok" /\ Frames = <<>>)
  PROVE  C!Over
<1>1. Running \in Threads /\ InChain(Running) /\ status[Running] = "ok" /\ ~pending[Running]
  BY RunningOK
<1>2. \A u \in Threads : InChain(u)' <=> InChain(u) /\ u # Running
  BY ChainShorter DEF EndResume
<1>3. Abstract(<<>>) = <<>>
  BY DEF Abstract, Shown
<1>4. CallsOf' = [CallsOf EXCEPT ![Running] = <<>>]
  BY <1>1, <1>3 DEF CallsOf, Frames
<1>5. StatusOf' = [StatusOf EXCEPT ![Running] = "dead"]
  BY <1>1, <1>2 DEF StatusOf, Frames
<1>6. chain' = SubSeq(chain, 1, Len(chain) - 1)
  BY DEF EndResume, Cut
<1>7. C!Running = Running
  BY SeenState
<1> QED BY <1>4, <1>5, <1>6, <1>7 DEF C!Over, CallsOf, StatusOf

LEMMA DiesOK ==
  ASSUME CallsInv, ~confused, NEW i, Innermost_(Active, i), Active[i].op = "resume",
         Recoverable = {}, Dies,
         UNCHANGED <<pending, confused>>, Frames # <<>>, Top.what \notin {"pcall", "host"}
  PROVE  CallsInv' /\ StepsAsCoroutines
<1> DEFINE F == Frames
<1>1. /\ Running \in Threads /\ status[Running] = "ok" /\ F \in Seq(FrameSet) /\ FramesOK(Running, F)
      /\ Active \in Seq(EntrySet) /\ PartOK(Running, Active, F, nny[Running], nCcalls[Running])
  BY RunningOK
<1>2. /\ i = 1 /\ Running # Main
      /\ \A k \in 1 .. Len(F) - 1 : F[k].what = "pcall" => F[k].ypcall
      /\ \A k \in 1 .. Len(F) : F[k].what # "host"
  BY <1>1, Uncaught
<1>3. EndResume /\ Becomes(status, status', "error") /\ ci' = ci
  BY DEF Dies, Becomes
<1>4. CallsInv'
  <2> DEFINE st == "error"
  <2>1. st \in {"ok", "error", "yield"} /\ Becomes(status, status', st) /\ st # "ok" /\ st # "yield"
    BY <1>3
  <2> HIDE DEF st
  <2> QED BY <1>2, <1>3, <2>1, Leaves
<1>5. C!Over
  <2>1. status \in [Threads -> {"ok", "yield", "error"}]
    BY DEF CallsInv, TypeOK
  <2>2. status'[Running] = "error" /\ \A u \in Threads : u # Running => status'[u] = status[u]
    BY <1>1, <1>3, <2>1 DEF Becomes
  <2> QED BY <1>2, <1>3, <2>2, SeenOver
<1>6. C!Protected = {}
  <2>1. C!Stack = Abstract(F)
    BY <1>1, SeenState DEF C!Stack, Frames
  <2>2. /\ Len(F) \in Nat /\ Shown(F) \in Nat /\ Abstract(F) \in Seq(Names) /\ Len(Abstract(F)) = Shown(F)
        /\ \A k \in 1..Shown(F) : Abstract(F)[k] = Name(F[k]) /\ k \in 1..Len(F)
    BY <1>1, AbstractIs
  <2>3. DOMAIN Abstract(F) = 1..Shown(F)
    BY <2>2, LenProperties
  <2>4. ASSUME NEW k \in 1..Shown(F), Abstract(F)[k] = "pcall" PROVE FALSE
    <3>1. k \in 1..Len(F) /\ F[k].what = "pcall"
      BY <1>2, <2>2, <2>4 DEF Name
    <3>2. k # Len(F)
      BY <3>1 DEF Top
    <3>3. k \in 1 .. Len(F) - 1
      BY <2>2, <3>1, <3>2
    <3>4. F[k].ypcall
      BY <1>2, <3>1, <3>3
    <3>5. k \in Recoverable
      BY <1>1, <3>1, <3>4, LenProperties DEF Recoverable
    <3> QED BY <3>5
  <2> QED BY <2>1, <2>3, <2>4 DEF C!Protected
<1> QED BY <1>4, <1>5, <1>6 DEF C!Throw, C!Next, StepsAsCoroutines

LEMMA ThrownOK ==
  ASSUME CallsInv, ~confused, Thrown(InnermostTry), Frames # <<>>, Top.what \notin {"pcall", "host"}
  PROVE  CallsInv' /\ StepsAsCoroutines
<1> DEFINE i == InnermostTry
           S == Active
<1>1. /\ S \in Seq(EntrySet) /\ Frames \in Seq(FrameSet) /\ FramesOK(Running, Frames)
      /\ PartOK(Running, S, Frames, nny[Running], nCcalls[Running])
  BY RunningOK
<1>2. Innermost_(S, i)
  <2>1. PICK k \in 1..Len(S) : IsTry(S[k])
    BY <1>1, TryExists DEF Top
  <2> QED BY <1>1, <2>1, TryFound
<1>3. UNCHANGED <<pending, confused>>
  BY DEF Thrown
<1>4. \/ S[i].op = "pcall" /\ EndPcall(i) /\ UNCHANGED status
      \/ S[i].op = "resume" /\ Recoverable # {} /\ Recover
      \/ S[i].op = "resume" /\ Recoverable = {} /\ Dies
  BY DEF Thrown
<1> HIDE DEF i
<1>5. CASE S[i].op = "pcall" /\ EndPcall(i) /\ UNCHANGED status
  BY <1>2, <1>3, <1>5, CaughtOK
<1>6. CASE S[i].op = "resume" /\ Recoverable # {} /\ Recover
  BY <1>2, <1>3, <1>6, RecoverOK
<1>7. CASE S[i].op = "resume" /\ Recoverable = {} /\ Dies
  BY <1>2, <1>3, <1>7, DiesOK
<1> QED BY <1>4, <1>5, <1>6, <1>7

LEMMA ExecuteIs ==
  ASSUME CallsInv, In("execute")
  PROVE  ~confused /\ Active[Len(Active)].op = "execute" /\ Len(Active) >= 2 /\ Frames # <<>> /\ Top.what = "lua"
<1>1. ~confused /\ Active[Len(Active)].op = "execute"
  BY DEF In, Innermost
<1> QED BY <1>1, RunningOK, TopIs DEF Top

LEMMA ThrowOK ==
  ASSUME CallsInv, Throw
  PROVE  CallsInv' /\ StepsAsCoroutines
<1>1. Thrown(InnermostTry)
  BY DEF Throw
<1>2. CASE In("execute")
  <2>1. ~confused /\ Frames # <<>> /\ Top.what = "lua"
    BY <1>2, ExecuteIs
  <2> QED BY <1>1, <2>1, ThrownOK
<1>3. CASE InBody("each")
  <2>1. ~confused /\ Frames # <<>> /\ Top.what = "each"
    BY <1>3, BodyIs
  <2> QED BY <1>1, <2>1, ThrownOK
<1> QED BY <1>2, <1>3 DEF Throw

LEMMA CallOverflowOK ==
  ASSUME CallsInv, CallOverflow
  PROVE  CallsInv' /\ StepsAsCoroutines
<1>1. CASE InBody("each") /\ Thrown(InnermostTry)
  <2>1. ~confused /\ Frames # <<>> /\ Top.what = "each"
    BY <1>1, BodyIs
  <2> QED BY <1>1, <2>1, ThrownOK
<1>2. CASE ~(InBody("each") /\ Thrown(InnermostTry))
  BY <1>2, OverflowOK DEF CallOverflow
<1> QED BY <1>1, <1>2

-----------------------------------------------------------------------------
(* Returns.                                                                 *)

LEMMA SeenReturn ==
  ASSUME NEW t, NEW F \in Seq(FrameSet), FramesOK(t, F), F # <<>>, F[Len(F)].what \notin {"host", "yield"}
  PROVE  /\ Len(F) - 1 \in Nat
         /\ Cut(F, Len(F) - 1) \in Seq(FrameSet) /\ FramesOK(t, Cut(F, Len(F) - 1))
         /\ t = Running => Seen(Abstract(F), Abstract(Cut(F, Len(F) - 1)))
<1>1. Len(F) \in Nat /\ Len(F) # 0 /\ Shown(F) = Len(F) /\ Abstract(F) \in Seq(Names) /\ Len(Abstract(F)) = Len(F)
  BY AbstractIs, EmptySeq DEF Shown
<1> DEFINE n == Len(F) - 1
<1>2. n \in Nat /\ n <= Len(F) /\ n <= Shown(F)
  BY <1>1
<1>3. Cut(F, n) \in Seq(FrameSet) /\ FramesOK(t, Cut(F, n))
  BY <1>2, CutIs, FramesCut
<1>4. Abstract(Cut(F, n)) = SubSeq(Abstract(F), 1, n)
  BY <1>2, AbstractCut
<1>5. ASSUME t = Main PROVE Len(F) > 1
  <2>1. Len(F) # 1
    <3>1. ASSUME Len(F) = 1 PROVE FALSE
      <4>1. F[1].what = "host"
        BY <1>5, <3>1 DEF FramesOK, FrameOK
      <4> QED BY <3>1, <4>1
    <3> QED BY <3>1
  <2> QED BY <1>1, <2>1
<1>6. Len(Abstract(F)) > Base(t)
  BY <1>1, <1>5 DEF Base
<1>7. t = Running => Seen(Abstract(F), Abstract(Cut(F, n)))
  BY <1>1, <1>4, <1>6 DEF Seen, Left
<1> QED BY <1>2, <1>3, <1>7

LEMMA PopReentry ==
  ASSUME NEW t, NEW S \in Seq(EntrySet), NEW F \in Seq(FrameSet), NEW n, NEW m,
         PartOK(t, S, F, n, m), Len(S) >= 2, S[Len(S)].op = "execute", F # <<>>, F[Len(F)].reentry
  PROVE  PartOK(t, S, Cut(F, Len(F) - 1), n, m)
<1>1. PICK h \in [1..Len(S) -> Nat], y \in [1..Len(S) -> Nat], c \in [1..Len(S) -> Ushort] :
          Fits(t, S, F, n, m, h, y, c)
  BY DEF PartOK
<1> DEFINE i == h[Len(S) - 1]
           L == Len(F) - 1
           G == Cut(F, L)
<1>2. Link(S[Len(S) - 1], S[Len(S)], F, i, Len(F), y[Len(S) - 1], c[Len(S) - 1], n, m) /\ i \in Nat
  BY <1>1, LastLink
<1>3. IsExecute(S[Len(S) - 1], S[Len(S)], F, i, Len(F))
  BY <1>2 DEF Link, IsBody, IsCall, IsPcall
<1> HIDE DEF i
<1>4. i < Len(F) /\ ~F[i + 1].reentry /\ \A k \in i + 2 .. Len(F) : F[k].reentry
  BY <1>3 DEF IsExecute
<1>5. Len(F) \in Nat
  BY LenProperties
<1>6. i + 1 # Len(F)
  BY <1>4
<1>7. L \in Nat /\ L <= Len(F) /\ i < L
  BY <1>2, <1>4, <1>5, <1>6
<1>8. G \in Seq(FrameSet) /\ Len(G) = L /\ \A k \in 1..L : G[k] = F[k]
  BY <1>7, CutIs
<1> HIDE DEF G
<1>9. \A k \in 1..Len(F) : k <= Len(G) => G[k] = F[k]
  BY <1>5, <1>7, <1>8
<1>10. \A k \in i + 2 .. Len(G) : G[k].reentry
  <2>1. \A k \in i + 2 .. L : k \in i + 2 .. Len(F) /\ k \in 1..L
    BY <1>2, <1>5, <1>7
  <2> QED BY <1>4, <1>8, <2>1
<1>11. \A k \in 1 .. Len(G) - 1 : k < Len(F)
  BY <1>5, <1>7, <1>8
<1>12. PartOK(t, S, G, n, m)
  BY <1>1, <1>7, <1>8, <1>9, <1>10, <1>11, Reenter DEF i
<1> QED BY <1>12 DEF G

LEMMA ReturnOK ==
  ASSUME CallsInv, Return
  PROVE  CallsInv' /\ StepsAsCoroutines
<1> DEFINE S == Active
           F == Frames
           n == nny[Running]
           m == nCcalls[Running]
           G == Cut(F, Len(F) - 1)
<1>1. \/ In("execute") /\ F[Len(F)].reentry /\ Becomes(cstack, cstack', S)
      \/ In("execute") /\ ~F[Len(F)].reentry /\ Becomes(cstack, cstack', Below)
      \/ (InBody("pcall") \/ InBody("resume") \/ InBody("each")) /\ Becomes(cstack, cstack', Below)
  BY DEF Return, Becomes, WithActive, Top, Active
<1>2. /\ Becomes(ci, ci', G) /\ Becomes(nny, nny', n) /\ Becomes(nCcalls, nCcalls', m)
      /\ UNCHANGED <<status, pending, chain, confused>>
  BY DEF Return, PopFrame, WithFrames, Becomes
<1>3. /\ ~confused /\ F # <<>> /\ F[Len(F)].what \notin {"host", "yield"}
      /\ In("execute") => S[Len(S)].op = "execute" /\ Len(S) >= 2
      /\ ~In("execute") => S[Len(S)].op = "body"
  <2>1. CASE In("execute")
    BY <2>1, ExecuteIs DEF Top
  <2>2. CASE ~In("execute")
    <3>1. PICK w \in {"pcall", "resume", "each"} : InBody(w)
      BY <1>1, <2>2
    <3> QED BY <2>2, <3>1, BodyIs DEF Top
  <2> QED BY <2>1, <2>2
<1>a. InBody("pcall") \/ InBody("resume") \/ InBody("each") => S[Len(S)].op = "body"
  BY DEF InBody, In, Innermost
<1>4. /\ S \in Seq(EntrySet) /\ F \in Seq(FrameSet) /\ n \in Ushort /\ m \in Ushort
      /\ FramesOK(Running, F) /\ PartOK(Running, S, F, n, m)
  BY <1>3, RunningOK
<1>5. Below = Cut(S, Len(S) - 1) /\ F = Frames
  BY DEF Below
<1> HIDE DEF S, F, n, m
<1>6. Len(F) - 1 \in Nat /\ G \in Seq(FrameSet) /\ FramesOK(Running, G) /\ Seen(Abstract(F), Abstract(G))
  BY <1>3, <1>4, SeenReturn
<1>7. CASE In("execute") /\ F[Len(F)].reentry /\ Becomes(cstack, cstack', S)
  <2>1. PartOK(Running, S, G, n, m)
    BY <1>3, <1>4, <1>7, PopReentry
  <2> HIDE DEF G
  <2> QED BY <1>2, <1>3, <1>4, <1>5, <1>6, <1>7, <2>1, Stays
<1>8. CASE ~(In("execute") /\ F[Len(F)].reentry /\ Becomes(cstack, cstack', S))
  <2> DEFINE S2 == Cut(S, Len(S) - 1)
  <2>1. Becomes(cstack, cstack', S2)
    BY <1>1, <1>5, <1>8
  <2>2. \/ S[Len(S)].op = "execute" /\ ~F[Len(F)].reentry
        \/ S[Len(S)].op = "body" /\ F[Len(F)].what # "host"
    BY <1>1, <1>3, <1>a, <1>8
  <2>3. Len(S) - 1 \in Nat /\ PartOK(Running, S2, G, n, m)
    BY <1>4, <2>2, PopBody
  <2>4. S2 \in Seq(EntrySet)
    <3>1. Len(S) \in Nat /\ Len(S) - 1 <= Len(S)
      BY <1>4, LenProperties
    <3> QED BY <1>4, <2>3, <3>1, CutIs
  <2> HIDE DEF G, S2
  <2> QED BY <1>2, <1>3, <1>4, <1>5, <1>6, <2>1, <2>3, <2>4, Stays
<1> QED BY <1>7, <1>8

LEMMA EndCallOK ==
  ASSUME CallsInv, EndCall
  PROVE  CallsInv' /\ StepsAsCoroutines
<1> DEFINE S == Active
           F == Frames
           n == nny[Running]
           m == nCcalls[Running]
           n2 == IF S[Len(S)].noyield THEN Short(n - 1) ELSE n
           m2 == Short(m - 1)
           S2 == Cut(S, Len(S) - 1)
           f == [Top EXCEPT !.ypcall = FALSE]
           G == Topped(f)
<1>1. ~confused /\ S[Len(S)].op = "call"
  BY DEF EndCall, In, Innermost
<1>2. /\ S \in Seq(EntrySet) /\ F \in Seq(FrameSet) /\ n \in Ushort /\ m \in Ushort
      /\ FramesOK(Running, F) /\ PartOK(Running, S, F, n, m)
  BY <1>1, RunningOK
<1>3. /\ Becomes(cstack, cstack', S2) /\ Becomes(ci, ci', G) /\ Becomes(nny, nny', n2) /\ Becomes(nCcalls, nCcalls', m2)
      /\ UNCHANGED <<status, pending, chain, confused>>
  BY DEF EndCall, Becomes, WithActive, WithFrames, Below, Innermost
<1>4. Len(S) - 1 \in Nat /\ F # <<>> /\ PartOK(Running, S2, F, n2, m2)
  BY <1>1, <1>2, PopCall
<1>5. n2 \in Ushort /\ m2 \in Ushort
  <2>1. n - 1 \in Int /\ m - 1 \in Int
    BY <1>2 DEF Ushort
  <2> QED BY <1>2, <2>1, ShortType
<1>6. S2 \in Seq(EntrySet)
  <2>1. Len(S) \in Nat /\ Len(S) - 1 <= Len(S)
    BY <1>2, LenProperties
  <2> QED BY <1>2, <1>4, <2>1, CutIs
<1>7. Top = F[Len(F)] /\ G = [F EXCEPT ![Len(F)] = f] /\ F = Frames
  BY DEF Top, Topped
<1>8. f \in FrameSet /\ f.what = Top.what /\ f.reentry = Top.reentry /\ ~f.ypcall
  <2>1. Len(F) \in 1..Len(F)
    BY <1>2, <1>4, EmptySeq, LenProperties
  <2>2. Top \in FrameSet
    BY <1>2, <1>7, <2>1, ElementOfSeq
  <2> QED BY <2>2 DEF FrameSet
<1> HIDE DEF S, F, n, m, n2, m2, S2, f
<1>9. G \in Seq(FrameSet) /\ FramesOK(Running, G) /\ Abstract(G) = Abstract(F)
  BY <1>1, <1>4, <1>7, <1>8, Marked
<1> HIDE DEF G
<1>10. PartOK(Running, S2, G, n2, m2)
  BY <1>2, <1>4, <1>6, <1>7, <1>8, Retop
<1>11. Seen(Abstract(F), Abstract(G))
  BY <1>9 DEF Seen
<1> QED BY <1>1, <1>3, <1>5, <1>6, <1>7, <1>9, <1>10, <1>11, Stays

LEMMA EndTryOK ==
  ASSUME CallsInv, EndTry
  PROVE  CallsInv' /\ StepsAsCoroutines
<1> DEFINE S == Active
           F == Frames
           n == nny[Running]
           m == nCcalls[Running]
           m2 == S[Len(S)].nCcalls
           S2 == Cut(S, Len(S) - 1)
<1>1. ~confused /\ S[Len(S)].op = "pcall"
  BY DEF EndTry, In, Innermost
<1>2. /\ S \in Seq(EntrySet) /\ F \in Seq(FrameSet) /\ n \in Ushort /\ m \in Ushort
      /\ FramesOK(Running, F) /\ PartOK(Running, S, F, n, m)
  BY <1>1, RunningOK
<1>3. /\ Becomes(cstack, cstack', S2) /\ Becomes(ci, ci', F) /\ Becomes(nny, nny', n) /\ Becomes(nCcalls, nCcalls', m2)
      /\ UNCHANGED <<status, pending, chain, confused>>
  BY DEF EndTry, Becomes, WithActive, Below, Innermost, Frames
<1>4. Len(S) - 1 \in Nat /\ PartOK(Running, S2, F, n, m2)
  BY <1>1, <1>2, PopTry
<1>5. Len(S) \in Nat /\ Len(S) - 1 <= Len(S) /\ Len(S) \in 1..Len(S)
  BY <1>2, <1>4, LenProperties
<1>6. S2 \in Seq(EntrySet)
  BY <1>2, <1>4, <1>5, CutIs
<1>7. m2 \in Ushort
  <2>1. S[Len(S)] \in EntrySet
    BY <1>2, <1>5, ElementOfSeq
  <2> QED BY <1>1, <2>1 DEF EntrySet
<1>8. Seen(Abstract(Frames), Abstract(F))
  BY DEF Seen
<1> HIDE DEF S, F, n, m, m2, S2
<1> QED BY <1>1, <1>2, <1>3, <1>4, <1>6, <1>7, <1>8, Stays

-----------------------------------------------------------------------------
(* unroll                                                                   *)

LEMMA UnrollIs ==
  ASSUME NEW t, NEW S \in Seq(EntrySet), NEW F \in Seq(FrameSet), NEW n, NEW m,
         PartOK(t, S, F, n, m), FramesOK(t, F), S[Len(S)].op = "unroll"
  PROVE  /\ t # Main /\ n = 0 /\ \A k \in 1 .. Len(F) - 1 : Unrollable(F[k])
         /\ S[1] \in EntrySet /\ S[1].op = "resume"
         /\ S = <<S[1], Unroll>> /\ Cut(S, Len(S) - 1) = <<S[1]>>
<1>1. t # Main /\ Len(S) = 2 /\ n = 0 /\ S[1].op = "resume"
  BY TopIs
<1>2. \A k \in 1 .. Len(F) - 1 : Unrollable(F[k])
  BY <1>1, Quiet
<1>3. S[1] \in EntrySet /\ S[2] \in EntrySet
  <2>1. 1 \in 1..Len(S) /\ 2 \in 1..Len(S)
    BY <1>1
  <2> QED BY <2>1, ElementOfSeq
<1>4. S[2] = Unroll
  <2>1. S[2].op = "unroll"
    BY <1>1
  <2> QED BY <1>3, <2>1 DEF EntrySet, Unroll
<1>5. S = <<S[1], Unroll>>
  <2> DEFINE s == <<S[1], Unroll>>
  <2>1. s \in Seq(EntrySet) /\ Len(s) = 2 /\ s[1] = S[1] /\ s[2] = S[2]
    BY <1>3, <1>4
  <2> HIDE DEF s
  <2>2. \A i \in 1..2 : s[i] = S[i]
    BY <2>1
  <2>3. s = S
    BY <1>1, <2>1, <2>2, SeqEqual
  <2> QED BY <2>3 DEF s
<1>6. Cut(S, Len(S) - 1) = <<S[1]>>
  <2> DEFINE s == <<S[1]>>
             o == 1
             u == Cut(S, o)
  <2>1. s \in Seq(EntrySet) /\ Len(s) = 1 /\ s[1] = S[1]
    BY <1>3
  <2>2. o \in Nat /\ o <= Len(S) /\ o = 1 /\ Len(S) - 1 = o
    BY <1>1
  <2> HIDE DEF o
  <2>3. u \in Seq(EntrySet) /\ Len(u) = o /\ \A i \in 1..o : u[i] = S[i]
    BY <2>2, CutIs
  <2> HIDE DEF s, u
  <2>4. \A i \in 1..1 : s[i] = u[i]
    BY <2>1, <2>2, <2>3
  <2>5. s = u
    BY <2>1, <2>2, <2>3, <2>4, SeqEqual
  <2> QED BY <2>2, <2>5 DEF s, u
<1> QED BY <1>1, <1>2, <1>3, <1>5, <1>6

\* How many frames unroll has below it does not matter, if all can be finished.
LEMMA UnrolledPart ==
  ASSUME NEW t, NEW S \in Seq(EntrySet), NEW F \in Seq(FrameSet), NEW n, NEW m,
         PartOK(t, S, F, n, m), FramesOK(t, F), S[Len(S)].op = "unroll",
         NEW G \in Seq(FrameSet), NEW m2 \in Ushort, \A k \in 1 .. Len(G) - 1 : Unrollable(G[k])
  PROVE  PartOK(t, S, G, 0, m2)
<1>1. t # Main /\ S[1] \in EntrySet /\ S[1].op = "resume" /\ S = <<S[1], Unroll>>
  BY UnrollIs
<1> DEFINE r == S[1]
<1>2. r \in EntrySet /\ r.op = "resume" /\ S = <<r, Unroll>>
  BY <1>1
<1> HIDE DEF r
<1>3. PartOK(t, <<r, Unroll>>, G, 0, m2)
  BY <1>1, <1>2, Unrolled
<1> QED BY <1>2, <1>3

\* luaV_execute of the top frame: it runs the Lua functions from the last one without CIST_REENTRY.
LEMMA UnrollLua ==
  ASSUME NEW t, NEW S \in Seq(EntrySet), NEW F \in Seq(FrameSet), NEW n, NEW m,
         PartOK(t, S, F, n, m), FramesOK(t, F), S[Len(S)].op = "unroll", F # <<>>, F[Len(F)].what = "lua"
  PROVE  PartOK(t, Append(S, Execute), F, n, m)
<1>1. t # Main /\ n = 0 /\ \A k \in 1 .. Len(F) - 1 : Unrollable(F[k])
  BY UnrollIs
<1>2. m \in Ushort /\ Len(F) \in Nat /\ Len(S) \in Nat \ {0}
  BY PartTypes
<1>3. Len(F) # 0 /\ 1 \in 1..Len(F) /\ Len(F) \in 1..Len(F)
  BY <1>2, EmptySeq
<1> DEFINE T == {k \in 1..Len(F) : ~F[k].reentry}
<1>4. PICK k \in T : \A l \in T : l <= k
  <2>1. 1 \in T
    BY <1>3 DEF FramesOK, FrameOK
  <2>2. T # {} /\ T \subseteq 1..Len(F)
    BY <2>1
  <2> HIDE DEF T
  <2> QED BY <1>2, <2>2, Greatest
<1>5. k \in 1..Len(F) /\ ~F[k].reentry
  OBVIOUS
<1>6. \A l \in k + 1 .. Len(F) : F[l].reentry
  <2>1. ASSUME NEW l \in k + 1 .. Len(F), ~F[l].reentry PROVE FALSE
    <3>1. l \in T /\ ~(l <= k)
      BY <1>2, <1>5, <2>1
    <3> QED BY <1>4, <3>1
  <2> QED BY <2>1
<1> HIDE DEF T
<1>7. F[k].what = "lua"
  <2>1. CASE k = Len(F)
    BY <2>1
  <2>2. CASE k # Len(F)
    <3> DEFINE l == k + 1
    <3>1. l \in k + 1 .. Len(F) /\ l \in 1..Len(F) /\ l - 1 = k
      BY <1>2, <1>5, <2>2
    <3> HIDE DEF l
    <3>2. F[l].reentry
      BY <1>6, <3>1
    <3>3. FrameOK(t, F, l)
      BY <3>1 DEF FramesOK
    <3>4. F[l - 1].what = "lua"
      BY <3>2, <3>3 DEF FrameOK
    <3> QED BY <3>1, <3>4
  <2> QED BY <2>1, <2>2
<1> DEFINE i == k - 1
           E == Cut(F, i)
<1>8. i \in Nat /\ i <= Len(F) /\ i + 1 = k /\ i < Len(F)
  BY <1>2, <1>5
<1>9. E \in Seq(FrameSet) /\ Len(E) = i /\ \A l \in 1..i : E[l] = F[l]
  BY <1>8, CutIs
<1> HIDE DEF E, i
<1>10. PartOK(t, S, E, 0, m)
  <2>1. \A l \in 1 .. Len(E) - 1 : Unrollable(E[l])
    <3>1. \A l \in 1 .. i - 1 : l \in 1 .. Len(F) - 1 /\ l \in 1..i
      BY <1>2, <1>8
    <3> QED BY <1>1, <1>9, <3>1
  <2> QED BY <1>2, <1>9, <2>1, UnrolledPart
<1>11. Execute \in EntrySet /\ Execute.op = "execute"
  BY FrameTypes
<1>12. Link(S[Len(S)], Execute, F, i, Len(F), 0, m, 0, m)
  <2>1. \A l \in i + 2 .. Len(F) : F[l].reentry
    BY <1>6, <1>8
  <2> QED BY <1>2, <1>5, <1>7, <1>8, <1>11, <2>1 DEF Link, IsExecute, FromExecute
<1>13. Base(t) = 0
  BY <1>1 DEF Base
<1>14. Len(E) <= Len(F) /\ \A l \in 1..Len(E) : F[l] = E[l]
  BY <1>8, <1>9
<1>15. 0 \in Nat /\ 0 <= 0
  OBVIOUS
<1>16. Link(S[Len(S)], Execute, F, Len(E), Len(F), 0, m, 0, m)
  BY <1>9, <1>12
<1>17. PartOK(t, Append(S, Execute), F, 0, m)
  BY <1>1, <1>2, <1>9, <1>10, <1>11, <1>13, <1>14, <1>15, <1>16, Push
<1> QED BY <1>1, <1>17

LEMMA UnrollStepOK ==
  ASSUME CallsInv, UnrollStep
  PROVE  CallsInv' /\ StepsAsCoroutines
<1> DEFINE S == Active
           F == Frames
           n == nny[Running]
           m == nCcalls[Running]
<1>1. ~confused /\ S[Len(S)].op = "unroll" /\ UNCHANGED <<status, pending, nny, chain, confused>>
  BY DEF UnrollStep, In, Innermost
<1>2. /\ S \in Seq(EntrySet) /\ F \in Seq(FrameSet) /\ n \in Ushort /\ m \in Ushort
      /\ FramesOK(Running, F) /\ PartOK(Running, S, F, n, m)
  BY <1>1, RunningOK
<1>3. Becomes(nny, nny', n)
  BY <1>1 DEF Becomes
<1>4. \/ F = <<>> /\ cstack' = WithActive(Below) /\ UNCHANGED <<ci, nCcalls>>
      \/ F # <<>> /\ Top.what = "lua" /\ cstack' = WithActive(Append(Active, Execute)) /\ UNCHANGED <<ci, nCcalls>>
      \/ F # <<>> /\ FinishCcall
  BY DEF UnrollStep
<1>5. Top = F[Len(F)] /\ Below = Cut(S, Len(S) - 1) /\ F = Frames /\ S = Active
  BY DEF Top, Below
<1>6. UNCHANGED <<ci, nCcalls>> => Becomes(ci, ci', F) /\ Becomes(nCcalls, nCcalls', m)
  BY DEF Becomes, Frames
<1>7. /\ Running # Main /\ n = 0 /\ \A k \in 1 .. Len(F) - 1 : Unrollable(F[k])
      /\ S[1] \in EntrySet /\ S[1].op = "resume" /\ Cut(S, Len(S) - 1) = <<S[1]>>
  BY <1>1, <1>2, UnrollIs
<1> HIDE DEF S, F
<1>8. Seen(Abstract(F), Abstract(F))
  BY DEF Seen
<1>9. CASE F = <<>> /\ cstack' = WithActive(Below) /\ UNCHANGED <<ci, nCcalls>>
  <2> DEFINE r == S[1]
             S2 == <<r>>
  <2>1. Becomes(cstack, cstack', S2)
    BY <1>5, <1>7, <1>9 DEF Becomes, WithActive
  <2>2. r \in EntrySet /\ r.op = "resume" /\ S2 \in Seq(EntrySet)
    BY <1>7
  <2> HIDE DEF r, m
  <2>3. PartOK(Running, S2, F, n, m)
    BY <1>2, <1>7, <1>9, <2>2, Fresh
  <2> HIDE DEF S2, n
  <2> QED BY <1>1, <1>2, <1>3, <1>5, <1>6, <1>8, <1>9, <2>1, <2>2, <2>3, Stays
<1>10. CASE F # <<>> /\ Top.what = "lua" /\ cstack' = WithActive(Append(Active, Execute)) /\ UNCHANGED <<ci, nCcalls>>
  <2> DEFINE S2 == Append(S, Execute)
  <2>1. Becomes(cstack, cstack', S2)
    BY <1>5, <1>10 DEF Becomes, WithActive
  <2>2. S2 \in Seq(EntrySet)
    BY <1>2, FrameTypes, AppendIs
  <2> HIDE DEF n, m
  <2>3. PartOK(Running, S2, F, n, m)
    BY <1>1, <1>2, <1>5, <1>10, UnrollLua
  <2> HIDE DEF S2
  <2> QED BY <1>1, <1>2, <1>3, <1>5, <1>6, <1>8, <1>10, <2>1, <2>2, <2>3, Stays
<1>11. CASE F # <<>> /\ FinishCcall
  <2> DEFINE f == [Top EXCEPT !.ypcall = FALSE]
             G == Topped(f)
             m2 == Short(m - 1)
             S2 == Append(S, Body)
             L == Len(F) - 1
             E == Cut(F, L)
  <2>1. Becomes(cstack, cstack', S2) /\ Becomes(ci, ci', G) /\ Becomes(nCcalls, nCcalls', m2)
    BY <1>5, <1>11 DEF Becomes, FinishCcall, WithActive, WithFrames
  <2>2. f \in FrameSet /\ f.what = Top.what /\ f.reentry = Top.reentry /\ ~f.ypcall /\ f.what = "pcall"
    <3>1. Len(F) \in 1..Len(F)
      BY <1>2, <1>11, EmptySeq, LenProperties
    <3>2. Top \in FrameSet
      BY <1>2, <1>5, <3>1, ElementOfSeq
    <3> QED BY <1>11, <3>2 DEF FrameSet, FinishCcall
  <2> HIDE DEF f
  <2>3. /\ G \in Seq(FrameSet) /\ Len(G) = Len(F) /\ G[Len(F)] = f
        /\ \A k \in 1 .. Len(F) - 1 : G[k] = F[k]
        /\ FramesOK(Running, G) /\ Abstract(G) = Abstract(F)
    BY <1>1, <1>5, <1>11, <2>2, Marked
  <2>4. L \in Nat /\ L <= Len(F) /\ L + 1 = Len(F) /\ Len(F) \in Nat
    <3>1. Len(F) \in Nat /\ Len(F) # 0
      BY <1>2, <1>11, EmptySeq, LenProperties
    <3> QED BY <3>1
  <2>5. E \in Seq(FrameSet) /\ Len(E) = L /\ \A k \in 1..L : E[k] = F[k]
    BY <1>2, <2>4, CutIs
  <2>6. m2 \in Ushort
    <3>1. m - 1 \in Int
      BY <1>2 DEF Ushort
    <3> QED BY <3>1, ShortType
  <2>7. Body \in EntrySet /\ Body.op = "body" /\ S2 \in Seq(EntrySet)
    BY <1>2, FrameTypes, AppendIs
  <2> HIDE DEF G, E, m2, n, m, L
  <2>8. PartOK(Running, S, E, 0, m2)
    <3>1. \A k \in 1 .. Len(E) - 1 : k \in 1..L /\ k \in 1 .. Len(F) - 1
      BY <2>4, <2>5
    <3>2. \A k \in 1 .. Len(E) - 1 : Unrollable(E[k])
      BY <1>7, <2>5, <3>1
    <3> QED BY <1>1, <1>2, <2>5, <2>6, <3>2, UnrolledPart
  <2>9. Link(S[Len(S)], Body, G, Len(E), Len(G), 0, m2, 0, m2)
    <3>1. Len(G) = Len(E) + 1 /\ Len(G) <= Len(G) /\ G[Len(G)].what \in CFunctions
      BY <2>2, <2>3, <2>4, <2>5 DEF CFunctions
    <3> QED BY <1>1, <2>7, <3>1 DEF Link, IsBody
  <2>10. \A k \in 1 .. Len(G) - 1 : Unrollable(G[k])
    BY <1>7, <2>3
  <2>11. Len(E) <= Len(G) /\ \A k \in 1..Len(E) : G[k] = E[k]
    <3>1. \A k \in 1..Len(E) : k \in 1 .. Len(F) - 1 /\ k \in 1..L
      BY <2>4, <2>5
    <3> QED BY <2>3, <2>4, <2>5, <3>1
  <2>12. Base(Running) = 0 /\ 0 \in Nat /\ 0 <= 0
    BY <1>7 DEF Base
  <2>13. PartOK(Running, S2, G, n, m2)
    BY <1>2, <1>7, <2>3, <2>5, <2>6, <2>7, <2>8, <2>9, <2>10, <2>11, <2>12, Push
  <2>14. Seen(Abstract(F), Abstract(G))
    BY <2>3 DEF Seen
  <2> HIDE DEF S2
  <2> QED BY <1>1, <1>2, <1>3, <1>5, <2>1, <2>3, <2>6, <2>7, <2>13, <2>14, Stays
<1> QED BY <1>4, <1>9, <1>10, <1>11

-----------------------------------------------------------------------------
(* Coroutines.                                                              *)

LEMMA YieldOK ==
  ASSUME CallsInv, Yield
  PROVE  CallsInv' /\ StepsAsCoroutines
<1> DEFINE i == InnermostTry
           S == Active
           F == Frames
           n == nny[Running]
           m == nCcalls[Running]
<1>1. ~confused /\ S[Len(S)].op = "body" /\ F # <<>> /\ Top.what = "yield" /\ Top = F[Len(F)]
  BY BodyIs DEF Yield
<1>2. /\ S \in Seq(EntrySet) /\ F \in Seq(FrameSet) /\ n \in Ushort /\ m \in Ushort
      /\ FramesOK(Running, F) /\ PartOK(Running, S, F, n, m)
      /\ Running \in Threads /\ status[Running] = "ok" /\ ~pending[Running]
  BY <1>1, RunningOK
<1>3. CASE n > 0
  <2>1. Thrown(i)
    BY <1>3 DEF Yield
  <2> HIDE DEF F
  <2> QED BY <1>1, <2>1, ThrownOK DEF F
<1>4. CASE ~(n > 0)
  <2>1. n = 0
    BY <1>2, <1>4 DEF Ushort
  <2>2. Innermost_(S, i)
    <3>1. PICK k \in 1..Len(S) : IsTry(S[k])
      BY <1>1, <1>2, TryExists
    <3> QED BY <1>2, <3>1, TryFound
  <2>3. /\ status' = [status EXCEPT ![Running] = "yield"]
        /\ IF S[i].op = "pcall" THEN EndPcall(i) ELSE EndResume /\ UNCHANGED ci
        /\ UNCHANGED <<pending, confused>>
    BY <1>4 DEF Yield
  <2> HIDE DEF i
  <2>4. Running # Main /\ S[1].op = "resume" /\ \A k \in 1 .. Len(F) - 1 : Unrollable(F[k])
    BY <1>2, <2>1, Quiet
  <2>5. S[i].op # "pcall"
    <3>1. i \in 1..Len(S) /\ IsTry(S[i])
      BY <2>2 DEF Innermost_
    <3>2. i = 1 \/ i = Len(S)
      BY <1>2, <2>1, <3>1, Quiet
    <3> QED BY <1>1, <2>4, <3>2
  <2>6. EndResume /\ UNCHANGED ci
    BY <2>3, <2>5
  <2>7. Len(F) \in Nat /\ Len(F) >= 2
    <3>1. Len(F) \in Nat /\ Len(F) # 0
      BY <1>1, <1>2, EmptySeq, LenProperties
    <3>2. Len(F) # 1
      <4>1. ASSUME Len(F) = 1 PROVE FALSE
        <5>1. F[1].what = "lua"
          BY <1>2, <2>4, <4>1 DEF FramesOK, FrameOK
        <5> QED BY <1>1, <4>1, <5>1
      <4> QED BY <4>1
    <3> DEFINE N == Len(F)
    <3>3. N \in Nat /\ N # 0 /\ N # 1
      BY <3>1, <3>2
    <3> HIDE DEF N
    <3>4. N \in Nat /\ N >= 2
      BY <3>3
    <3> QED BY <3>4 DEF N
  <2>8. CallsInv'
    <3> DEFINE st == "yield"
    <3>1. st \in {"ok", "error", "yield"} /\ Becomes(status, status', st) /\ st # "ok"
      BY <2>3 DEF Becomes
    <3> HIDE DEF st
    <3> QED BY <1>1, <2>3, <2>4, <2>6, <2>7, <3>1, Leaves
  <2>9. C!Yield
    <3> DEFINE A == Abstract(F)
    <3>1. C!Stack = A /\ C!Running = Running
      BY <1>2, SeenState DEF C!Stack, Frames
    <3>2. /\ Shown(F) = Len(F) - 1 /\ A \in Seq(Names) /\ Len(A) = Shown(F)
          /\ \A k \in 1..Shown(F) : A[k] = Name(F[k])
      BY <1>1, <1>2, AbstractIs
    <3>3. DOMAIN A = 1 .. Len(F) - 1
      BY <3>2, LenProperties
    <3> HIDE DEF A
    <3>4. A # <<>>
      BY <2>7, <3>2, EmptySeq
    <3>5. ASSUME NEW k \in DOMAIN A PROVE A[k] # "each"
      <4>1. k \in 1..Len(F) /\ k \in 1 .. Len(F) - 1 /\ k \in 1..Shown(F)
        BY <2>7, <3>2, <3>3
      <4>2. Unrollable(F[k]) /\ FrameOK(Running, F, k)
        BY <1>2, <2>4, <4>1 DEF FramesOK
      <4>3. F[k].what \in {"lua", "pcall"}
        BY <4>2 DEF FrameOK, Unrollable
      <4> QED BY <3>2, <4>1, <4>3 DEF Name
    <3>6. \A u \in Threads : InChain(u)' <=> InChain(u) /\ u # Running
      BY <1>1, <2>4, <2>6, ChainShorter DEF EndResume
    <3>7. /\ status' \in [Threads -> {"ok", "yield", "error"}] /\ status'[Running] = "yield"
          /\ \A u \in Threads : u # Running => status'[u] = status[u]
      BY <1>2, <2>3 DEF CallsInv, TypeOK
    <3>8. CallsOf' = CallsOf
      <4>1. \A u \in Threads : status'[u] = "error" <=> status[u] = "error"
        BY <1>2, <3>7
      <4> QED BY <2>6, <4>1 DEF CallsOf
    <3>9. StatusOf' = StatusOf
      <4>1. ci[Running] # <<>> /\ ci' = ci /\ pending' = pending
        BY <1>1, <2>3, <2>6 DEF Frames
      <4>2. \A u \in Threads : status'[u] = "error" \/ (ci'[u] = <<>> /\ ~InChain(u)')
                                 <=> status[u] = "error" \/ (ci[u] = <<>> /\ ~InChain(u))
        BY <1>2, <3>6, <3>7, <4>1
      <4> QED BY <4>1, <4>2 DEF StatusOf
    <3>10. chain' = SubSeq(chain, 1, Len(chain) - 1)
      BY <2>6 DEF EndResume, Cut
    <3> QED BY <2>4, <3>1, <3>4, <3>5, <3>8, <3>9, <3>10 DEF C!Yield, CallsOf, StatusOf
  <2> QED BY <2>8, <2>9 DEF C!Next, StepsAsCoroutines
<1> QED BY <1>3, <1>4

LEMMA EndCoroutineOK ==
  ASSUME CallsInv, EndCoroutine
  PROVE  CallsInv' /\ StepsAsCoroutines
<1>1. ~confused /\ Active[Len(Active)].op = "resume" /\ EndResume /\ UNCHANGED <<ci, status, pending, confused>>
  BY DEF EndCoroutine, In, Innermost
<1>2. Running # Main /\ Frames = <<>> /\ Running \in Threads /\ status[Running] = "ok"
  BY <1>1, RunningOK, TopIs
<1>3. CallsInv'
  <2> DEFINE st == "ok"
  <2>1. st \in {"ok", "error", "yield"} /\ Becomes(status, status', st) /\ st # "yield"
    BY <1>1, <1>2 DEF Becomes
  <2> HIDE DEF st
  <2> QED BY <1>1, <1>2, <2>1, Leaves
<1>4. C!Over
  BY <1>1, <1>2, SeenOver
<1>5. C!Stack = <<>>
  <2>1. Abstract(<<>>) = <<>>
    BY DEF Abstract, Shown
  <2>2. C!Stack = Abstract(Frames)
    BY <1>2, SeenState DEF C!Stack, Frames
  <2> QED BY <1>2, <2>1, <2>2
<1> QED BY <1>3, <1>4, <1>5 DEF C!Finish, C!Next, StepsAsCoroutines

LEMMA ChainLonger ==
  ASSUME CallsInv, ~confused, NEW t \in Threads, ~InChain(t), chain' = Append(chain, t)
  PROVE  /\ chain' \in Seq(Threads) /\ Len(chain') > 0 /\ chain'[1] = Main /\ Distinct'
         /\ \A u \in Threads : InChain(u)' <=> InChain(u) \/ u = t
<1> DEFINE N == Len(chain)
           new == Append(chain, t)
<1>1. chain \in Seq(Threads) /\ N \in Nat \ {0} /\ chain[1] = Main
  BY RunningOK DEF CallsInv
<1>2. \A i, j \in 1..N : chain[i] = chain[j] => i = j
  BY DEF CallsInv, Distinct
<1>3. new \in Seq(Threads) /\ Len(new) = N + 1 /\ new[N + 1] = t /\ \A i \in 1..N : new[i] = chain[i]
  BY <1>1, AppendIs
<1>4. DOMAIN chain = 1..N /\ DOMAIN new = 1 .. N + 1
  BY <1>1, <1>3, LenProperties
<1>5. \A i \in 1..N : chain[i] # t
  BY <1>4 DEF InChain
<1>6. chain' = new
  OBVIOUS
<1>7. \A u \in Threads : InChain(u) <=> \E i \in 1..N : chain[i] = u
  BY <1>4 DEF InChain
<1>8. \A u \in Threads : InChain(u)' <=> \E i \in 1 .. N + 1 : new[i] = u
  BY <1>4, <1>6 DEF InChain
<1> HIDE DEF N, new
<1>9. /\ 1 \in 1..N /\ N + 1 \in 1 .. N + 1
      /\ \A p \in 1 .. N + 1 : p = N + 1 \/ p \in 1..N
      /\ \A p \in 1..N : p \in 1 .. N + 1
  BY <1>1, Ranges
<1>10. \A i, j \in 1 .. N + 1 : new[i] = new[j] => i = j
  <2>1. \A i, j \in 1..N : new[i] = new[j] => i = j
    BY <1>2, <1>3
  <2>2. \A i \in 1..N : new[i] # new[N + 1]
    BY <1>3, <1>5
  <2> QED BY <1>9, <2>1, <2>2
<1>11. \A u \in Threads : InChain(u)' <=> InChain(u) \/ u = t
  <2>1. ASSUME NEW u \in Threads
        PROVE (\E i \in 1 .. N + 1 : new[i] = u) <=> (\E i \in 1..N : chain[i] = u) \/ u = t
    BY <1>3, <1>9
  <2> QED BY <1>7, <1>8, <2>1
<1>12. Distinct' /\ chain'[1] = Main
  BY <1>1, <1>3, <1>6, <1>9, <1>10 DEF Distinct
<1>13. Len(chain') > 0
  BY <1>1, <1>3, <1>6
<1> QED BY <1>3, <1>6, <1>11, <1>12, <1>13

\* The value of a variable for the thread u, after the step.
Sets(v, w, u, e) == w = [v EXCEPT ![u] = e]

\* A coroutine gets control, with the part of the C stack and the frames that it then has.
LEMMA Resumed ==
  ASSUME CallsInv, ~confused, NEW t \in Threads, ~InChain(t), chain' = Append(chain, t), confused' = confused,
         NEW S \in Seq(EntrySet), NEW F \in Seq(FrameSet), NEW m \in Ushort,
         FramesOK(t, F), PartOK(t, S, F, 0, m),
         NEW G \in Seq(FrameSet), FramesOK(Running, G),
         PartOK(Running, Active, G, nny[Running], nCcalls[Running]),
         Sets(cstack, cstack', t, S), Sets(WithFrames(G), ci', t, F),
         Sets(nny, nny', t, 0), Sets(nCcalls, nCcalls', t, m),
         Sets(status, status', t, "ok"), Sets(pending, pending', t, FALSE)
  PROVE  /\ CallsInv'
         /\ ci'[t] = F /\ ci'[Running] = G
         /\ \A u \in Threads : u # t => status'[u] = status[u] /\ pending'[u] = pending[u]
         /\ status'[t] = "ok" /\ ~pending'[t]
         /\ \A u \in Threads : u # t /\ u # Running => ci'[u] = ci[u]
         /\ \A u \in Threads : InChain(u)' <=> InChain(u) \/ u = t
<1>1. Running \in Threads /\ InChain(Running) /\ Running # t
  BY RunningOK
<1>2. /\ chain' \in Seq(Threads) /\ Len(chain') > 0 /\ chain'[1] = Main /\ Distinct'
      /\ \A u \in Threads : InChain(u)' <=> InChain(u) \/ u = t
  BY ChainLonger
<1>3. /\ ci \in [Threads -> Seq(FrameSet)] /\ cstack \in [Threads -> Seq(EntrySet)]
      /\ nny \in [Threads -> Ushort] /\ nCcalls \in [Threads -> Ushort]
      /\ status \in [Threads -> {"ok", "yield", "error"}]
      /\ pending \in [Threads -> BOOLEAN] /\ confused \in BOOLEAN
  BY DEF CallsInv, TypeOK
<1>4. /\ ci' \in [Threads -> Seq(FrameSet)] /\ ci'[t] = F /\ ci'[Running] = G
      /\ \A u \in Threads : u # t /\ u # Running => ci'[u] = ci[u]
  BY <1>1, <1>3 DEF WithFrames, Sets
<1>5. /\ cstack' \in [Threads -> Seq(EntrySet)] /\ cstack'[t] = S
      /\ \A u \in Threads : u # t => cstack'[u] = cstack[u]
  BY <1>3 DEF Sets
<1>6. /\ nny' \in [Threads -> Ushort] /\ nny'[t] = 0 /\ \A u \in Threads : u # t => nny'[u] = nny[u]
  BY <1>3, ZeroIsShort DEF Sets
<1>7. /\ nCcalls' \in [Threads -> Ushort] /\ nCcalls'[t] = m
      /\ \A u \in Threads : u # t => nCcalls'[u] = nCcalls[u]
  BY <1>3 DEF Sets
<1>8. /\ status' \in [Threads -> {"ok", "yield", "error"}] /\ status'[t] = "ok"
      /\ pending' \in [Threads -> BOOLEAN] /\ ~pending'[t]
      /\ \A u \in Threads : u # t => status'[u] = status[u] /\ pending'[u] = pending[u]
  BY <1>3 DEF Sets
<1>9. TypeOK'
  BY <1>2, <1>3, <1>4, <1>5, <1>6, <1>7, <1>8 DEF TypeOK
<1>10. ASSUME NEW u \in Threads PROVE IF InChain(u)' THEN Runs(u)' ELSE Rests(u)'
  <2>1. IF InChain(u) THEN Runs(u) ELSE Rests(u)
    BY DEF CallsInv
  <2>2. CASE u = t
    <3>1. Runs(u)'
      BY <1>4, <1>5, <1>6, <1>7, <1>8, <2>2 DEF Runs
    <3> QED BY <1>2, <2>2, <3>1
  <2>3. CASE u = Running
    <3>1. Runs(u)'
      BY <1>1, <1>4, <1>5, <1>6, <1>7, <1>8, <2>1, <2>3 DEF Runs, Active
    <3> QED BY <1>1, <1>2, <2>3, <3>1
  <2>4. CASE u # t /\ u # Running
    <3>1. InChain(u)' <=> InChain(u)
      BY <1>2, <2>4
    <3>2. Runs(u) => Runs(u)'
      BY <1>4, <1>5, <1>6, <1>7, <1>8, <2>4 DEF Runs
    <3>3. Rests(u) => Rests(u)'
      BY <1>4, <1>8, <2>4 DEF Rests, Waits
    <3> QED BY <2>1, <3>1, <3>2, <3>3
  <2> QED BY <2>2, <2>3, <2>4
<1> QED BY <1>2, <1>4, <1>8, <1>9, <1>10 DEF CallsInv

LEMMA ResumeOK ==
  ASSUME CallsInv, NEW t \in Threads, Resume(t)
  PROVE  CallsInv' /\ StepsAsCoroutines
<1> DEFINE n == Short(nCcalls[Running] + 1)
           r == [op |-> "resume", nCcalls |-> n]
           G == Topped(Called)
<1>1. /\ ~confused /\ Frames # <<>> /\ Top.what = "resume" /\ ~InChain(t) /\ confused' = confused
      /\ Called \in FrameSet /\ Called.what = Top.what /\ Called.reentry = Top.reentry /\ ~Called.ypcall
      /\ Top = Frames[Len(Frames)]
  BY BodyIs DEF Resume
<1>2. /\ Frames \in Seq(FrameSet) /\ nCcalls[Running] \in Ushort /\ Running \in Threads /\ InChain(Running)
      /\ status[Running] = "ok" /\ ~pending[Running] /\ Running # t
  BY <1>1, RunningOK
<1>3. /\ G \in Seq(FrameSet) /\ FramesOK(Running, G) /\ Abstract(G) = Abstract(Frames)
      /\ PartOK(Running, Active, G, nny[Running], nCcalls[Running])
  BY <1>1, Marked
<1>4. Rests(t) /\ t # Main
  <2>1. Rests(t)
    BY <1>1 DEF CallsInv
  <2>2. InChain(Main)
    <3>1. 1 \in DOMAIN chain /\ chain[1] = Main
      BY <1>1, RunningOK, LenProperties DEF CallsInv
    <3> QED BY <3>1 DEF InChain
  <2> QED BY <1>1, <2>1, <2>2
<1>5. n \in Ushort
  <2>1. nCcalls[Running] + 1 \in Int
    BY <1>2 DEF Ushort
  <2> QED BY <2>1, ShortType
<1>6. /\ Start(t, n) \/ GoOn(t, n)
      /\ Sets(nny, nny', t, 0)
  BY DEF Resume, Sets
<1>7. ci[t] \in Seq(FrameSet) /\ status \in [Threads -> {"ok", "yield", "error"}] /\ pending \in [Threads -> BOOLEAN]
  BY DEF CallsInv, TypeOK
<1> HIDE DEF n
<1>8. r \in EntrySet /\ r.op = "resume" /\ Execute \in EntrySet /\ Execute.op = "execute" /\ Unroll \in EntrySet
  BY <1>5, FrameTypes DEF EntrySet, Unroll
<1>9. status[t] # "error"
  BY <1>6 DEF Start, GoOn
<1> HIDE DEF r, G
<1>10. \E F \in Seq(FrameSet) :
         /\ CallsInv' /\ ci'[t] = F /\ ci'[Running] = G
         /\ \A u \in Threads : u # t => status'[u] = status[u] /\ pending'[u] = pending[u]
         /\ status'[t] = "ok" /\ ~pending'[t]
         /\ \A u \in Threads : u # t /\ u # Running => ci'[u] = ci[u]
         /\ \A u \in Threads : InChain(u)' <=> InChain(u) \/ u = t
         /\ Abstract(F) = (IF pending[t] THEN <<"lua">> ELSE Abstract(ci[t]))
         /\ ~pending[t] => ci[t] # <<>>
  <2>1. CASE Start(t, n)
    <3> DEFINE f == Frame("lua", FALSE)
               F == <<f>>
               S == <<r, Execute>>
               o == <<r>>
    <3>1. f \in FrameSet /\ f.what = "lua" /\ ~f.reentry /\ ~f.ypcall
      BY FrameTypes
    <3> HIDE DEF f
    <3>2. F \in Seq(FrameSet) /\ S \in Seq(EntrySet) /\ Len(F) = 1 /\ F[1] = f
      BY <1>8, <3>1
    <3>3. o \in Seq(EntrySet) /\ Len(o) = 1 /\ o[1] = r /\ S = Append(o, Execute)
      BY <1>8
    <3>4. F = Append(<<>>, f)
      OBVIOUS
    <3>5. FramesOK(t, F)
      <4>1. FramesOK(t, <<>>) /\ <<>> \in Seq(FrameSet)
        BY DEF FramesOK
      <4> QED BY <1>4, <3>1, <3>4, <4>1, FramesAppend
    <3>6. PartOK(t, o, <<>>, 0, n)
      BY <1>4, <1>5, <1>8, Fresh
    <3> HIDE DEF o, F
    <3>7. PartOK(t, Append(o, Execute), F, 0, n)
      <4> DEFINE E == <<>>
      <4>1. E \in Seq(FrameSet) /\ Len(E) = 0 /\ PartOK(t, o, E, 0, n)
        BY <3>6
      <4> HIDE DEF E
      <4>2. IsExecute(o[Len(o)], Execute, F, 0, 1)
        BY <1>8, <3>1, <3>2, <3>3 DEF IsExecute, FromExecute
      <4>3. Link(o[Len(o)], Execute, F, Len(E), Len(F), 0, n, 0, n)
        BY <3>2, <4>1, <4>2 DEF Link
      <4>4. Base(t) = 0 /\ 0 \in Nat /\ 0 <= 0
        BY <1>4 DEF Base
      <4>5. Len(E) <= Len(F) /\ (\A k \in 1..Len(E) : F[k] = E[k]) /\ \A k \in 1 .. Len(F) - 1 : Unrollable(F[k])
        BY <3>2, <4>1
      <4> QED BY <1>5, <1>8, <3>2, <3>3, <4>1, <4>3, <4>4, <4>5, Push
    <3>8. PartOK(t, S, F, 0, n)
      BY <3>3, <3>7
    <3>9. /\ Sets(cstack, cstack', t, S) /\ Sets(WithFrames(G), ci', t, F)
          /\ Sets(nCcalls, nCcalls', t, n) /\ chain' = Append(chain, t)
      BY <2>1 DEF Start, Resuming, G, F, f, r, Sets
    <3>10. Sets(status, status', t, "ok") /\ Sets(pending, pending', t, FALSE) /\ pending[t]
      BY <1>7, <2>1 DEF Start, Sets
    <3>11. Abstract(F) = <<"lua">>
      <4> DEFINE E == <<>>
      <4>1. Abstract(E) = <<>> /\ E \in Seq(FrameSet) /\ E = <<>> /\ F = Append(E, f)
        BY <3>4 DEF Abstract, Shown
      <4> HIDE DEF E
      <4>2. Abstract(F) = Append(Abstract(E), Name(f)) /\ Name(f) = "lua"
        BY <3>1, <4>1, AbstractAppend DEF Name
      <4>3. Append(<<>>, "lua") = <<"lua">>
        OBVIOUS
      <4> QED BY <4>1, <4>2, <4>3
    <3> HIDE DEF S
    <3>12. /\ CallsInv' /\ ci'[t] = F /\ ci'[Running] = G
           /\ \A u \in Threads : u # t => status'[u] = status[u] /\ pending'[u] = pending[u]
           /\ status'[t] = "ok" /\ ~pending'[t]
           /\ \A u \in Threads : u # t /\ u # Running => ci'[u] = ci[u]
           /\ \A u \in Threads : InChain(u)' <=> InChain(u) \/ u = t
      BY <1>1, <1>3, <1>5, <1>6, <3>2, <3>5, <3>8, <3>9, <3>10, Resumed
    <3> QED BY <3>2, <3>10, <3>11, <3>12
  <2>2. CASE GoOn(t, n)
    <3> DEFINE H == ci[t]
               L == Len(H) - 1
               F == Cut(H, L)
               S == <<r, Unroll>>
               m == Short(n - 1)
    <3>1. status[t] = "yield"
      BY <2>2 DEF GoOn
    <3>2. /\ ~pending[t] /\ FramesOK(t, H) /\ Len(H) >= 2 /\ H[Len(H)].what = "yield"
          /\ \A k \in 1 .. Len(H) - 1 : Unrollable(H[k])
      BY <1>4, <3>1 DEF Rests, Waits
    <3>3. L \in Nat /\ L <= Len(H) /\ Len(H) \in Nat /\ H # <<>> /\ H \in Seq(FrameSet)
      BY <1>7, <3>2, LenProperties, EmptySeq
    <3>4. F \in Seq(FrameSet) /\ Len(F) = L /\ (\A k \in 1..L : F[k] = H[k]) /\ FramesOK(t, F)
      BY <3>2, <3>3, CutIs, FramesCut
    <3>5. S \in Seq(EntrySet)
      BY <1>8
    <3>6. m \in Ushort
      <4>1. n - 1 \in Int
        BY <1>5 DEF Ushort
      <4> QED BY <4>1, ShortType
    <3>7. Abstract(F) = Abstract(H)
      <4>1. Shown(H) = L /\ Abstract(H) \in Seq(Names) /\ Len(Abstract(H)) = L
        BY <3>2, <3>3, AbstractIs
      <4>2. L <= Shown(H)
        BY <3>3, <4>1
      <4>3. Abstract(F) = Cut(Abstract(H), L)
        BY <3>2, <3>3, <4>2, AbstractCut DEF Cut
      <4>4. Cut(Abstract(H), L) = Abstract(H)
        BY <4>1, CutAll
      <4> QED BY <4>3, <4>4
    <3>8. /\ Sets(cstack, cstack', t, S) /\ Sets(WithFrames(G), ci', t, F)
          /\ Sets(nCcalls, nCcalls', t, m) /\ chain' = Append(chain, t)
      <4>1. WithFrames(G)[t] = ci[t]
        BY <1>2 DEF WithFrames, CallsInv, TypeOK
      <4>2. ci' = [WithFrames(G) EXCEPT ![t] = Cut(@, Len(@) - 1)]
        BY <2>2 DEF GoOn, G
      <4>3. ci' = [WithFrames(G) EXCEPT ![t] = F]
        BY <4>1, <4>2
      <4> QED BY <2>2, <4>3 DEF GoOn, Resuming, r, Sets
    <3>9. Sets(status, status', t, "ok") /\ Sets(pending, pending', t, FALSE)
      BY <1>7, <2>2, <3>2 DEF GoOn, Sets
    <3> HIDE DEF H, F, m, L
    <3>10. PartOK(t, S, F, 0, m)
      <4>1. \A k \in 1 .. Len(F) - 1 : k \in 1..L /\ k \in 1 .. Len(H) - 1
        BY <3>3, <3>4 DEF L
      <4>2. \A k \in 1 .. Len(F) - 1 : Unrollable(F[k])
        BY <3>2, <3>4, <4>1
      <4> QED BY <1>4, <1>8, <3>4, <3>6, <4>2, Unrolled
    <3> HIDE DEF S
    <3>11. CallsInv /\ ~confused /\ t \in Threads /\ ~InChain(t) /\ chain' = Append(chain, t) /\ confused' = confused
      BY <1>1, <3>8
    <3>12. S \in Seq(EntrySet) /\ F \in Seq(FrameSet) /\ m \in Ushort /\ FramesOK(t, F) /\ PartOK(t, S, F, 0, m)
      BY <3>4, <3>5, <3>6, <3>10
    <3>13. G \in Seq(FrameSet) /\ FramesOK(Running, G) /\ PartOK(Running, Active, G, nny[Running], nCcalls[Running])
      BY <1>3
    <3>14. /\ Sets(cstack, cstack', t, S) /\ Sets(WithFrames(G), ci', t, F)
           /\ Sets(nny, nny', t, 0) /\ Sets(nCcalls, nCcalls', t, m)
           /\ Sets(status, status', t, "ok") /\ Sets(pending, pending', t, FALSE)
      BY <1>6, <3>8, <3>9
    <3>15. /\ CallsInv' /\ ci'[t] = F /\ ci'[Running] = G
           /\ status'[t] = "ok" /\ ~pending'[t]
      BY <3>11, <3>12, <3>13, <3>14, Resumed
    <3>16. \A u \in Threads : InChain(u)' <=> InChain(u) \/ u = t
      BY <3>11, <3>12, <3>13, <3>14, Resumed
    <3>17. /\ \A u \in Threads : u # t => status'[u] = status[u] /\ pending'[u] = pending[u]
           /\ \A u \in Threads : u # t /\ u # Running => ci'[u] = ci[u]
      BY <3>11, <3>12, <3>13, <3>14, Resumed
    <3> QED BY <3>2, <3>3, <3>4, <3>7, <3>15, <3>16, <3>17 DEF H
  <2> QED BY <1>6, <2>1, <2>2
<1>11. chain' = Append(chain, t)
  BY <1>6 DEF Start, GoOn, Resuming
<1>12. C!Resume(t)
  <2>1. C!Stack = Abstract(Frames) /\ C!Running = Running
    BY <1>2, SeenState DEF C!Stack, Frames
  <2>2. C!Stack # <<>> /\ C!Stack[Len(C!Stack)] = "resume"
    <3> DEFINE A == Abstract(Frames)
               N == Len(Frames)
    <3>1. /\ Shown(Frames) = N /\ N \in Nat /\ A \in Seq(Names) /\ Len(A) = Shown(Frames)
          /\ \A k \in 1..Shown(Frames) : A[k] = Name(Frames[k])
      BY <1>1, <1>2, AbstractIs DEF Shown
    <3>2. N # 0
      BY <1>1, <1>2, EmptySeq
    <3> HIDE DEF A, N
    <3>3. N \in 1..N
      BY <3>1, <3>2
    <3>4. A[N] = Name(Frames[N])
      BY <3>1, <3>3
    <3>5. A[Len(A)] = "resume"
      BY <1>1, <3>1, <3>4 DEF Name, N
    <3>6. A # <<>>
      BY <3>1, <3>2, EmptySeq
    <3> QED BY <2>1, <3>5, <3>6 DEF A
  <2>3. t \notin {chain[i] : i \in DOMAIN chain}
    BY <1>1 DEF InChain
  <2>4. StatusOf[t] = (IF pending[t] THEN "fresh" ELSE "live") /\ CallsOf[t] = Abstract(ci[t])
    BY <1>1, <1>9, <1>10 DEF StatusOf, CallsOf
  <2>5. PICK F \in Seq(FrameSet) :
         /\ ci'[t] = F /\ ci'[Running] = G
         /\ \A u \in Threads : u # t => status'[u] = status[u] /\ pending'[u] = pending[u]
         /\ status'[t] = "ok" /\ ~pending'[t]
         /\ \A u \in Threads : u # t /\ u # Running => ci'[u] = ci[u]
         /\ \A u \in Threads : InChain(u)' <=> InChain(u) \/ u = t
         /\ Abstract(F) = (IF pending[t] THEN <<"lua">> ELSE Abstract(ci[t]))
    BY <1>10
  <2>6. CallsOf' = [CallsOf EXCEPT ![t] = IF StatusOf[t] = "fresh" THEN <<"lua">> ELSE @]
    <3>1. ASSUME NEW u \in Threads, u # t
          PROVE (IF status'[u] = "error" THEN <<>> ELSE Abstract(ci'[u]))
                  = IF status[u] = "error" THEN <<>> ELSE Abstract(ci[u])
      <4>1. CASE u = Running
        BY <1>3, <2>5, <3>1, <4>1 DEF Frames
      <4>2. CASE u # Running
        BY <2>5, <3>1, <4>2
      <4> QED BY <4>1, <4>2
    <3>2. (IF status'[t] = "error" THEN <<>> ELSE Abstract(ci'[t]))
            = IF StatusOf[t] = "fresh" THEN <<"lua">> ELSE CallsOf[t]
      BY <2>4, <2>5
    <3> QED BY <3>1, <3>2 DEF CallsOf
  <2>7. StatusOf' = [StatusOf EXCEPT ![t] = "live"]
    <3> DEFINE Was(u) == IF pending[u] THEN "fresh"
                         ELSE IF status[u] = "error" \/ (ci[u] = <<>> /\ ~InChain(u)) THEN "dead" ELSE "live"
               Is(u) == IF pending'[u] THEN "fresh"
                        ELSE IF status'[u] = "error" \/ (ci'[u] = <<>> /\ ~InChain(u)') THEN "dead" ELSE "live"
    <3>1. ASSUME NEW u \in Threads, u # t PROVE Is(u) = Was(u)
      <4>1. CASE u = Running
        BY <1>2, <2>5, <3>1, <4>1
      <4>2. CASE u # Running
        BY <2>5, <3>1, <4>2
      <4> QED BY <4>1, <4>2
    <3>2. Is(t) = "live"
      BY <2>5
    <3>3. StatusOf = [u \in Threads |-> Was(u)] /\ StatusOf' = [u \in Threads |-> Is(u)]
      BY DEF StatusOf
    <3> HIDE DEF Was, Is
    <3> QED BY <3>1, <3>2, <3>3
  <2>8. StatusOf[t] # "dead"
    BY <2>4
  <2> QED BY <1>11, <2>1, <2>2, <2>3, <2>6, <2>7, <2>8 DEF C!Resume, CallsOf, StatusOf
<1> QED BY <1>10, <1>12 DEF C!Next, StepsAsCoroutines

\* A resume that is refused changes counters of its victim, which only count while it runs.
LEMMA RefusedOK ==
  ASSUME CallsInv, NEW t \in Threads, Refused(t)
  PROVE  CallsInv' /\ StepsAsCoroutines
<1> DEFINE G == Topped(Called)
<1>1. /\ ~confused /\ Frames # <<>> /\ Top.what = "resume"
      /\ Called \in FrameSet /\ Called.what = Top.what /\ Called.reentry = Top.reentry /\ ~Called.ypcall
  BY BodyIs DEF Refused
<1>2. /\ Running \in Threads /\ InChain(Running) /\ nCcalls[Running] \in Ushort
      /\ status[Running] = "ok" /\ ~pending[Running]
  BY <1>1, RunningOK
<1>3. /\ G \in Seq(FrameSet) /\ FramesOK(Running, G) /\ Abstract(G) = Abstract(Frames)
      /\ PartOK(Running, Active, G, nny[Running], nCcalls[Running])
  BY <1>1, Marked
<1>4. /\ UNCHANGED <<status, pending, chain, cstack>> /\ ci' = WithFrames(G)
      /\ confused' = (confused \/ InChain(t))
  BY DEF Refused
<1>5. \/ UNCHANGED <<nny, nCcalls>>
      \/ Sets(nny, nny', t, 1) /\ Sets(nCcalls, nCcalls', t, nCcalls[Running])
  <2>1. CASE ~InChain(t) /\ status[t] = "ok" /\ ~pending[t]
    <3>1. UNCHANGED <<nny, nCcalls>>
      BY <2>1 DEF Refused
    <3> QED BY <3>1
  <2>2. CASE ~(~InChain(t) /\ status[t] = "ok" /\ ~pending[t])
    <3>1. nny' = [nny EXCEPT ![t] = 1] /\ nCcalls' = [nCcalls EXCEPT ![t] = nCcalls[Running]]
      BY <2>2 DEF Refused
    <3> QED BY <3>1 DEF Sets
  <2> QED BY <2>1, <2>2
<1>6. /\ ci \in [Threads -> Seq(FrameSet)] /\ nny \in [Threads -> Ushort] /\ nCcalls \in [Threads -> Ushort]
  BY DEF CallsInv, TypeOK
<1> HIDE DEF G
<1>7. ci' \in [Threads -> Seq(FrameSet)] /\ ci'[Running] = G /\ \A u \in Threads : u # Running => ci'[u] = ci[u]
  BY <1>2, <1>3, <1>4, <1>6 DEF WithFrames
<1>8. /\ nny' \in [Threads -> Ushort] /\ nCcalls' \in [Threads -> Ushort]
      /\ \A u \in Threads : u # t => nny'[u] = nny[u] /\ nCcalls'[u] = nCcalls[u]
  <2>1. 1 \in Ushort
    BY DEF Ushort
  <2> QED BY <1>2, <1>5, <1>6, <2>1 DEF Sets
<1>9. TypeOK'
  <2>1. InChain(t) \in BOOLEAN
    BY DEF InChain
  <2> QED BY <1>4, <1>7, <1>8, <2>1 DEF CallsInv, TypeOK
<1>10. \A u \in Threads : InChain(u)' <=> InChain(u)
  BY <1>4 DEF InChain
<1>11. CallsInv'
  <2>1. CASE InChain(t)
    BY <1>4, <1>9, <2>1 DEF CallsInv
  <2>2. CASE ~InChain(t)
    <3>1. chain'[1] = Main /\ Distinct'
      BY <1>1, <1>4 DEF CallsInv, Distinct
    <3>2. ASSUME NEW u \in Threads PROVE IF InChain(u)' THEN Runs(u)' ELSE Rests(u)'
      <4>1. IF InChain(u) THEN Runs(u) ELSE Rests(u)
        BY <1>1 DEF CallsInv
      <4>2. CASE u = Running
        <5>1. Runs(u)'
          BY <1>2, <1>3, <1>4, <1>7, <1>8, <2>2, <4>1, <4>2 DEF Runs, Active
        <5> QED BY <1>2, <1>10, <4>2, <5>1
      <4>3. CASE u # Running
        <5>1. Runs(u) /\ InChain(u) => Runs(u)'
          BY <1>4, <1>7, <1>8, <2>2, <4>3 DEF Runs
        <5>2. Rests(u) => Rests(u)'
          BY <1>4, <1>7, <4>3 DEF Rests, Waits
        <5> QED BY <1>10, <4>1, <5>1, <5>2
      <4> QED BY <4>2, <4>3
    <3> QED BY <1>9, <3>1, <3>2 DEF CallsInv
  <2> QED BY <2>1, <2>2
<1>12. CallsOf' = [CallsOf EXCEPT ![Running] = Abstract(ci'[Running])]
  BY <1>2, <1>4, <1>7 DEF CallsOf
<1>13. StatusOf' = StatusOf
  <2>1. \A u \in Threads : (ci'[u] = <<>> /\ ~InChain(u)') <=> (ci[u] = <<>> /\ ~InChain(u))
    BY <1>2, <1>7, <1>10
  <2> QED BY <1>4, <2>1 DEF StatusOf
<1>14. Seen(Abstract(Frames), Abstract(ci'[Running]))
  BY <1>3, <1>7 DEF Seen
<1>15. StepsAsCoroutines
  BY <1>1, <1>4, <1>12, <1>13, <1>14, SeenSteps
<1> QED BY <1>11, <1>15

-----------------------------------------------------------------------------
(* The theorems.                                                            *)

LEMMA StartsOK ==
  ASSUME Limits, Init
  PROVE  CallsInv /\ StartsAsCoroutines
<1> DEFINE f == Frame("host", FALSE)
           F == <<f>>
           S == <<Body>>
<1>1. f \in FrameSet /\ f.what = "host" /\ ~f.reentry /\ ~f.ypcall /\ Body \in EntrySet
  BY FrameTypes
<1> HIDE DEF f
<1>2. F \in Seq(FrameSet) /\ Len(F) = 1 /\ F[1] = f /\ S \in Seq(EntrySet)
  BY <1>1
<1>3. FramesOK(Main, F)
  BY <1>1, <1>2 DEF FramesOK, FrameOK
<1>4. PartOK(Main, S, F, 1, 0)
  <2> HIDE DEF F
  <2> QED BY <1>2, HostStarts
<1>5. Main \in Threads /\ chain = <<Main>> /\ Len(chain) = 1 /\ chain[1] = Main /\ chain \in Seq(Threads)
  BY DEF Limits, Init
<1>6. \A u \in Threads : InChain(u) <=> u = Main
  BY <1>5 DEF InChain
<1>7. /\ ci = [u \in Threads |-> IF u = Main THEN F ELSE <<>>]
      /\ cstack = [u \in Threads |-> IF u = Main THEN S ELSE <<>>]
      /\ \A u \in Threads : status[u] = "ok" /\ nny[u] = 1 /\ nCcalls[u] = 0 /\ (pending[u] <=> u # Main)
      /\ ~confused
  BY DEF Init, F, f
<1>8. TypeOK
  <2>1. 0 \in Ushort /\ 1 \in Ushort /\ <<>> \in Seq(FrameSet) /\ <<>> \in Seq(EntrySet)
    BY DEF Ushort
  <2>2. ci \in [Threads -> Seq(FrameSet)] /\ cstack \in [Threads -> Seq(EntrySet)]
    BY <1>2, <1>7, <2>1
  <2>3. /\ status \in [Threads -> {"ok", "yield", "error"}] /\ pending \in [Threads -> BOOLEAN]
        /\ nny \in [Threads -> Ushort] /\ nCcalls \in [Threads -> Ushort] /\ confused \in BOOLEAN
    BY <2>1 DEF Init
  <2> QED BY <1>5, <2>2, <2>3 DEF TypeOK
<1>9. ASSUME NEW u \in Threads PROVE IF InChain(u) THEN Runs(u) ELSE Rests(u)
  <2>1. u = Main => Runs(u)
    BY <1>3, <1>4, <1>7 DEF Runs
  <2>2. u # Main => Rests(u)
    BY <1>7 DEF Rests
  <2> QED BY <1>6, <2>1, <2>2
<1>10. Distinct
  BY <1>5 DEF Distinct
<1>11. CallsInv
  BY <1>5, <1>8, <1>9, <1>10 DEF CallsInv
<1>12. CallsOf = [u \in Threads |-> IF u = Main THEN <<"pcall">> ELSE <<>>]
  <2>1. Abstract(<<>>) = <<>>
    BY DEF Abstract, Shown
  <2>2. Abstract(F) = <<"pcall">>
    <3>1. Shown(F) = 1
      BY <1>1, <1>2 DEF Shown
    <3>2. Name(F[1]) = "pcall"
      BY <1>1, <1>2 DEF Name
    <3> QED BY <3>1, <3>2 DEF Abstract
  <2>3. \A u \in Threads : status[u] # "error" /\ ci[u] = IF u = Main THEN F ELSE <<>>
    BY <1>7
  <2> HIDE DEF F
  <2> QED BY <2>1, <2>2, <2>3 DEF CallsOf
<1>13. StatusOf = [u \in Threads |-> IF u = Main THEN "live" ELSE "fresh"]
  BY <1>6, <1>7 DEF StatusOf
<1> QED BY <1>5, <1>11, <1>12, <1>13 DEF StartsAsCoroutines, C!Init, CallsOf, StatusOf

LEMMA StepsOK ==
  ASSUME Limits, CallsInv, [Next]_vars
  PROVE  CallsInv' /\ StepsAsCoroutines
<1>1. CASE UNCHANGED vars
  <2>1. CallsInv'
    <3>1. UNCHANGED <<ci, status, pending, nny, nCcalls, chain, cstack, confused>>
      BY <1>1 DEF vars
    <3>2. TypeOK'
      BY <3>1 DEF CallsInv, TypeOK
    <3>3. ASSUME NEW u \in Threads
          PROVE (InChain(u)' <=> InChain(u)) /\ (Runs(u)' <=> Runs(u)) /\ (Rests(u)' <=> Rests(u))
      BY <3>1 DEF InChain, Runs, Rests, Waits
    <3>4. Distinct' <=> Distinct
      BY <3>1 DEF Distinct
    <3> QED BY <3>1, <3>2, <3>3, <3>4 DEF CallsInv
  <2>2. CallsOf' = CallsOf /\ StatusOf' = StatusOf /\ chain' = chain
    BY <1>1 DEF vars, CallsOf, StatusOf, InChain
  <2> QED BY <2>1, <2>2, SeenState DEF StepsAsCoroutines
<1>2. ASSUME NEW what \in CFunctions \cup {"lua"}, CallFromLua(what) \/ Pcallk(what) \/ Callk(what)
      PROVE CallsInv' /\ StepsAsCoroutines
  BY <1>2, CallFromLuaOK, PcallkOK, CallkOK
<1>3. CASE CallOverflow
  BY <1>3, CallOverflowOK
<1>4. CASE Throw
  BY <1>4, ThrowOK
<1>5. CASE Return
  BY <1>5, ReturnOK
<1>6. CASE EndCall
  BY <1>6, EndCallOK
<1>7. CASE EndTry
  BY <1>7, EndTryOK
<1>8. CASE UnrollStep
  BY <1>8, UnrollStepOK
<1>9. CASE Yield
  BY <1>9, YieldOK
<1>10. ASSUME NEW t \in Threads, Resume(t) \/ Refused(t) PROVE CallsInv' /\ StepsAsCoroutines
  BY <1>10, ResumeOK, RefusedOK
<1>11. CASE EndCoroutine
  BY <1>11, EndCoroutineOK
<1> QED BY <1>1, <1>2, <1>3, <1>4, <1>5, <1>6, <1>7, <1>8, <1>9, <1>10, <1>11 DEF Next

\* lstate.h, ldo.c: the frames of every thread fit to its part of the C stack; nny and
\* nCcalls are what the calls on that part have counted; and a coroutine that waits has
\* only frames that unroll can finish.
THEOREM CallsInvariant ==
  ASSUME Limits
  PROVE  Spec => []CallsInv
<1>1. Init => CallsInv
  BY StartsOK
<1>2. CallsInv /\ [Next]_vars => CallsInv'
  BY StepsOK
<1> QED BY <1>1, <1>2, PTL DEF Spec

\* luaD_throw, luaD_call, lua_yieldk, lua_resume and unroll together do what the manual
\* says of pcall and coroutines: an error arrives at the innermost pcall of its thread,
\* with or without its C calls, and what a coroutine has left it finds again.
THEOREM CallsImplementsCoroutines ==
  ASSUME Limits
  PROVE  Spec => ImplementsCoroutines
<1>1. Init => StartsAsCoroutines
  BY StartsOK
<1>2. CallsInv /\ [Next]_vars => StepsAsCoroutines
  BY StepsOK
<1>3. Spec => []CallsInv
  BY CallsInvariant
<1> QED BY <1>1, <1>2, <1>3, PTL DEF Spec, ImplementsCoroutines, StartsAsCoroutines, StepsAsCoroutines, C!Spec



-----------------------------------------------------------------------------
(* A vector of nodes.                                                       *)

NodeSet == [key : Keys \cup {Nil}, val : Keys \cup {Nil}, next : Nat]
Places(node) == 1..Len(node)

Typed(node) ==
  /\ node \in Seq(NodeSet)
  /\ \A i \in Places(node) : /\ node[i].next \in 0..Len(node)
                             /\ node[i].val \in {Nil, node[i].key}

\* A node without key is in no chain; no key is twice there.
Keyed(node) ==
  /\ \A i \in Places(node) : /\ node[i].key = Nil => node[i].next = 0
                             /\ node[i].next # 0 => node[node[i].next].key # Nil
  /\ \A i, j \in Places(node) : node[i].key = node[j].key /\ node[i].key # Nil => i = j

\* Chains join nowhere, and each has an end.
Single(node) == \A i, j \in Places(node) : node[i].next = node[j].next /\ node[i].next # 0 => i = j
Ends(node) == \A S \in SUBSET Places(node) : S # {} => \E i \in S : node[i].next \notin S

\* Each key is in the chain of its main position, which no foreign key has then.
Homed(node) ==
  \A i \in Places(node) : node[i].key # Nil =>
    LET mp == Mainposition(node, node[i].key) IN
    /\ i \in Chain(node)[mp]
    /\ node[mp].key # Nil /\ Mainposition(node, node[mp].key) = mp

HashOK(node) == Typed(node) /\ Keyed(node) /\ Single(node) /\ Ends(node) /\ Homed(node)

LEMMA NodeIs ==
  ASSUME NEW node, node \in Seq(NodeSet), NEW i \in Places(node)
  PROVE  node[i] \in NodeSet /\ node[i].key \in Keys \cup {Nil} /\ node[i].val \in Keys \cup {Nil}
<1>1. node[i] \in NodeSet
  BY ElementOfSeq DEF Places
<1> QED BY <1>1 DEF NodeSet

LEMMA VectorIs ==
  ASSUME NEW node, node \in Seq(NodeSet), NEW new, new = [i \in 1..Len(node) |-> new[i]],
         \A i \in Places(node) : new[i] \in NodeSet
  PROVE  new \in Seq(NodeSet) /\ Len(new) = Len(node)
<1>1. Len(node) \in Nat
  BY LenProperties
<1>2. new \in Seq(NodeSet)
  BY <1>1, IsASeq DEF Places
<1>3. DOMAIN new = 1..Len(node)
  OBVIOUS
<1> QED BY <1>1, <1>2, <1>3, LenProperties

LEMMA MainIs ==
  ASSUME TableLimits, NEW node, node \in Seq(NodeSet), node # <<>>, NEW k \in Keys
  PROVE  Mainposition(node, k) \in Places(node)
<1> DEFINE size == Len(node)
           odd == IF size <= 2 THEN 1 ELSE size - 1
<1>1. size \in Nat \ {0} /\ odd \in Nat \ {0} /\ odd <= size
  OBVIOUS
<1>2. Hash[k] \in Nat
  BY DEF TableLimits
<1>3. Hash[k] % odd \in 0 .. odd - 1 /\ Hash[k] % size \in 0 .. size - 1
  BY <1>1, <1>2
<1>4. Mainposition(node, k) = 1 + IF k \in Numbers THEN Hash[k] % odd ELSE Hash[k] % size
  BY DEF Mainposition
<1> HIDE DEF odd
<1> QED BY <1>1, <1>3, <1>4 DEF Places

LEMMA MainSame ==
  ASSUME NEW node, NEW new, Len(new) = Len(node), NEW k
  PROVE  Mainposition(new, k) = Mainposition(node, k)
BY DEF Mainposition

-----------------------------------------------------------------------------
(* Chains.                                                                  *)

LEMMA ChainIs ==
  ASSUME NEW node, Typed(node)
  PROVE  /\ Chain(node)[0] = {}
         /\ \A i \in Places(node) : Chain(node)[i] = {i} \cup Chain(node)[node[i].next]
<1> DEFINE Closed(S) == \A j \in S : node[j].next \in S \cup {0}
           L(i) == {j \in Places(node) : \A S \in SUBSET Places(node) : i \in S /\ Closed(S) => j \in S}
           f == [i \in 0..Len(node) |-> IF i = 0 THEN {} ELSE L(i)]
           Solves(g) == g = [i \in 0..Len(node) |-> IF i = 0 THEN {} ELSE {i} \cup g[node[i].next]]
<1>1. Len(node) \in Nat /\ \A i \in Places(node) : node[i].next \in 0..Len(node)
  BY DEF Typed
<1>2. ASSUME NEW i \in Places(node) PROVE L(i) = {i} \cup f[node[i].next]
  <2> DEFINE n == node[i].next
  <2>1. i \in L(i)
    OBVIOUS
  <2>2. CASE n = 0
    <3>1. {i} \in SUBSET Places(node) /\ i \in {i} /\ Closed({i})
      BY <2>2
    <3>2. L(i) \subseteq {i}
      BY <3>1
    <3>3. f[n] = {}
      BY <2>2, <1>1
    <3> HIDE DEF L, f
    <3> QED BY <2>1, <3>2, <3>3
  <2>3. CASE n # 0
    <3>1. n \in Places(node) /\ f[n] = L(n)
      <4>1. n \in 0..Len(node) /\ n \in Places(node)
        BY <2>3, <1>1 DEF Places
      <4> HIDE DEF L, n
      <4> QED BY <2>3, <4>1
    <3>2. ASSUME NEW j \in L(n) PROVE j \in L(i)
      <4>1. ASSUME NEW S \in SUBSET Places(node), i \in S, Closed(S) PROVE j \in S
        <5>1. n \in S
          BY <4>1, <2>3
        <5> QED BY <3>2, <4>1, <5>1
      <4> QED BY <3>2, <4>1
    <3>3. ASSUME NEW j \in L(i), j # i PROVE j \in L(n)
      <4>1. ASSUME NEW S \in SUBSET Places(node), n \in S, Closed(S) PROVE j \in S
        <5>1. S \cup {i} \in SUBSET Places(node) /\ i \in S \cup {i} /\ Closed(S \cup {i})
          BY <4>1
        <5>2. j \in S \cup {i}
          BY <5>1, <3>3
        <5> QED BY <5>2, <3>3
      <4>2. j \in Places(node)
        BY <3>3
      <4> QED BY <4>1, <4>2
    <3> HIDE DEF L, f
    <3> QED BY <2>1, <3>1, <3>2, <3>3
  <2> QED BY <2>2, <2>3
<1>3. Solves(f)
  <2>1. ASSUME NEW i \in 0..Len(node)
        PROVE  f[i] = IF i = 0 THEN {} ELSE {i} \cup f[node[i].next]
    <3>1. CASE i = 0
      BY <3>1
    <3>2. CASE i # 0
      <4>1. i \in Places(node) /\ f[i] = L(i)
        BY <1>1, <3>2 DEF Places
      <4> HIDE DEF L, f
      <4> QED BY <1>2, <3>2, <4>1
    <3> QED BY <3>1, <3>2
  <2>2. f = [i \in 0..Len(node) |-> f[i]]
    OBVIOUS
  <2> HIDE DEF f
  <2> QED BY <2>1, <2>2
<1> HIDE DEF f
<1>4. Chain(node) = CHOOSE g : Solves(g)
  BY DEF Chain
<1>5. Solves(Chain(node))
  <2> HIDE DEF Solves
  <2> QED BY <1>3, <1>4
<1> DEFINE c == Chain(node)
<1>6. c = [i \in 0..Len(node) |-> IF i = 0 THEN {} ELSE {i} \cup c[node[i].next]]
  BY <1>5
<1> HIDE DEF c
<1>7. /\ c[0] = {}
      /\ \A i \in Places(node) : c[i] = {i} \cup c[node[i].next]
  BY <1>1, <1>6 DEF Places
<1> QED BY <1>7 DEF c

\* What holds a node and each next one holds its chain.
LEMMA ChainLeast ==
  ASSUME NEW node, Typed(node), Ends(node), NEW S \in SUBSET Places(node),
         \A j \in S : node[j].next \in S \cup {0}, NEW i \in S
  PROVE  Chain(node)[i] \subseteq S
<1> DEFINE B == {x \in S : ~(Chain(node)[x] \subseteq S)}
<1>1. ASSUME B # {} PROVE FALSE
  <2>1. PICK x \in B : node[x].next \notin B
    BY <1>1 DEF Ends
  <2>2. node[x].next \in S \cup {0}
    OBVIOUS
  <2>3. Chain(node)[node[x].next] \subseteq S
    BY <2>1, <2>2, ChainIs
  <2>4. Chain(node)[x] = {x} \cup Chain(node)[node[x].next]
    BY ChainIs
  <2> QED BY <2>3, <2>4
<1> QED BY <1>1

LEMMA ChainIn ==
  ASSUME NEW node, Typed(node), Ends(node), NEW i \in Places(node)
  PROVE  i \in Chain(node)[i] /\ Chain(node)[i] \subseteq Places(node)
<1>1. i \in Chain(node)[i]
  BY ChainIs
<1>2. \A j \in Places(node) : node[j].next \in Places(node) \cup {0}
  BY DEF Typed, Places
<1> QED BY <1>1, <1>2, ChainLeast

LEMMA ChainCloses ==
  ASSUME NEW node, Typed(node), Ends(node), NEW i \in Places(node), NEW j \in Chain(node)[i],
         node[j].next # 0
  PROVE  node[j].next \in Chain(node)[i]
<1> DEFINE c == Chain(node)
           B == {x \in Places(node) : \E y \in c[x] : node[y].next # 0 /\ node[y].next \notin c[x]}
<1>1. ASSUME B # {} PROVE FALSE
  <2>1. PICK x \in B : node[x].next \notin B
    BY <1>1 DEF Ends
  <2>2. PICK y \in c[x] : node[y].next # 0 /\ node[y].next \notin c[x]
    OBVIOUS
  <2>3. c[x] = {x} \cup c[node[x].next]
    BY ChainIs
  <2>4. CASE node[x].next = 0
    BY <2>2, <2>3, <2>4, ChainIs
  <2>5. CASE node[x].next # 0
    <3>1. node[x].next \in Places(node)
      BY <2>5 DEF Typed, Places
    <3>2. node[x].next \in c[node[x].next]
      BY <3>1, ChainIn
    <3>3. y # x
      BY <2>2, <2>3, <3>2
    <3>4. y \in c[node[x].next]
      BY <2>3, <3>3
    <3> QED BY <2>1, <2>2, <2>3, <3>1, <3>4
  <2> QED BY <2>4, <2>5
<1> QED BY <1>1

-----------------------------------------------------------------------------
(* Search.                                                                  *)

LEMMA FindIs ==
  ASSUME TableLimits, NEW node, HashOK(node), NEW k \in Keys
  PROVE  \/ Find(node, k) = 0 /\ \A i \in Places(node) : node[i].key # k
         \/ Find(node, k) \in Places(node) /\ node[Find(node, k)].key = k
<1> DEFINE found == IF node = <<>> THEN {}
                    ELSE {i \in Chain(node)[Mainposition(node, k)] : node[i].key = k}
<1>0. k # Nil
  BY DEF TableLimits
<1>1. Find(node, k) = IF found = {} THEN 0 ELSE CHOOSE i \in found : TRUE
  BY DEF Find
<1>2. found \subseteq {i \in Places(node) : node[i].key = k}
  BY MainIs, ChainIn DEF HashOK, Typed
<1>3. ASSUME NEW i \in Places(node), node[i].key = k PROVE i \in found
  <2>1. node # <<>>
    BY DEF Places
  <2> QED BY <1>0, <1>3, <2>1 DEF HashOK, Homed
<1> HIDE DEF found
<1> QED BY <1>1, <1>2, <1>3

-----------------------------------------------------------------------------
(* Changes of a vector.                                                     *)

\* The same chains.
SameNext(node, new) ==
  /\ Typed(new) /\ Len(new) = Len(node)
  /\ \A i \in Places(node) : new[i].next = node[i].next

LEMMA ChainsSame ==
  ASSUME NEW node, NEW new, Typed(node), Single(node), Ends(node), SameNext(node, new)
  PROVE  /\ Single(new) /\ Ends(new)
         /\ \A x \in Places(node) : Chain(node)[x] \subseteq Chain(new)[x]
<1>1. Places(new) = Places(node)
  BY DEF SameNext, Places
<1>2. Single(new) /\ Ends(new)
  BY <1>1 DEF Single, Ends, SameNext
<1>3. ASSUME NEW x \in Places(node) PROVE Chain(node)[x] \subseteq Chain(new)[x]
  <2> DEFINE S == Chain(new)[x]
  <2>1. S \in SUBSET Places(node) /\ x \in S
    BY <1>1, <1>2, ChainIn DEF SameNext
  <2>2. \A j \in S : node[j].next \in S \cup {0}
    BY <1>1, <1>2, <2>1, ChainCloses DEF SameNext
  <2> HIDE DEF S
  <2>3. Chain(node)[x] \subseteq S
    BY <2>1, <2>2, ChainLeast
  <2> QED BY <2>3 DEF S
<1> QED BY <1>2, <1>3

\* A value is stored in a node, or taken out of it.
LEMMA StoreIs ==
  ASSUME TableLimits, NEW node, HashOK(node), NEW n \in Places(node), node[n].key # Nil,
         NEW v \in {Nil, node[n].key}
  PROVE  LET new == [node EXCEPT ![n].val = v] IN
         /\ HashOK(new) /\ Len(new) = Len(node)
         /\ \A i \in Places(node) : /\ new[i].key = node[i].key
                                    /\ new[i].val = IF i = n THEN v ELSE node[i].val
<1> DEFINE new == [node EXCEPT ![n].val = v]
<1>1. /\ node \in Seq(NodeSet) /\ \A i \in Places(node) : node[i] \in NodeSet
      /\ v \in Keys \cup {Nil} /\ DOMAIN node = Places(node)
  <2>1. node \in Seq(NodeSet)
    BY DEF HashOK, Typed
  <2> QED BY <2>1, NodeIs, LenProperties DEF Places
<1>3. \A i \in Places(node) : /\ new[i].key = node[i].key /\ new[i].next = node[i].next
                              /\ new[i].val = IF i = n THEN v ELSE node[i].val
                              /\ new[i] \in NodeSet
  BY <1>1 DEF NodeSet
<1>2. new \in Seq(NodeSet) /\ Len(new) = Len(node)
  <2>1. new = [i \in 1..Len(node) |-> new[i]]
    BY <1>1 DEF Places
  <2> HIDE DEF new
  <2> QED BY <1>1, <1>3, <2>1, VectorIs
<1> HIDE DEF new
<1>4. Typed(new)
  BY <1>2, <1>3 DEF HashOK, Typed, Places
<1>5. SameNext(node, new)
  BY <1>2, <1>3, <1>4 DEF SameNext
<1>6. /\ Single(new) /\ Ends(new)
      /\ \A x \in Places(node) : Chain(node)[x] \subseteq Chain(new)[x]
  BY <1>5, ChainsSame DEF HashOK
<1>7. Keyed(new)
  BY <1>2, <1>3, <1>4 DEF HashOK, Keyed, Places, Typed
<1>8. Homed(new)
  <2> SUFFICES ASSUME NEW i \in Places(new), new[i].key # Nil,
                      NEW mp, mp = Mainposition(new, new[i].key)
               PROVE  /\ i \in Chain(new)[mp]
                      /\ new[mp].key # Nil /\ Mainposition(new, new[mp].key) = mp
    BY DEF Homed
  <2>1. i \in Places(node) /\ node[i].key # Nil /\ mp = Mainposition(node, node[i].key)
    BY <1>2, <1>3, MainSame DEF Places
  <2>2. mp \in Places(node)
    <3>1. node # <<>> /\ node[i].key \in Keys
      BY <1>1, <2>1, NodeIs DEF Places
    <3> QED BY <1>1, <2>1, <3>1, MainIs
  <2>3. /\ i \in Chain(node)[mp]
        /\ node[mp].key # Nil /\ Mainposition(node, node[mp].key) = mp
    BY <2>1 DEF HashOK, Homed
  <2> QED BY <1>2, <1>3, <1>6, <2>2, <2>3, MainSame
<1> QED BY <1>2, <1>3, <1>4, <1>6, <1>7, <1>8 DEF HashOK, new

\* A key takes its main position, which has no value.
LEMMA TakeIs ==
  ASSUME TableLimits, NEW node, HashOK(node), NEW k \in Keys, NEW n, n = Mainposition(node, k),
         node # <<>>, node[n].val = Nil, \A i \in Places(node) : node[i].key # k
  PROVE  LET new == [node EXCEPT ![n] = [key |-> k, val |-> k, next |-> node[n].next]] IN
         /\ HashOK(new) /\ Len(new) = Len(node) /\ n \in Places(node)
         /\ \A i \in Places(node) : /\ new[i].key = IF i = n THEN k ELSE node[i].key
                                    /\ new[i].val = IF i = n THEN k ELSE node[i].val
<1> DEFINE new == [node EXCEPT ![n] = [key |-> k, val |-> k, next |-> node[n].next]]
<1>1. /\ node \in Seq(NodeSet) /\ \A i \in Places(node) : node[i] \in NodeSet
      /\ n \in Places(node) /\ k # Nil /\ DOMAIN node = Places(node)
  <2>1. node \in Seq(NodeSet)
    BY DEF HashOK, Typed
  <2> QED BY <2>1, NodeIs, MainIs, LenProperties DEF Places, TableLimits
<1>3. \A i \in Places(node) : /\ new[i].key = IF i = n THEN k ELSE node[i].key
                              /\ new[i].val = IF i = n THEN k ELSE node[i].val
                              /\ new[i].next = node[i].next /\ new[i] \in NodeSet
  BY <1>1 DEF NodeSet
<1>2. new \in Seq(NodeSet) /\ Len(new) = Len(node)
  <2>1. new = [i \in 1..Len(node) |-> new[i]]
    BY <1>1 DEF Places
  <2> HIDE DEF new
  <2> QED BY <1>1, <1>3, <2>1, VectorIs
<1> HIDE DEF new
<1>4. Typed(new)
  BY <1>2, <1>3 DEF HashOK, Typed, Places
<1>5. SameNext(node, new)
  BY <1>2, <1>3, <1>4 DEF SameNext
<1>6. /\ Single(new) /\ Ends(new)
      /\ \A x \in Places(node) : Chain(node)[x] \subseteq Chain(new)[x]
  BY <1>5, ChainsSame DEF HashOK
<1>7. Keyed(new)
  <2>1. Places(new) = Places(node) /\ \A i \in Places(node) : node[i].next \in Places(node) \cup {0}
    BY <1>2 DEF HashOK, Typed, Places
  <2>2. ASSUME NEW i \in Places(node)
        PROVE  /\ new[i].key = Nil => new[i].next = 0
               /\ new[i].next # 0 => new[new[i].next].key # Nil
    BY <1>1, <1>3, <2>1 DEF HashOK, Keyed
  <2>3. ASSUME NEW i \in Places(node), NEW j \in Places(node), new[i].key = new[j].key, new[i].key # Nil
        PROVE  i = j
    BY <1>3, <2>3 DEF HashOK, Keyed
  <2> QED BY <2>1, <2>2, <2>3 DEF Keyed
<1>8. Homed(new)
  <2> SUFFICES ASSUME NEW i \in Places(new), new[i].key # Nil,
                      NEW mp, mp = Mainposition(new, new[i].key)
               PROVE  /\ i \in Chain(new)[mp]
                      /\ new[mp].key # Nil /\ Mainposition(new, new[mp].key) = mp
    BY DEF Homed
  <2>0. i \in Places(node)
    BY <1>2 DEF Places
  <2>1. CASE i = n
    <3>1. mp = n
      BY <1>2, <1>3, <2>0, <2>1, MainSame
    <3>2. n \in Chain(new)[n]
      BY <1>1, <1>2, <1>4, <1>6, ChainIn DEF Places
    <3> QED BY <1>1, <1>3, <2>1, <3>1, <3>2
  <2>2. CASE i # n
    <3>1. node[i].key # Nil /\ mp = Mainposition(node, node[i].key)
      BY <1>2, <1>3, <2>0, <2>2, MainSame
    <3>2. mp \in Places(node)
      <4>1. node # <<>> /\ node[i].key \in Keys
        BY <1>1, <2>0, <3>1, NodeIs DEF Places
      <4> QED BY <1>1, <3>1, <4>1, MainIs
    <3>3. /\ i \in Chain(node)[mp]
          /\ node[mp].key # Nil /\ Mainposition(node, node[mp].key) = mp
      BY <2>0, <3>1 DEF HashOK, Homed
    <3>4. CASE mp = n
      BY <1>1, <1>2, <1>3, <1>6, <3>2, <3>3, <3>4, MainSame
    <3>5. CASE mp # n
      BY <1>2, <1>3, <1>6, <3>2, <3>3, <3>5, MainSame
    <3> QED BY <3>4, <3>5
  <2> QED BY <2>1, <2>2
<1> QED BY <1>1, <1>2, <1>3, <1>4, <1>6, <1>7, <1>8 DEF HashOK, new

\* What holds of a vector and a place in it that never had a key.
LEMMA FreePlace ==
  ASSUME NEW node, Typed(node), Keyed(node), Ends(node), NEW n \in Places(node), node[n].key = Nil
  PROVE  /\ node[n].next = 0 /\ \A i \in Places(node) : node[i].next \in (Places(node) \ {n, i}) \cup {0}
<1>1. node[n].next = 0
  BY DEF Keyed
<1>2. ASSUME NEW i \in Places(node) PROVE node[i].next \in Places(node) \cup {0} /\ node[i].next # n
  BY DEF Typed, Keyed, Places
<1>3. ASSUME NEW i \in Places(node) PROVE node[i].next # i
  <2>1. {i} \in SUBSET Places(node) /\ {i} # {}
    OBVIOUS
  <2> QED BY <2>1 DEF Ends
<1> QED BY <1>1, <1>2, <1>3

\* A key goes behind the one that has its main position.
LEMMA ChainedIs ==
  ASSUME TableLimits, NEW node, HashOK(node), NEW k \in Keys, NEW mp, mp = Mainposition(node, k),
         node # <<>>, node[mp].key # Nil, Mainposition(node, node[mp].key) = mp,
         NEW n \in Places(node), node[n].key = Nil, \A i \in Places(node) : node[i].key # k
  PROVE  LET new == Chained(node, mp, n, k) IN
         /\ HashOK(new) /\ Len(new) = Len(node)
         /\ \A i \in Places(node) : /\ new[i].key = IF i = n THEN k ELSE node[i].key
                                    /\ new[i].val = IF i = n THEN k ELSE node[i].val
<1> DEFINE new == Chained(node, mp, n, k)
<1>1. /\ node \in Seq(NodeSet) /\ \A i \in Places(node) : node[i] \in NodeSet
      /\ mp \in Places(node) /\ mp # n /\ k # Nil /\ DOMAIN node = Places(node)
  <2>1. node \in Seq(NodeSet)
    BY DEF HashOK, Typed
  <2> QED BY <2>1, NodeIs, MainIs, LenProperties DEF Places, TableLimits
<1>2. /\ node[n].next = 0
      /\ \A i \in Places(node) : node[i].next \in (Places(node) \ {n, i}) \cup {0}
  BY FreePlace DEF HashOK
<1>3. \A i \in Places(node) :
        /\ new[i].key = IF i = n THEN k ELSE node[i].key
        /\ new[i].val = IF i = n THEN k ELSE node[i].val
        /\ new[i].next = IF i = n THEN node[mp].next ELSE IF i = mp THEN n ELSE node[i].next
        /\ new[i] \in NodeSet
  <2>1. n \in Nat
    BY DEF Places
  <2> QED BY <1>1, <2>1 DEF NodeSet, Chained
<1>4. new \in Seq(NodeSet) /\ Len(new) = Len(node)
  <2>1. new = [i \in 1..Len(node) |-> new[i]]
    BY <1>1 DEF Places, Chained
  <2> HIDE DEF new
  <2> QED BY <1>1, <1>3, <2>1, VectorIs
<1> HIDE DEF new
<1>5. Places(new) = Places(node) /\ \A i \in Places(new) : new[i].next \in Places(new) \cup {0}
  BY <1>1, <1>2, <1>3, <1>4 DEF Places
<1>6. Typed(new)
  <2>1. \A i \in Places(new) : new[i].next \in 0..Len(new)
    BY <1>4, <1>5 DEF Places
  <2> QED BY <1>1, <1>3, <1>4, <1>5, <2>1 DEF Typed, HashOK
<1>7. Keyed(new)
  <2>1. ASSUME NEW i \in Places(node)
        PROVE  /\ new[i].key = Nil => new[i].next = 0
               /\ new[i].next # 0 => new[new[i].next].key # Nil
    <3>1. CASE i = n
      BY <1>1, <1>2, <1>3, <3>1 DEF HashOK, Keyed
    <3>2. CASE i = mp
      BY <1>1, <1>3, <3>2
    <3>3. CASE i \notin {n, mp}
      BY <1>1, <1>2, <1>3, <3>3 DEF HashOK, Keyed
    <3> QED BY <3>1, <3>2, <3>3
  <2>2. ASSUME NEW i \in Places(node), NEW j \in Places(node), new[i].key = new[j].key, new[i].key # Nil
        PROVE  i = j
    BY <1>3, <2>2 DEF HashOK, Keyed
  <2> QED BY <1>5, <2>1, <2>2 DEF Keyed
<1>8. Single(new)
  <2>1. ASSUME NEW i \in Places(node), NEW j \in Places(node), new[i].next = new[j].next, new[i].next # 0
        PROVE  i = j
    BY <1>1, <1>2, <1>3, <2>1 DEF HashOK, Single
  <2> QED BY <1>5, <2>1 DEF Single
<1>9. Ends(new)
  <2> SUFFICES ASSUME NEW S \in SUBSET Places(node), S # {}, \A i \in S : new[i].next \in S
               PROVE  FALSE
    BY <1>5 DEF Ends
  <2>1. ASSUME NEW i \in S \ {n} PROVE node[i].next \in S \ {n}
    <3>1. CASE i = mp
      <4>1. n \in S
        BY <1>1, <1>3, <3>1
      <4>2. node[mp].next \in S
        BY <1>3, <4>1
      <4> QED BY <1>1, <1>2, <3>1, <4>2
    <3>2. CASE i # mp
      BY <1>1, <1>2, <1>3, <3>2
    <3> QED BY <3>1, <3>2
  <2>2. S \ {n} # {}
    <3>1. ASSUME n \in S PROVE node[mp].next \in S \ {n}
      BY <1>1, <1>2, <1>3, <3>1
    <3> QED BY <3>1
  <2>3. S \ {n} \in SUBSET Places(node)
    OBVIOUS
  <2> QED BY <2>1, <2>2, <2>3 DEF HashOK, Ends
<1>10. ASSUME NEW x \in Places(node) PROVE Chain(node)[x] \subseteq Chain(new)[x]
  <2> DEFINE S == Chain(new)[x]
  <2>1. S \in SUBSET Places(node) /\ x \in S
    BY <1>5, <1>6, <1>9, ChainIn
  <2>2. \A j \in S : new[j].next \in S \cup {0}
    BY <1>5, <1>6, <1>9, <2>1, ChainCloses
  <2> HIDE DEF S
  <2>3. ASSUME NEW j \in S PROVE node[j].next \in S \cup {0}
    <3>1. CASE j = mp
      <4>1. n \in S
        <5>1. new[j].next = n
          BY <1>1, <1>3, <3>1
        <5>2. n # 0
          BY DEF Places
        <5> QED BY <2>2, <5>1, <5>2
      <4>2. new[n].next = node[mp].next
        BY <1>3
      <4> QED BY <2>2, <3>1, <4>1, <4>2
    <3>2. CASE j = n
      BY <1>2, <3>2
    <3>3. CASE j \notin {mp, n}
      BY <1>3, <2>1, <2>2, <3>3
    <3> QED BY <3>1, <3>2, <3>3
  <2>4. Chain(node)[x] \subseteq S
    BY <2>1, <2>3, ChainLeast DEF HashOK
  <2> QED BY <2>4 DEF S
<1>11. Homed(new)
  <2> SUFFICES ASSUME NEW i \in Places(node), new[i].key # Nil,
                      NEW x, x = Mainposition(new, new[i].key)
               PROVE  /\ i \in Chain(new)[x]
                      /\ new[x].key # Nil /\ Mainposition(new, new[x].key) = x
    BY <1>5 DEF Homed
  <2>1. CASE i = n
    <3>1. x = mp /\ mp \in Chain(new)[mp]
      BY <1>1, <1>3, <1>4, <1>5, <1>6, <1>9, <2>1, MainSame, ChainIn
    <3>2. new[mp].next = n /\ n # 0
      BY <1>1, <1>3 DEF Places
    <3>3. n \in Chain(new)[mp]
      BY <1>1, <1>5, <1>6, <1>9, <3>1, <3>2, ChainCloses
    <3> QED BY <1>1, <1>3, <1>4, <2>1, <3>1, <3>3, MainSame
  <2>2. CASE i # n
    <3>1. node[i].key # Nil /\ x = Mainposition(node, node[i].key)
      BY <1>3, <1>4, <2>2, MainSame
    <3>2. x \in Places(node)
      <4>1. node # <<>> /\ node[i].key \in Keys
        BY <1>1, <3>1, NodeIs
      <4> QED BY <1>1, <3>1, <4>1, MainIs
    <3>3. /\ i \in Chain(node)[x]
          /\ node[x].key # Nil /\ Mainposition(node, node[x].key) = x
      BY <3>1 DEF HashOK, Homed
    <3>4. x # n
      BY <3>3
    <3> QED BY <1>3, <1>4, <1>10, <3>2, <3>3, <3>4, MainSame
  <2> QED BY <2>1, <2>2
<1> QED BY <1>3, <1>4, <1>6, <1>7, <1>8, <1>9, <1>11 DEF HashOK, new

\* The foreign key that has the main position moves, and the key takes it.
LEMMA EvictIs ==
  ASSUME TableLimits, NEW node, HashOK(node), NEW k \in Keys, NEW mp, mp = Mainposition(node, k),
         node # <<>>, node[mp].key # Nil, Mainposition(node, node[mp].key) # mp,
         NEW n \in Places(node), node[n].key = Nil, \A i \in Places(node) : node[i].key # k
  PROVE  LET new == Evict(node, mp, n, k) IN
         /\ HashOK(new) /\ Len(new) = Len(node) /\ mp \in Places(node) /\ mp # n
         /\ \A i \in Places(node) :
              /\ new[i].key = IF i = mp THEN k ELSE IF i = n THEN node[mp].key ELSE node[i].key
              /\ new[i].val = IF i = mp THEN k ELSE IF i = n THEN node[mp].val ELSE node[i].val
<1> DEFINE new == Evict(node, mp, n, k)
           o == Mainposition(node, node[mp].key)
           b == CHOOSE i \in Chain(node)[o] : node[i].next = mp
<1>1. /\ node \in Seq(NodeSet) /\ \A i \in Places(node) : node[i] \in NodeSet
      /\ mp \in Places(node) /\ mp # n /\ k # Nil /\ DOMAIN node = Places(node)
  <2>1. node \in Seq(NodeSet)
    BY DEF HashOK, Typed
  <2> QED BY <2>1, NodeIs, MainIs, LenProperties DEF Places, TableLimits
<1>2. /\ node[n].next = 0
      /\ \A i \in Places(node) : node[i].next \in (Places(node) \ {n, i}) \cup {0}
  BY FreePlace DEF HashOK
<1>3. /\ mp \in Chain(node)[o] /\ o \in Places(node) /\ o \notin {mp, n}
      /\ node[o].key # Nil /\ Mainposition(node, node[o].key) = o
  <2>1. node[mp].key \in Keys
    BY <1>1, NodeIs
  <2>2. o \in Places(node)
    BY <1>1, <2>1, MainIs
  <2> QED BY <1>1, <2>2 DEF HashOK, Homed
<1>4. b \in Chain(node)[o] /\ node[b].next = mp
  <2>1. ASSUME \A i \in Chain(node)[o] : node[i].next # mp PROVE FALSE
    <3> DEFINE S == Chain(node)[o] \ {mp}
    <3>1. S \in SUBSET Places(node) /\ o \in S
      BY <1>3, ChainIn DEF HashOK
    <3>2. \A j \in S : node[j].next \in S \cup {0}
      BY <1>3, <2>1, ChainCloses DEF HashOK
    <3> HIDE DEF S
    <3>3. Chain(node)[o] \subseteq S
      BY <3>1, <3>2, ChainLeast DEF HashOK
    <3> QED BY <1>3, <3>3 DEF S
  <2> QED BY <2>1
<1>5. b \in Places(node) /\ b # mp /\ b # n
  <2>1. b \in Places(node)
    BY <1>3, <1>4, ChainIn DEF HashOK
  <2>2. mp # 0
    BY <1>1 DEF Places
  <2> QED BY <1>2, <1>4, <2>1, <2>2
<1>6. new = [node EXCEPT ![b].next = n, ![n] = node[mp], ![mp] = [key |-> k, val |-> k, next |-> 0]]
  BY DEF Evict
<1> HIDE DEF b, o
<1>7. \A i \in Places(node) :
        /\ new[i].key = IF i = mp THEN k ELSE IF i = n THEN node[mp].key ELSE node[i].key
        /\ new[i].val = IF i = mp THEN k ELSE IF i = n THEN node[mp].val ELSE node[i].val
        /\ new[i].next = IF i = mp THEN 0 ELSE IF i = n THEN node[mp].next
                         ELSE IF i = b THEN n ELSE node[i].next
        /\ new[i] \in NodeSet
  <2>1. n \in Nat
    BY DEF Places
  <2> HIDE DEF new
  <2> QED BY <1>1, <1>5, <1>6, <2>1 DEF NodeSet
<1>8. new \in Seq(NodeSet) /\ Len(new) = Len(node)
  <2>1. new = [i \in 1..Len(node) |-> new[i]]
    BY <1>1, <1>6 DEF Places
  <2> HIDE DEF new
  <2> QED BY <1>1, <1>7, <2>1, VectorIs
<1> HIDE DEF new
<1>9. Places(new) = Places(node) /\ \A i \in Places(new) : new[i].next \in Places(new) \cup {0}
  BY <1>1, <1>2, <1>7, <1>8 DEF Places
<1>10. Typed(new)
  <2>1. \A i \in Places(new) : new[i].next \in 0..Len(new)
    BY <1>8, <1>9 DEF Places
  <2> QED BY <1>1, <1>7, <1>8, <1>9, <2>1 DEF Typed, HashOK
<1>11. Keyed(new)
  <2>1. ASSUME NEW i \in Places(node)
        PROVE  /\ new[i].key = Nil => new[i].next = 0
               /\ new[i].next # 0 => new[new[i].next].key # Nil
    <3>1. CASE i = n
      BY <1>1, <1>2, <1>7, <3>1 DEF HashOK, Keyed
    <3>2. CASE i = mp
      BY <1>1, <1>7, <3>2
    <3>3. CASE i = b
      <4>1. new[i].next = n /\ new[n].key = node[mp].key /\ new[i].key = node[i].key
        BY <1>1, <1>5, <1>7, <3>3
      <4>2. node[b].key # Nil
        BY <1>1, <1>4, <1>5 DEF HashOK, Keyed, Places
      <4> QED BY <3>3, <4>1, <4>2
    <3>4. CASE i \notin {n, mp, b}
      BY <1>1, <1>2, <1>7, <3>4 DEF HashOK, Keyed
    <3> QED BY <3>1, <3>2, <3>3, <3>4
  <2>2. ASSUME NEW i \in Places(node), NEW j \in Places(node), new[i].key = new[j].key, new[i].key # Nil
        PROVE  i = j
    BY <1>1, <1>7, <2>2 DEF HashOK, Keyed
  <2> QED BY <1>9, <2>1, <2>2 DEF Keyed
<1>12. Single(new)
  <2>1. ASSUME NEW i \in Places(node), NEW j \in Places(node), new[i].next = new[j].next, new[i].next # 0
        PROVE  i = j
    BY <1>1, <1>2, <1>5, <1>7, <2>1 DEF HashOK, Single
  <2> QED BY <1>9, <2>1 DEF Single
<1>13. Ends(new)
  <2> SUFFICES ASSUME NEW S \in SUBSET Places(node), S # {}, \A i \in S : new[i].next \in S
               PROVE  FALSE
    BY <1>9 DEF Ends
  <2> DEFINE T == (S \ {n}) \cup {i \in {mp} : n \in S}
  <2>1. mp \notin S
    <3>1. 0 \notin S
      BY DEF Places
    <3> QED BY <1>1, <1>7, <3>1
  <2>2. ASSUME NEW i \in T PROVE node[i].next \in T
    <3>1. CASE i = mp
      <4>1. n \in S /\ new[n].next = node[mp].next
        BY <1>1, <1>7, <2>1, <3>1
      <4>2. node[mp].next \in S \ {n}
        BY <1>1, <1>2, <4>1
      <4> QED BY <3>1, <4>2
    <3>2. CASE i = b
      BY <1>4, <1>5, <1>7, <2>1, <3>2
    <3>3. CASE i \notin {mp, b}
      <4>1. i \in S \ {n} /\ i \in Places(node) /\ new[i].next = node[i].next
        BY <1>7, <3>3
      <4>2. n # 0
        BY DEF Places
      <4>3. node[i].next \in S \ {n}
        BY <1>2, <4>1, <4>2
      <4> QED BY <4>3
    <3> QED BY <3>1, <3>2, <3>3
  <2>3. T # {} /\ T \in SUBSET Places(node)
    BY <1>1
  <2> HIDE DEF T
  <2> QED BY <2>2, <2>3 DEF HashOK, Ends
<1>14. ASSUME NEW x \in Places(node) \ {mp, n}, NEW y \in Chain(node)[x]
       PROVE  IF y = mp THEN n \in Chain(new)[x] ELSE y \in Chain(new)[x]
  <2> DEFINE c == Chain(new)[x]
             T == {z \in Places(node) : IF z = mp THEN n \in c ELSE z \in c}
  <2>1. x \in c /\ c \subseteq Places(node)
    BY <1>9, <1>10, <1>13, ChainIn
  <2>2. \A j \in c : new[j].next \in c \cup {0}
    BY <1>9, <1>10, <1>13, <2>1, ChainCloses
  <2> HIDE DEF c
  <2>3. ASSUME NEW z \in T PROVE node[z].next \in T \cup {0}
    <3>1. CASE z = mp
      <4>1. node[mp].next \in c \cup {0}
        BY <1>1, <1>7, <2>2, <3>1
      <4> QED BY <1>1, <1>2, <3>1, <4>1
    <3>2. CASE z = b
      <4>1. new[b].next = n /\ n # 0
        BY <1>5, <1>7 DEF Places
      <4>2. n \in c
        BY <1>5, <2>2, <3>2, <4>1
      <4> QED BY <1>1, <1>4, <3>2, <4>2
    <3>3. CASE z = n
      BY <1>2, <3>3
    <3>4. CASE z \notin {mp, b, n}
      <4>1. node[z].next \in c \cup {0}
        BY <1>7, <2>2, <3>4
      <4>2. node[z].next # mp
        <5>1. mp # 0
          BY <1>1 DEF Places
        <5> QED BY <1>4, <1>5, <3>4, <5>1 DEF HashOK, Single
      <4> QED BY <2>1, <4>1, <4>2
    <3> QED BY <3>1, <3>2, <3>3, <3>4
  <2>4. x \in T /\ T \in SUBSET Places(node)
    BY <2>1
  <2> HIDE DEF T
  <2>5. Chain(node)[x] \subseteq T
    BY <2>3, <2>4, ChainLeast DEF HashOK
  <2> QED BY <2>5 DEF T, c
<1>15. Homed(new)
  <2> SUFFICES ASSUME NEW i \in Places(node), new[i].key # Nil,
                      NEW x, x = Mainposition(new, new[i].key)
               PROVE  /\ i \in Chain(new)[x]
                      /\ new[x].key # Nil /\ Mainposition(new, new[x].key) = x
    BY <1>9 DEF Homed
  <2>1. CASE i = mp
    <3>1. x = mp /\ mp \in Chain(new)[mp] /\ new[mp].key = k
      BY <1>1, <1>7, <1>8, <1>9, <1>10, <1>13, <2>1, MainSame, ChainIn
    <3> QED BY <1>1, <1>8, <2>1, <3>1, MainSame
  <2>2. CASE i = n
    <3>1. x = o
      BY <1>1, <1>7, <1>8, <2>2, MainSame DEF o
    <3>2. new[o].key = node[o].key
      BY <1>3, <1>7
    <3>3. n \in Chain(new)[o]
      BY <1>3, <1>14
    <3> QED BY <1>3, <1>8, <2>2, <3>1, <3>2, <3>3, MainSame
  <2>3. CASE i \notin {mp, n}
    <3>1. node[i].key # Nil /\ x = Mainposition(node, node[i].key)
      BY <1>7, <1>8, <2>3, MainSame
    <3>2. x \in Places(node)
      <4>1. node # <<>> /\ node[i].key \in Keys
        BY <1>1, <3>1, NodeIs
      <4> QED BY <1>1, <3>1, <4>1, MainIs
    <3>3. /\ i \in Chain(node)[x]
          /\ node[x].key # Nil /\ Mainposition(node, node[x].key) = x
      BY <3>1 DEF HashOK, Homed
    <3>4. x # n /\ x # mp
      BY <3>3
    <3>5. i \in Chain(new)[x]
      BY <1>14, <2>3, <3>2, <3>3, <3>4
    <3> QED BY <1>7, <1>8, <3>2, <3>3, <3>4, <3>5, MainSame
  <2> QED BY <2>1, <2>2, <2>3
<1> QED BY <1>1, <1>7, <1>8, <1>10, <1>11, <1>12, <1>13, <1>15 DEF HashOK, new

-----------------------------------------------------------------------------
(* Numbers.                                                                 *)

LEMMA LeastNumber ==
  ASSUME NEW N, N \subseteq Nat, N # {}
  PROVE  \E n \in N : \A m \in N : n <= m
<1> DEFINE R == {ss \in Nat \X Nat : ss[1] < ss[2]}
<1>1. OpToRel(<, Nat) = R
  BY Zenon DEF OpToRel
<1>2. IsWellFoundedOn(R, Nat)
  BY <1>1, NatLessThanWellFounded, Zenon
<1> HIDE DEF R
<1>3. PICK n \in N : \A m \in N : ~(<<m, n>> \in R)
  BY <1>2, WFMin
<1>4. ASSUME NEW m \in N PROVE n <= m
  <2>1. m \in Nat /\ n \in Nat
    OBVIOUS
  <2>2. m < n => <<m, n>> \in R
    BY <2>1 DEF R
  <2>3. ~(m < n)
    BY <1>3, <2>2
  <2> QED BY <2>1, <2>3
<1> QED BY <1>4

LEMMA MinIs ==
  ASSUME NEW N, N \subseteq Nat, N # {}
  PROVE  Min(N) \in N /\ \A n \in N : Min(N) <= n
BY LeastNumber DEF Min

LEMMA MaxIs ==
  ASSUME NEW N, N \subseteq Nat, N # {}, NEW b \in Nat, \A n \in N : n <= b
  PROVE  Max(N) \in N /\ \A n \in N : n <= Max(N)
<1> DEFINE U == {u \in Nat : \A n \in N : n <= u}
<1>1. PICK u \in U : \A w \in U : u <= w
  <2>1. U \subseteq Nat /\ U # {}
    OBVIOUS
  <2> HIDE DEF U
  <2> QED BY <2>1, LeastNumber
<1>2. u \in N
  <2> SUFFICES ASSUME u \notin N PROVE FALSE
    OBVIOUS
  <2>1. \A n \in N : n \in Nat /\ n < u
    BY <1>1
  <2>2. u - 1 \in U
    <3>1. u - 1 \in Nat
      <4>1. PICK n \in N : TRUE
        OBVIOUS
      <4>2. n \in Nat /\ n < u /\ u \in Nat
        BY <2>1
      <4> QED BY <4>2
    <3> QED BY <1>1, <2>1, <3>1
  <2> QED BY <1>1, <2>2
<1>3. \E n \in N : \A m \in N : n >= m
  BY <1>1, <1>2
<1>4. Max(N) \in N /\ \A m \in N : Max(N) >= m
  BY <1>3 DEF Max
<1> QED BY <1>4

-----------------------------------------------------------------------------
(* A table.                                                                 *)

TableSet == [array : Seq(Keys \cup {Nil}), node : Seq(NodeSet), lastfree : Nat]

ArrayOK(t) == \A i \in 1..Len(t.array) : t.array[i] # Nil => t.array[i] = i /\ i \in Numbers

\* From lastfree on each node has a key.
FreeOK(t) ==
  /\ t.lastfree \in 1 .. Len(t.node) + 1
  /\ \A i \in Places(t.node) : i >= t.lastfree => t.node[i].key # Nil

TableOK(t) ==
  /\ t \in TableSet /\ ArrayOK(t) /\ HashOK(t.node) /\ FreeOK(t)
  /\ \A i \in Places(t.node) : ~InArray(t, t.node[i].key)

LEMMA GetIs ==
  ASSUME TableLimits, NEW t, TableOK(t), NEW k \in Keys
  PROVE  /\ Get(t, k) \in {k, Nil}
         /\ InArray(t, k) => Get(t, k) = t.array[k] /\ k \in 1..Len(t.array)
         /\ ~InArray(t, k) =>
              /\ \A i \in Places(t.node) : t.node[i].key = k => Get(t, k) = t.node[i].val
              /\ (\A i \in Places(t.node) : t.node[i].key # k) => Get(t, k) = Nil
<1>1. k # Nil /\ HashOK(t.node)
  BY DEF TableLimits, TableOK
<1>2. CASE InArray(t, k)
  <2>1. k \in 1..Len(t.array) /\ Get(t, k) = t.array[k]
    <3>1. k \in Nat \ {0} /\ Len(t.array) \in Nat
      BY <1>2 DEF InArray, TableLimits, TableOK, TableSet
    <3> QED BY <1>2, <3>1 DEF InArray, Get
  <2> QED BY <1>2, <2>1 DEF TableOK, ArrayOK
<1>3. CASE ~InArray(t, k)
  <2>1. Get(t, k) = IF Find(t.node, k) = 0 THEN Nil ELSE t.node[Find(t.node, k)].val
    BY <1>3 DEF Get
  <2>2. CASE Find(t.node, k) = 0
    <3>1. 0 \notin Places(t.node)
      BY DEF Places
    <3>2. \A i \in Places(t.node) : t.node[i].key # k
      BY <1>1, <2>2, <3>1, FindIs
    <3> QED BY <1>3, <2>1, <2>2, <3>2
  <2>3. CASE Find(t.node, k) # 0
    <3> DEFINE f == Find(t.node, k)
    <3>1. f \in Places(t.node) /\ t.node[f].key = k
      BY <1>1, <2>3, FindIs
    <3> HIDE DEF f
    <3>2. \A i \in Places(t.node) : t.node[i].key = k => i = f
      BY <1>1, <3>1 DEF HashOK, Keyed
    <3>3. t.node[f].val \in {k, Nil}
      BY <1>1, <3>1 DEF HashOK, Typed
    <3>4. Get(t, k) = t.node[f].val
      BY <2>1, <2>3 DEF f
    <3> QED BY <1>3, <3>1, <3>2, <3>3, <3>4
  <2> QED BY <2>2, <2>3
<1> QED BY <1>2, <1>3

\* getfreepos finds a place if there is one.
LEMMA FreeIs ==
  ASSUME NEW t, t \in TableSet, FreeOK(t), NEW i \in Places(t.node), t.node[i].key = Nil
  PROVE  LET n == Getfreepos(t) IN
         /\ n \in Places(t.node) /\ t.node[n].key = Nil
         /\ \A j \in Places(t.node) : j > n => t.node[j].key # Nil
<1> DEFINE N == {0} \cup {j \in 1 .. t.lastfree - 1 : t.node[j].key = Nil}
           n == Getfreepos(t)
<1>1. /\ Len(t.node) \in Nat /\ t.lastfree \in 1 .. Len(t.node) + 1
      /\ Places(t.node) = 1..Len(t.node)
  BY LenProperties DEF TableSet, FreeOK, Places
<1>2. N \subseteq Nat /\ \A j \in N : j <= Len(t.node)
  BY <1>1
<1>3. i \in N
  BY <1>1 DEF FreeOK
<1>4. n = Max(N)
  BY DEF Getfreepos
<1> HIDE DEF N, n
<1>5. n \in N /\ \A j \in N : j <= n
  BY <1>1, <1>2, <1>3, <1>4, MaxIs
<1>6. n \in Places(t.node) /\ t.node[n].key = Nil
  BY <1>1, <1>3, <1>5 DEF N
<1>7. ASSUME NEW j \in Places(t.node), j > n PROVE t.node[j].key # Nil
  <2>1. j \notin N
    BY <1>1, <1>5, <1>6, <1>7
  <2>2. CASE j < t.lastfree
    BY <1>1, <2>1, <2>2 DEF N
  <2>3. CASE j >= t.lastfree
    BY <2>3 DEF FreeOK
  <2> QED BY <1>1, <2>2, <2>3
<1> QED BY <1>6, <1>7 DEF n

\* As long as there are fewer keys than nodes, a node has none.
LEMMA RoomIs ==
  ASSUME TableLimits, NEW node, HashOK(node), NEW W \in SUBSET Keys, Cardinality(W) <= Len(node), NEW k \in W,
         \A i \in Places(node) : node[i].key # Nil => node[i].key \in W \ {k}
  PROVE  \E i \in Places(node) : node[i].key = Nil
<1> SUFFICES ASSUME \A i \in Places(node) : node[i].key # Nil PROVE FALSE
  OBVIOUS
<1> DEFINE f == [i \in Places(node) |-> node[i].key]
<1>1. f \in [Places(node) -> W \ {k}]
  OBVIOUS
<1>2. Len(node) \in Nat
  BY LenProperties DEF HashOK, Typed
<1>3. IsFiniteSet(Places(node)) /\ Cardinality(Places(node)) = Len(node)
  <2>1. /\ IsFiniteSet(1..Len(node))
        /\ Cardinality(1..Len(node)) = IF 1 > Len(node) THEN 0 ELSE Len(node) - 1 + 1
    BY <1>2, FS_Interval
  <2> QED BY <1>2, <2>1 DEF Places
<1>4. IsFiniteSet(W)
  BY FS_Subset DEF TableLimits
<1>5. IsFiniteSet(W \ {k}) /\ Cardinality(W \ {k}) = Cardinality(W) - 1 /\ Cardinality(W) \in Nat
  BY <1>4, FS_RemoveElement, FS_CardinalityType
<1>6. Cardinality(W \ {k}) < Cardinality(Places(node))
  BY <1>2, <1>3, <1>5
<1> HIDE DEF f
<1>7. \E i, j \in Places(node) : i # j /\ f[i] = f[j]
  BY <1>1, <1>3, <1>5, <1>6, FS_PigeonHole
<1> QED BY <1>7 DEF f, HashOK, Keyed

-----------------------------------------------------------------------------
(* An entry is stored.                                                      *)

\* The table u is t with the entry k, whose nodes have no other keys than before.
Gained(t, u, k) ==
  /\ TableOK(u) /\ Len(u.array) = Len(t.array) /\ Len(u.node) = Len(t.node)
  /\ \A j \in Keys : Get(u, j) = IF j = k THEN k ELSE Get(t, j)
  /\ \A i \in Places(u.node) :
       u.node[i].key \in {Nil, k} \cup {t.node[j].key : j \in Places(t.node)}

LEMMA NodesGain ==
  ASSUME TableLimits, NEW t, TableOK(t), NEW u \in TableSet, NEW k \in Keys, ~InArray(t, k),
         \A i \in Places(t.node) : t.node[i].key # k,
         u.array = t.array, Len(u.node) = Len(t.node), HashOK(u.node), FreeOK(u),
         NEW n \in Places(t.node), u.node[n].key = k, u.node[n].val = k,
         \A i \in Places(t.node) \ {n} : u.node[i].key # Nil =>
            \E j \in Places(t.node) : t.node[j].key = u.node[i].key /\ t.node[j].val = u.node[i].val,
         \A j \in Places(t.node) : t.node[j].val # Nil =>
            \E i \in Places(t.node) : u.node[i].key = t.node[j].key
  PROVE  Gained(t, u, k)
<1>1. Places(u.node) = Places(t.node) /\ \A j : InArray(u, j) <=> InArray(t, j)
  BY DEF Places, InArray
<1>2. TableOK(u)
  <2>1. ArrayOK(u)
    BY DEF TableOK, ArrayOK
  <2>2. ~InArray(t, Nil)
    BY DEF InArray, TableLimits, Keys
  <2>3. ASSUME NEW i \in Places(u.node) PROVE ~InArray(u, u.node[i].key)
    BY <1>1, <2>2 DEF TableOK
  <2> QED BY <2>1, <2>3 DEF TableOK
<1>3. ASSUME NEW j \in Keys PROVE Get(u, j) = IF j = k THEN k ELSE Get(t, j)
  <2>1. CASE j = k
    BY <1>1, <1>2, <2>1, GetIs
  <2>2. CASE j # k /\ InArray(t, j)
    <3>1. Get(u, j) = u.array[j] /\ Get(t, j) = t.array[j]
      BY <1>1, <1>2, <2>2, GetIs
    <3> QED BY <2>2, <3>1
  <2>3. CASE j # k /\ ~InArray(t, j) /\ \E i \in Places(t.node) : u.node[i].key = j
    <3>1. PICK i \in Places(t.node) : u.node[i].key = j
      BY <2>3
    <3>2. j # Nil
      BY DEF TableLimits
    <3>3. PICK m \in Places(t.node) : t.node[m].key = j /\ t.node[m].val = u.node[i].val
      BY <2>3, <3>1, <3>2
    <3>4. Get(u, j) = u.node[i].val
      BY <1>1, <1>2, <2>3, <3>1, GetIs
    <3>5. Get(t, j) = t.node[m].val
      BY <2>3, <3>3, GetIs
    <3> QED BY <2>3, <3>3, <3>4, <3>5
  <2>4. CASE j # k /\ ~InArray(t, j) /\ \A i \in Places(t.node) : u.node[i].key # j
    <3>1. Get(u, j) = Nil
      BY <1>1, <1>2, <2>4, GetIs
    <3>2. \A m \in Places(t.node) : t.node[m].key = j => t.node[m].val = Nil
      BY <2>4
    <3>3. Get(t, j) = Nil
      BY <2>4, <3>2, GetIs
    <3> QED BY <2>4, <3>1, <3>3
  <2> QED BY <2>1, <2>2, <2>3, <2>4
<1>4. ASSUME NEW i \in Places(u.node)
      PROVE  u.node[i].key \in {Nil, k} \cup {t.node[j].key : j \in Places(t.node)}
  BY <1>1
<1> QED BY <1>2, <1>3, <1>4 DEF Gained

\* A key that is not there, and for which there is a place.
LEMMA PlaceIs ==
  ASSUME TableLimits, NEW t, TableOK(t), NEW k \in Keys, ~InArray(t, k), t.node # <<>>,
         \A i \in Places(t.node) : t.node[i].key # k,
         t.node[Mainposition(t.node, k)].val = Nil \/ \E i \in Places(t.node) : t.node[i].key = Nil
  PROVE  Gained(t, Place(t, k), k)
<1> DEFINE mp == Mainposition(t.node, k)
           n == Getfreepos(t)
<1>1. t \in TableSet /\ HashOK(t.node) /\ FreeOK(t)
  BY DEF TableOK
<1>2. mp \in Places(t.node) /\ Len(t.node) \in Nat /\ k # Nil
  BY <1>1, MainIs, LenProperties DEF HashOK, Typed, TableLimits
<1>3. CASE t.node[mp].val = Nil
  <2> DEFINE new == [t.node EXCEPT ![mp] = [key |-> k, val |-> k, next |-> t.node[mp].next]]
             u == [t EXCEPT !.node = new]
  <2>0. mp = Mainposition(t.node, k)
    OBVIOUS
  <2> HIDE DEF mp
  <2>1. Place(t, k) = u
    <3>1. Place(t, k) = [t EXCEPT !.node[mp] = [key |-> k, val |-> k, next |-> t.node[mp].next]]
      BY <1>3 DEF Place, mp
    <3> QED BY <1>1, <3>1 DEF TableSet
  <2>2. /\ HashOK(new) /\ Len(new) = Len(t.node)
        /\ \A i \in Places(t.node) : /\ new[i].key = IF i = mp THEN k ELSE t.node[i].key
                                     /\ new[i].val = IF i = mp THEN k ELSE t.node[i].val
    BY <1>1, <1>3, <2>0, TakeIs
  <2> HIDE DEF new
  <2>3. /\ u \in TableSet /\ u.array = t.array /\ u.node = new /\ u.lastfree = t.lastfree
    BY <1>1, <2>2 DEF TableSet, HashOK, Typed
  <2> HIDE DEF u
  <2>4. FreeOK(u)
    BY <1>1, <1>2, <2>2, <2>3 DEF FreeOK, Places
  <2>5. ASSUME NEW j \in Places(t.node), t.node[j].val # Nil
        PROVE  \E i \in Places(t.node) : new[i].key = t.node[j].key
    BY <1>3, <2>2, <2>5
  <2>6. ASSUME NEW i \in Places(t.node) \ {mp}
        PROVE  \E j \in Places(t.node) : t.node[j].key = new[i].key /\ t.node[j].val = new[i].val
    BY <2>2
  <2>7. Gained(t, u, k)
    BY <1>2, <2>2, <2>3, <2>4, <2>5, <2>6, NodesGain
  <2> QED BY <2>1, <2>7
<1>4. CASE t.node[mp].val # Nil
  <2>1. /\ n \in Places(t.node) /\ t.node[n].key = Nil
        /\ \A j \in Places(t.node) : j > n => t.node[j].key # Nil
    BY <1>1, <1>4, FreeIs
  <2>2. t.node[mp].key # Nil
    BY <1>1, <1>2, <1>4 DEF HashOK, Typed
  <2> DEFINE other == Mainposition(t.node, t.node[mp].key)
             new == IF other # mp THEN Evict(t.node, mp, n, k) ELSE Chained(t.node, mp, n, k)
             u == [t EXCEPT !.lastfree = n, !.node = new]
  <2>3. Place(t, k) = u
    BY <1>4 DEF Place
  <2>4. /\ HashOK(new) /\ Len(new) = Len(t.node)
        /\ \E m \in Places(t.node) :
             /\ new[m].key = k /\ new[m].val = k
             /\ \A i \in Places(t.node) \ {m} : new[i].key # Nil =>
                  \E j \in Places(t.node) : t.node[j].key = new[i].key /\ t.node[j].val = new[i].val
        /\ \A j \in Places(t.node) : t.node[j].key # Nil => new[j].key # Nil
        /\ new[n].key # Nil
        /\ \A j \in Places(t.node) : t.node[j].val # Nil =>
             \E i \in Places(t.node) : new[i].key = t.node[j].key
    <3>1. CASE other # mp
      <4> DEFINE e == Evict(t.node, mp, n, k)
      <4>1. /\ HashOK(e) /\ Len(e) = Len(t.node) /\ mp \in Places(t.node) /\ mp # n
            /\ \A i \in Places(t.node) :
                 /\ e[i].key = IF i = mp THEN k ELSE IF i = n THEN t.node[mp].key ELSE t.node[i].key
                 /\ e[i].val = IF i = mp THEN k ELSE IF i = n THEN t.node[mp].val ELSE t.node[i].val
        BY <1>1, <2>1, <2>2, <3>1, EvictIs
      <4>2. new = e
        BY <3>1
      <4> HIDE DEF new, e, n, mp
      <4>3. \A i \in Places(t.node) \ {mp} : \E j \in Places(t.node) :
               t.node[j].key = e[i].key /\ t.node[j].val = e[i].val
        BY <4>1
      <4>4. ASSUME NEW j \in Places(t.node), t.node[j].val # Nil
            PROVE  \E i \in Places(t.node) : e[i].key = t.node[j].key
        <5>1. j # n
          BY <1>1, <2>1, <4>4 DEF HashOK, Typed
        <5>2. CASE j = mp
          BY <2>1, <4>1, <5>2
        <5>3. CASE j # mp
          BY <4>1, <5>1, <5>3
        <5> QED BY <5>2, <5>3
      <4> QED BY <1>2, <2>1, <2>2, <4>1, <4>2, <4>3, <4>4
    <3>2. CASE other = mp
      <4> DEFINE c == Chained(t.node, mp, n, k)
      <4>1. /\ HashOK(c) /\ Len(c) = Len(t.node)
            /\ \A i \in Places(t.node) : /\ c[i].key = IF i = n THEN k ELSE t.node[i].key
                                         /\ c[i].val = IF i = n THEN k ELSE t.node[i].val
        BY <1>1, <2>1, <2>2, <3>2, ChainedIs
      <4>2. new = c
        BY <3>2
      <4> HIDE DEF new, c, n, mp
      <4>3. \A i \in Places(t.node) \ {n} : \E j \in Places(t.node) :
               t.node[j].key = c[i].key /\ t.node[j].val = c[i].val
        BY <4>1
      <4>4. ASSUME NEW j \in Places(t.node), t.node[j].val # Nil
            PROVE  \E i \in Places(t.node) : c[i].key = t.node[j].key
        <5>1. j # n
          BY <1>1, <2>1, <4>4 DEF HashOK, Typed
        <5> QED BY <4>1, <5>1
      <4> QED BY <1>2, <2>1, <4>1, <4>2, <4>3, <4>4
    <3> QED BY <3>1, <3>2
  <2> HIDE DEF new, mp, n
  <2>5. /\ u \in TableSet /\ u.array = t.array /\ u.node = new /\ u.lastfree = n
    <3>1. n \in Nat /\ new \in Seq(NodeSet)
      BY <2>1, <2>4 DEF HashOK, Typed, Places
    <3> QED BY <1>1, <3>1 DEF TableSet
  <2> HIDE DEF u
  <2>6. FreeOK(u)
    <3>1. n \in 1 .. Len(u.node) + 1 /\ Places(u.node) = Places(t.node)
      BY <1>2, <2>1, <2>4, <2>5 DEF Places
    <3>2. ASSUME NEW i \in Places(t.node), i >= n PROVE u.node[i].key # Nil
      <4>1. i = n \/ i > n
        BY <2>1, <3>2 DEF Places
      <4> QED BY <2>1, <2>4, <2>5, <4>1
    <3> QED BY <2>5, <3>1, <3>2 DEF FreeOK
  <2>7. PICK m \in Places(t.node) :
             /\ new[m].key = k /\ new[m].val = k
             /\ \A i \in Places(t.node) \ {m} : new[i].key # Nil =>
                  \E j \in Places(t.node) : t.node[j].key = new[i].key /\ t.node[j].val = new[i].val
    BY <2>4
  <2>8. Gained(t, u, k)
    BY <2>4, <2>5, <2>6, <2>7, NodesGain
  <2> QED BY <2>3, <2>8
<1> QED BY <1>3, <1>4

\* The same keys have a place.
SameKeys(t, u) ==
  /\ Len(u.array) = Len(t.array) /\ Len(u.node) = Len(t.node)
  /\ \A i \in Places(t.node) : u.node[i].key = t.node[i].key

\* The table u is t but for the value of k, which had a place.
Stored(t, u, k, v) ==
  /\ TableOK(u) /\ SameKeys(t, u)
  /\ \A j \in Keys : Get(u, j) = IF j = k THEN v ELSE Get(t, j)

LEMMA ArrayStores ==
  ASSUME TableLimits, NEW t, TableOK(t), NEW k \in Keys, InArray(t, k), NEW v \in {k, Nil}
  PROVE  LET u == [t EXCEPT !.array[k] = v] IN
         Stored(t, u, k, v) /\ u.node = t.node
<1> DEFINE u == [t EXCEPT !.array[k] = v]
<1>1. t \in TableSet /\ HashOK(t.node) /\ FreeOK(t) /\ ArrayOK(t) /\ k # Nil /\ v \in Keys \cup {Nil}
  BY DEF TableOK, TableLimits
<1>2. k \in 1..Len(t.array) /\ k \in Numbers /\ t.array \in Seq(Keys \cup {Nil})
  BY <1>1, GetIs DEF InArray, TableSet
<1>3. /\ u \in TableSet /\ u.node = t.node /\ u.lastfree = t.lastfree /\ Len(u.array) = Len(t.array)
      /\ \A i \in 1..Len(t.array) : u.array[i] = IF i = k THEN v ELSE t.array[i]
  <2>1. /\ [t.array EXCEPT ![k] = v] \in Seq(Keys \cup {Nil})
        /\ Len([t.array EXCEPT ![k] = v]) = Len(t.array)
        /\ \A i \in 1..Len(t.array) : [t.array EXCEPT ![k] = v][i] = IF i = k THEN v ELSE t.array[i]
    BY <1>1, <1>2, ExceptSeq
  <2> QED BY <1>1, <2>1 DEF TableSet
<1> HIDE DEF u
<1>4. \A j : InArray(u, j) <=> InArray(t, j)
  BY <1>3 DEF InArray
<1>5. TableOK(u)
  BY <1>1, <1>2, <1>3, <1>4 DEF TableOK, ArrayOK, FreeOK
<1>6. ASSUME NEW j \in Keys PROVE Get(u, j) = IF j = k THEN v ELSE Get(t, j)
  <2>1. CASE InArray(t, j)
    <3>1. Get(u, j) = u.array[j] /\ Get(t, j) = t.array[j] /\ j \in 1..Len(t.array)
      BY <1>4, <1>5, <2>1, GetIs
    <3> QED BY <1>3, <3>1
  <2>2. CASE ~InArray(t, j)
    <3>1. Get(u, j) = Get(t, j)
      BY <1>3, <1>4, <2>2 DEF Get
    <3> QED BY <2>2, <3>1
  <2> QED BY <2>1, <2>2
<1> QED BY <1>3, <1>5, <1>6 DEF Stored, SameKeys, u

LEMMA NodeStores ==
  ASSUME TableLimits, NEW t, TableOK(t), NEW k \in Keys, ~InArray(t, k), NEW v \in {k, Nil},
         \E i \in Places(t.node) : t.node[i].key = k
  PROVE  LET u == [t EXCEPT !.node[Find(t.node, k)].val = v] IN
         Find(t.node, k) # 0 /\ Stored(t, u, k, v) /\ u.array = t.array
<1> DEFINE n == Find(t.node, k)
           new == [t.node EXCEPT ![n].val = v]
           u == [t EXCEPT !.node = new]
<1>1. t \in TableSet /\ HashOK(t.node) /\ FreeOK(t) /\ ArrayOK(t) /\ k # Nil
  BY DEF TableOK, TableLimits
<1>2. n \in Places(t.node) /\ t.node[n].key = k /\ n # 0
  BY <1>1, FindIs DEF Places
<1>3. [t EXCEPT !.node[n].val = v] = u
  BY <1>1 DEF TableSet
<1>4. /\ HashOK(new) /\ Len(new) = Len(t.node)
      /\ \A i \in Places(t.node) : /\ new[i].key = t.node[i].key
                                   /\ new[i].val = IF i = n THEN v ELSE t.node[i].val
  <2>1. v \in {Nil, t.node[n].key} /\ t.node[n].key # Nil
    BY <1>1, <1>2
  <2> HIDE DEF n
  <2> QED BY <1>1, <1>2, <2>1, StoreIs
<1> HIDE DEF new, n
<1>5. u \in TableSet /\ u.node = new /\ u.array = t.array /\ u.lastfree = t.lastfree
  BY <1>1, <1>4 DEF TableSet, HashOK, Typed
<1> HIDE DEF u
<1>6. /\ Places(u.node) = Places(t.node) /\ \A j : InArray(u, j) <=> InArray(t, j)
  BY <1>4, <1>5 DEF Places, InArray
<1>7. TableOK(u)
  BY <1>1, <1>4, <1>5, <1>6 DEF TableOK, ArrayOK, FreeOK
<1>8. ASSUME NEW j \in Keys PROVE Get(u, j) = IF j = k THEN v ELSE Get(t, j)
  <2>1. CASE InArray(t, j)
    <3>1. Get(u, j) = u.array[j] /\ Get(t, j) = t.array[j]
      BY <1>6, <1>7, <2>1, GetIs
    <3> QED BY <1>5, <2>1, <3>1
  <2>2. CASE ~InArray(t, j) /\ \E i \in Places(t.node) : t.node[i].key = j
    <3>1. PICK i \in Places(t.node) : t.node[i].key = j
      BY <2>2
    <3>2. Get(t, j) = t.node[i].val
      BY <2>2, <3>1, GetIs
    <3>3. Get(u, j) = u.node[i].val
      BY <1>4, <1>5, <1>6, <1>7, <2>2, <3>1, GetIs
    <3>4. i = n <=> j = k
      BY <1>1, <1>2, <3>1 DEF HashOK, Keyed
    <3> QED BY <1>4, <1>5, <3>2, <3>3, <3>4
  <2>3. CASE ~InArray(t, j) /\ \A i \in Places(t.node) : t.node[i].key # j
    <3>1. Get(t, j) = Nil /\ Get(u, j) = Nil
      BY <1>4, <1>5, <1>6, <1>7, <2>3, GetIs
    <3> QED BY <1>2, <2>3, <3>1
  <2> QED BY <2>1, <2>2, <2>3
<1>9. Stored(t, u, k, v)
  BY <1>4, <1>5, <1>7, <1>8 DEF Stored, SameKeys
<1> QED BY <1>2, <1>3, <1>5, <1>9 DEF n

\* An entry that has a place in the array, in a node, or a free one.
LEMMA InsertIs ==
  ASSUME TableLimits, NEW t, TableOK(t), NEW k \in Keys,
         \/ InArray(t, k)
         \/ \E i \in Places(t.node) : t.node[i].key = k
         \/ /\ t.node # <<>>
            /\ \/ t.node[Mainposition(t.node, k)].val = Nil
               \/ \E i \in Places(t.node) : t.node[i].key = Nil
  PROVE  /\ Gained(t, Insert(t, k), k)
         /\ InArray(t, k) => Insert(t, k).node = t.node
         /\ InArray(t, k) \/ (\E i \in Places(t.node) : t.node[i].key = k) =>
              Stored(t, Insert(t, k), k, k)
<1>0. ASSUME NEW u, Stored(t, u, k, k) PROVE Gained(t, u, k)
  BY <1>0 DEF Gained, Stored, SameKeys, Places
<1>1. HashOK(t.node)
  BY DEF TableOK
<1>2. CASE InArray(t, k)
  <2> DEFINE u == [t EXCEPT !.array[k] = k]
  <2>1. Insert(t, k) = u
    BY <1>2 DEF Insert
  <2>2. Stored(t, u, k, k) /\ u.node = t.node
    BY <1>2, ArrayStores
  <2> HIDE DEF u
  <2> QED BY <1>0, <1>2, <2>1, <2>2
<1>3. CASE ~InArray(t, k) /\ \E i \in Places(t.node) : t.node[i].key = k
  <2> DEFINE u == [t EXCEPT !.node[Find(t.node, k)].val = k]
  <2>1. Find(t.node, k) # 0 /\ Stored(t, u, k, k)
    BY <1>3, NodeStores
  <2>2. Insert(t, k) = u
    BY <1>3, <2>1 DEF Insert
  <2> HIDE DEF u
  <2> QED BY <1>0, <1>3, <2>1, <2>2
<1>4. CASE ~InArray(t, k) /\ \A i \in Places(t.node) : t.node[i].key # k
  <2>1. Insert(t, k) = Place(t, k)
    <3>1. Find(t.node, k) = 0
      BY <1>1, <1>4, FindIs
    <3> QED BY <1>4, <3>1 DEF Insert
  <2>2. Gained(t, Place(t, k), k)
    BY <1>4, PlaceIs
  <2> QED BY <1>4, <2>1, <2>2
<1> QED BY <1>2, <1>3, <1>4

-----------------------------------------------------------------------------
(* Loops.                                                                   *)

\* Induction, over a set of numbers.
LEMMA UpFromZero ==
  ASSUME NEW N, 0 \in N, \A n \in Nat : n \in N => n + 1 \in N
  PROVE  Nat \subseteq N
<1> SUFFICES ASSUME Nat \ N # {} PROVE FALSE
  OBVIOUS
<1>1. PICK n \in Nat \ N : \A m \in Nat \ N : n <= m
  <2> DEFINE S == Nat \ N
  <2>1. S \subseteq Nat /\ S # {}
    OBVIOUS
  <2> HIDE DEF S
  <2>2. \E n \in S : \A m \in S : n <= m
    BY <2>1, LeastNumber
  <2> QED BY <2>2 DEF S
<1>2. n - 1 \in Nat /\ ~(n <= n - 1)
  BY <1>1
<1>3. n - 1 \in N
  BY <1>1, <1>2
<1>4. n - 1 + 1 \in N
  BY <1>2, <1>3
<1> QED BY <1>1, <1>4

\* A loop that begins with b, after each of its rounds.
Rounds(f, k, A, G, b) ==
  /\ f = [n \in 0..k |-> f[n]] /\ f[0] = b
  /\ \A n \in 0..k : f[n] \in A[n]
  /\ \A n \in 1..k : f[n] = G[n][f[n - 1]]

\* If each round leads from one set to the next, there is one.
LEMMA LoopRuns ==
  ASSUME NEW k \in Nat, NEW A, NEW G, NEW b \in A[0],
         \A n \in 1..k : \A x \in A[n - 1] : G[n][x] \in A[n]
  PROVE  \E f : Rounds(f, k, A, G, b)
<1> DEFINE Begins(f, n) == /\ f = [i \in 0..n |-> f[i]] /\ f[0] = b
                           /\ \A i \in 0..n : f[i] \in A[i]
                           /\ \A i \in 1..n : f[i] = G[i][f[i - 1]]
           N == {n \in Nat : n <= k => \E f : Begins(f, n)}
<1>1. 0 \in N
  <2> DEFINE f == [i \in 0..0 |-> b]
  <2>1. f[0] = b /\ f = [i \in 0..0 |-> f[i]] /\ \A i \in 0..0 : i = 0
    OBVIOUS
  <2> HIDE DEF f
  <2>2. Begins(f, 0)
    BY <2>1
  <2> QED BY <2>2
<1>2. ASSUME NEW n \in Nat, n \in N PROVE n + 1 \in N
  <2> SUFFICES ASSUME n + 1 <= k PROVE \E f : Begins(f, n + 1)
    OBVIOUS
  <2>1. PICK g : Begins(g, n)
    BY <1>2
  <2>0. /\ g[0] = b /\ \A i \in 0..n : g[i] \in A[i]
        /\ \A i \in 1..n : g[i] = G[i][g[i - 1]]
    BY <2>1
  <2> DEFINE f == [i \in 0 .. n + 1 |-> IF i = n + 1 THEN G[n + 1][g[n]] ELSE g[i]]
  <2>2. n + 1 \in 1..k /\ n \in 0..n /\ n + 1 - 1 = n
    OBVIOUS
  <2>3. G[n + 1][g[n]] \in A[n + 1]
    <3>1. g[n] \in A[n]
      BY <2>0, <2>2
    <3> QED BY <2>2, <3>1
  <2>5. /\ f = [i \in 0 .. n + 1 |-> f[i]]
        /\ f[n + 1] = G[n + 1][g[n]] /\ \A i \in 0..n : f[i] = g[i]
    OBVIOUS
  <2> HIDE DEF f
  <2>6. f[0] = b
    BY <2>0, <2>5
  <2>7. ASSUME NEW i \in 0 .. n + 1 PROVE f[i] \in A[i]
    <3>1. i = n + 1 \/ i \in 0..n
      OBVIOUS
    <3> QED BY <2>0, <2>3, <2>5, <3>1
  <2>8. ASSUME NEW i \in 1 .. n + 1 PROVE f[i] = G[i][f[i - 1]]
    <3>1. i = n + 1 \/ (i \in 1..n /\ i \in 0..n)
      OBVIOUS
    <3>2. i - 1 \in 0..n
      OBVIOUS
    <3>3. f[i - 1] = g[i - 1]
      BY <2>5, <3>2
    <3>4. CASE i = n + 1
      BY <2>2, <2>5, <3>3, <3>4
    <3>5. CASE i \in 1..n /\ i \in 0..n
      BY <2>0, <2>5, <3>3, <3>5
    <3> QED BY <3>1, <3>4, <3>5
  <2>9. Begins(f, n + 1)
    BY <2>5, <2>6, <2>7, <2>8
  <2> QED BY <2>9
<1> HIDE DEF N
<1>3. k \in N
  BY <1>1, <1>2, UpFromZero
<1>4. PICK f : Begins(f, k)
  BY <1>3 DEF N
<1> QED BY <1>4 DEF Rounds

\* A function that is defined by such a loop stays in the sets.
LEMMA LoopStays ==
  ASSUME NEW k \in Nat, NEW A, NEW f, f[0] \in A[0],
         \A n \in 1..k : f[n - 1] \in A[n - 1] => f[n] \in A[n]
  PROVE  f[k] \in A[k]
<1> DEFINE N == {n \in Nat : n <= k => f[n] \in A[n]}
<1>1. 0 \in N
  OBVIOUS
<1>2. ASSUME NEW n \in Nat, n \in N PROVE n + 1 \in N
  <2> SUFFICES ASSUME n + 1 <= k PROVE f[n + 1] \in A[n + 1]
    OBVIOUS
  <2>1. n + 1 \in 1..k /\ n + 1 - 1 = n /\ f[n] \in A[n]
    BY <1>2
  <2> QED BY <2>1
<1> HIDE DEF N
<1>3. k \in N
  BY <1>1, <1>2, UpFromZero
<1> QED BY <1>3 DEF N

-----------------------------------------------------------------------------
(* A table is resized.                                                      *)

LEMMA VectorFresh ==
  ASSUME TableLimits, NEW n \in Nat, n = 0 \/ \E p \in Powers : n <= p
  PROVE  LET node == Setnodevector(n) IN
         /\ HashOK(node) /\ n <= Len(node)
         /\ n = 0 => node = <<>>
         /\ n # 0 => Len(node) = Min({p \in Powers : p >= n}) /\ Len(node) \in Powers
         /\ \A i \in Places(node) : node[i].key = Nil
<1> DEFINE node == Setnodevector(n)
           N == {p \in Powers : p >= n}
           size == IF n = 0 THEN 0 ELSE Min(N)
<1>1. size \in Nat /\ n <= size /\ (n # 0 => size \in Powers)
  <2>1. N \subseteq Nat /\ \A p \in N : p \in Powers /\ n <= p /\ p \in Nat
    BY DEF TableLimits
  <2>2. n # 0 => N # {}
    BY <2>1 DEF TableLimits
  <2> HIDE DEF N
  <2>3. n # 0 => Min(N) \in N
    BY <2>1, <2>2, MinIs
  <2>4. CASE n = 0
    BY <2>4
  <2>5. CASE n # 0
    <3>1. size \in N
      BY <2>3, <2>5
    <3> QED BY <2>1, <3>1
  <2> QED BY <2>4, <2>5
<1>2. node = [i \in 1..size |-> FreeNode] /\ (n = 0 => node = <<>>)
  <2>1. CASE n = 0
    <3>1. [i \in 1..0 |-> FreeNode] = <<>>
      OBVIOUS
    <3> QED BY <2>1, <3>1 DEF Setnodevector
  <2>2. CASE n # 0
    BY <2>2 DEF Setnodevector
  <2> QED BY <2>1, <2>2
<1> HIDE DEF node, size
<1>3. FreeNode \in NodeSet
  BY DEF FreeNode, NodeSet
<1>4. /\ node \in Seq(NodeSet) /\ Len(node) = size
      /\ \A i \in 1..size : node[i] = FreeNode
  <2>1. node \in Seq(NodeSet)
    BY <1>1, <1>2, <1>3, IsASeq
  <2>2. DOMAIN node = 1..size
    BY <1>2
  <2> QED BY <1>1, <1>2, <2>1, <2>2, LenProperties
<1>5. \A i \in Places(node) : node[i].key = Nil /\ node[i].val = Nil /\ node[i].next = 0
  BY <1>4 DEF Places, FreeNode
<1>0. Len(node) \in Nat
  BY <1>1, <1>4
<1>6. Typed(node)
  BY <1>0, <1>4, <1>5 DEF Typed
<1>7. Keyed(node) /\ Single(node) /\ Homed(node)
  BY <1>5 DEF Keyed, Single, Homed
<1>8. Ends(node)
  <2> SUFFICES ASSUME NEW S \in SUBSET Places(node), NEW i \in S PROVE node[i].next \notin S
    BY DEF Ends
  <2>1. i \in Places(node) /\ 0 \notin Places(node)
    BY <1>0 DEF Places
  <2> QED BY <1>5, <2>1
<1> QED BY <1>1, <1>2, <1>4, <1>5, <1>6, <1>7, <1>8 DEF HashOK, node, size

LEMMA MovedIs ==
  ASSUME TableLimits, NEW t, TableOK(t), NEW nasize \in Nat
  PROVE  LET moved == Moved(t, nasize) IN
         /\ moved \in Seq(Keys \cup {Nil})
         /\ \A j \in Keys :
              Get(t, j) # Nil <=> \/ InArray(t, j) /\ j <= nasize /\ t.array[j] # Nil
                                  \/ \E i \in 1..Len(moved) : moved[i] = j
<1> DEFINE size == Len(t.node)
           Live(old) == IF old.val = Nil THEN Nil ELSE old.key
           slice == SubSeq(t.array, nasize + 1, Len(t.array))
           rest == [i \in 1..size |-> Live(t.node[size + 1 - i])]
           moved == Moved(t, nasize)
<1>1. /\ t.array \in Seq(Keys \cup {Nil}) /\ t.node \in Seq(NodeSet)
      /\ Len(t.array) \in Nat /\ size \in Nat /\ HashOK(t.node) /\ ArrayOK(t)
  BY LenProperties DEF TableOK, TableSet
<1>2. moved = slice \o rest
  BY DEF Moved
<1> DEFINE s == IF nasize < Len(t.array) THEN Len(t.array) - nasize ELSE 0
<1>3. /\ slice \in Seq(Keys \cup {Nil}) /\ Len(slice) = s /\ s \in Nat
      /\ \A i \in 1..s : slice[i] = t.array[nasize + i] /\ nasize + i \in 1..Len(t.array)
  <2>1. \A i \in nasize + 1 .. Len(t.array) : t.array[i] \in Keys \cup {Nil}
    BY <1>1, ElementOfSeq
  <2>2. /\ slice \in Seq(Keys \cup {Nil})
        /\ Len(slice) = IF nasize + 1 <= Len(t.array) THEN Len(t.array) - (nasize + 1) + 1 ELSE 0
        /\ \A i \in 1 .. Len(t.array) - (nasize + 1) + 1 : slice[i] = t.array[nasize + 1 + i - 1]
    <3>1. nasize + 1 \in Int /\ Len(t.array) \in Int
      BY <1>1
    <3> QED BY <2>1, <3>1, SubSeqProperties
  <2> HIDE DEF slice
  <2>3. s \in Nat /\ Len(slice) = s
    BY <1>1, <2>2
  <2>4. ASSUME NEW i \in 1..s PROVE slice[i] = t.array[nasize + i] /\ nasize + i \in 1..Len(t.array)
    <3>1. i \in 1 .. Len(t.array) - (nasize + 1) + 1 /\ nasize + 1 + i - 1 = nasize + i
      BY <1>1
    <3> QED BY <1>1, <2>2, <3>1
  <2> QED BY <2>2, <2>3, <2>4
<1>4. /\ rest \in Seq(Keys \cup {Nil}) /\ Len(rest) = size
      /\ \A i \in 1..size : rest[i] = Live(t.node[size + 1 - i]) /\ size + 1 - i \in Places(t.node)
  <2>1. ASSUME NEW i \in 1..size
        PROVE  size + 1 - i \in Places(t.node) /\ Live(t.node[size + 1 - i]) \in Keys \cup {Nil}
    <3>1. size + 1 - i \in Places(t.node)
      BY <1>1 DEF Places
    <3> QED BY <1>1, <3>1, NodeIs
  <2> HIDE DEF Live
  <2>2. rest \in Seq(Keys \cup {Nil})
    BY <1>1, <2>1, IsASeq
  <2>3. DOMAIN rest = 1..size /\ \A i \in 1..size : rest[i] = Live(t.node[size + 1 - i])
    OBVIOUS
  <2> HIDE DEF rest
  <2>4. Len(rest) = size
    BY <1>1, <2>2, <2>3, LenProperties
  <2> QED BY <2>1, <2>2, <2>3, <2>4
<1> HIDE DEF slice, rest, s, moved
<1>5. /\ moved \in Seq(Keys \cup {Nil}) /\ Len(moved) = s + size
      /\ \A i \in 1 .. s + size : moved[i] = IF i <= s THEN slice[i] ELSE rest[i - s]
  BY <1>2, <1>3, <1>4, ConcatProperties
<1>6. ASSUME NEW j \in Keys, Get(t, j) # Nil
      PROVE  \/ InArray(t, j) /\ j <= nasize /\ t.array[j] # Nil
             \/ \E i \in 1..Len(moved) : moved[i] = j
  <2>1. CASE InArray(t, j)
    <3>1. t.array[j] = Get(t, j) /\ j \in 1..Len(t.array)
      BY <2>1, GetIs
    <3>2. t.array[j] = j
      BY <1>1, <1>6, <3>1 DEF ArrayOK
    <3>3. CASE j <= nasize
      BY <1>6, <2>1, <3>1, <3>3
    <3>4. CASE ~(j <= nasize)
      <4>1. j - nasize \in 1..s /\ nasize + (j - nasize) = j
        BY <1>1, <3>1, <3>4 DEF s
      <4>2. slice[j - nasize] = j
        BY <1>3, <3>2, <4>1
      <4>3. j - nasize \in 1 .. s + size
        BY <1>1, <1>3, <4>1
      <4>4. moved[j - nasize] = j
        BY <1>5, <4>1, <4>2, <4>3
      <4> QED BY <1>5, <4>3, <4>4
    <3> QED BY <3>3, <3>4
  <2>2. CASE ~InArray(t, j)
    <3>1. PICK m \in Places(t.node) : t.node[m].key = j
      BY <1>6, <2>2, GetIs
    <3>2. t.node[m].val # Nil
      BY <1>6, <2>2, <3>1, GetIs
    <3> DEFINE i == size + 1 - m
    <3>3. i \in 1..size /\ size + 1 - i = m
      BY <1>1 DEF Places
    <3>4. rest[i] = j
      BY <1>4, <3>1, <3>2, <3>3
    <3>5. s + i \in 1 .. s + size /\ ~(s + i <= s) /\ s + i - s = i
      BY <1>1, <1>3, <3>3
    <3> HIDE DEF i
    <3>6. moved[s + i] = rest[s + i - s]
      BY <1>1, <1>3, <1>5, <3>3, <3>5
    <3>7. moved[s + i] = j
      BY <3>4, <3>5, <3>6
    <3>8. s + i \in 1..Len(moved)
      BY <1>5, <3>5
    <3> QED BY <3>7, <3>8
  <2> QED BY <2>1, <2>2
<1>7. ASSUME NEW j \in Keys, InArray(t, j), t.array[j] # Nil PROVE Get(t, j) # Nil
  BY <1>7, GetIs
<1>8. ASSUME NEW j \in Keys, NEW i \in 1..Len(moved), moved[i] = j PROVE Get(t, j) # Nil
  <2>0. j # Nil
    BY DEF TableLimits
  <2>1. CASE i <= s
    <3>1. i \in 1..s
      BY <1>3, <1>5, <2>1
    <3>2. t.array[nasize + i] = j /\ nasize + i \in 1..Len(t.array)
      BY <1>3, <1>5, <1>8, <2>1, <3>1
    <3>3. j = nasize + i /\ j \in Numbers
      BY <1>1, <2>0, <3>2 DEF ArrayOK
    <3>4. InArray(t, j)
      BY <1>1, <3>2, <3>3 DEF InArray
    <3> QED BY <1>7, <2>0, <3>2, <3>3, <3>4
  <2>2. CASE ~(i <= s)
    <3>1. i - s \in 1..size
      BY <1>1, <1>3, <1>5, <2>2
    <3>2. rest[i - s] = j
      BY <1>5, <1>8, <2>2
    <3> DEFINE m == size + 1 - (i - s)
    <3>3. m \in Places(t.node) /\ Live(t.node[m]) = j
      BY <1>4, <3>1, <3>2
    <3>4. t.node[m].key = j /\ t.node[m].val # Nil
      BY <2>0, <3>3
    <3> HIDE DEF m
    <3>5. ~InArray(t, j)
      BY <3>3, <3>4 DEF TableOK
    <3> QED BY <3>3, <3>4, <3>5, GetIs
  <2> QED BY <2>1, <2>2
<1> QED BY <1>5, <1>6, <1>7, <1>8 DEF moved

\* Every entry is put in again: into the array, or into a node, of which there are as
\* many as there are keys W for them.
LEMMA ResizeIs ==
  ASSUME TableLimits, NEW t, TableOK(t), NEW nasize \in Nat, NEW nhsize \in Nat,
         nhsize = 0 \/ \E p \in Powers : nhsize <= p,
         NEW W \in SUBSET Keys, Cardinality(W) <= nhsize,
         \A j \in Keys : Get(t, j) # Nil => j \in W \/ (j \in Numbers /\ j <= nasize)
  PROVE  LET u == Resize(t, nasize, nhsize) IN
         /\ TableOK(u) /\ Len(u.array) = nasize /\ Len(u.node) = Len(Setnodevector(nhsize))
         /\ \A j \in Keys : Get(u, j) = Get(t, j)
         /\ \A i \in Places(u.node) : u.node[i].key \in W \cup {Nil}
<1> DEFINE node == Setnodevector(nhsize)
           fresh == [array |-> [i \in 1..nasize |-> IF i <= Len(t.array) THEN t.array[i] ELSE Nil],
                     node |-> node, lastfree |-> Len(node) + 1]
           moved == Moved(t, nasize)
           k == Len(moved)
           OfArray(j) == InArray(t, j) /\ j <= nasize /\ t.array[j] # Nil
           Filled(u, n) ==
             /\ TableOK(u) /\ Len(u.array) = nasize /\ Len(u.node) = Len(node)
             /\ \A j \in Keys : Get(u, j) = IF OfArray(j) \/ \E i \in 1..n : moved[i] = j THEN j ELSE Nil
             /\ \A i \in Places(u.node) : u.node[i].key \in W \cup {Nil}
           Step(u, n) == IF moved[n] = Nil THEN u ELSE Insert(u, moved[n])
           A == [n \in 0..k |-> {u \in TableSet : Filled(u, n)}]
           G == [n \in 1..k |-> [u \in TableSet |-> Step(u, n)]]
<1>1. /\ HashOK(node) /\ nhsize <= Len(node) /\ \A i \in Places(node) : node[i].key = Nil
      /\ node \in Seq(NodeSet) /\ Len(node) \in Nat /\ (nhsize = 0 => node = <<>>)
  BY VectorFresh, LenProperties DEF HashOK, Typed
<1>2. /\ k \in Nat
      /\ \A i \in 1..k : moved[i] \in Keys \cup {Nil}
      /\ \A j \in Keys : Get(t, j) # Nil <=> (OfArray(j) \/ \E i \in 1..k : moved[i] = j)
  <2>1. /\ moved \in Seq(Keys \cup {Nil})
        /\ \A j \in Keys : Get(t, j) # Nil <=> (OfArray(j) \/ \E i \in 1..k : moved[i] = j)
    BY MovedIs
  <2> HIDE DEF moved, OfArray
  <2>2. k \in Nat /\ \A i \in 1..k : moved[i] \in Keys \cup {Nil}
    BY <2>1, LenProperties, ElementOfSeq
  <2> QED BY <2>1, <2>2
<1>3. Filled(fresh, 0) /\ fresh \in TableSet
  <2> DEFINE a == [i \in 1..nasize |-> IF i <= Len(t.array) THEN t.array[i] ELSE Nil]
  <2>1. t.array \in Seq(Keys \cup {Nil}) /\ Len(t.array) \in Nat /\ ArrayOK(t)
    BY LenProperties DEF TableOK, TableSet
  <2>2. a \in Seq(Keys \cup {Nil}) /\ Len(a) = nasize
    <3>1. \A i \in 1..nasize : (IF i <= Len(t.array) THEN t.array[i] ELSE Nil) \in Keys \cup {Nil}
      BY <2>1, ElementOfSeq
    <3>2. a \in Seq(Keys \cup {Nil})
      BY <3>1, IsASeq
    <3>3. DOMAIN a = 1..nasize
      OBVIOUS
    <3> HIDE DEF a
    <3> QED BY <3>2, <3>3, LenProperties
  <2>3. \A i \in 1..nasize : a[i] = IF i <= Len(t.array) THEN t.array[i] ELSE Nil
    OBVIOUS
  <2>4. fresh.array = a /\ fresh.node = node /\ fresh.lastfree = Len(node) + 1
    OBVIOUS
  <2>5. fresh \in TableSet
    <3> HIDE DEF a, node
    <3>1. fresh = [array |-> a, node |-> node, lastfree |-> Len(node) + 1]
      BY DEF a, node
    <3> QED BY <1>1, <2>2, <3>1 DEF TableSet
  <2> HIDE DEF a, node, fresh, moved
  <2>6. ArrayOK(fresh)
    <3> SUFFICES ASSUME NEW i \in 1..nasize, a[i] # Nil PROVE a[i] = i /\ i \in Numbers
      BY <2>2, <2>4 DEF ArrayOK
    <3>1. i \in 1..Len(t.array) /\ a[i] = t.array[i]
      BY <2>1, <2>3
    <3> QED BY <2>1, <3>1 DEF ArrayOK
  <2>7. FreeOK(fresh)
    BY <1>1, <2>4 DEF FreeOK, Places
  <2>8. TableOK(fresh)
    <3>1. ASSUME NEW i \in Places(node) PROVE ~InArray(fresh, node[i].key)
      BY <1>1 DEF InArray, TableLimits, Keys
    <3> QED BY <1>1, <2>4, <2>5, <2>6, <2>7, <3>1 DEF TableOK
  <2>9. ASSUME NEW j \in Keys
        PROVE  Get(fresh, j) = IF OfArray(j) \/ \E i \in 1..0 : moved[i] = j THEN j ELSE Nil
    <3>1. Get(fresh, j) = IF OfArray(j) THEN j ELSE Nil
      <4>1. CASE InArray(fresh, j)
        <5>1. Get(fresh, j) = a[j] /\ j \in 1..nasize /\ j \in Numbers
          BY <2>2, <2>4, <2>8, <4>1, GetIs DEF InArray
        <5>2. CASE j <= Len(t.array)
          <6>1. InArray(t, j) /\ a[j] = t.array[j] /\ j \in 1..Len(t.array)
            BY <2>1, <2>3, <5>1, <5>2 DEF InArray
          <6> QED BY <2>1, <5>1, <6>1 DEF ArrayOK
        <5>3. CASE ~(j <= Len(t.array))
          <6>1. ~InArray(t, j) /\ a[j] = Nil
            BY <2>3, <5>1, <5>3 DEF InArray
          <6> QED BY <5>1, <6>1
        <5> QED BY <5>2, <5>3
      <4>2. CASE ~InArray(fresh, j)
        <5>1. Get(fresh, j) = Nil
          <6>1. j # Nil
            BY DEF TableLimits
          <6>2. \A i \in Places(fresh.node) : fresh.node[i].key # j
            BY <1>1, <2>4, <6>1
          <6> QED BY <2>8, <4>2, <6>2, GetIs
        <5>2. ~OfArray(j)
          <6>1. j \in Numbers => ~(j <= nasize)
            BY <2>2, <2>4, <4>2 DEF InArray
          <6> QED BY <6>1 DEF InArray
        <5> QED BY <5>1, <5>2
      <4> QED BY <4>1, <4>2
    <3>2. ~\E i \in 1..0 : moved[i] = j
      OBVIOUS
    <3> HIDE DEF OfArray
    <3> QED BY <3>1, <3>2
  <2> HIDE DEF OfArray
  <2>10. \A i \in Places(fresh.node) : fresh.node[i].key \in W \cup {Nil}
    BY <1>1, <2>4
  <2> QED BY <2>2, <2>4, <2>5, <2>8, <2>9, <2>10
<1> HIDE DEF node, fresh, moved
<1>4. ASSUME NEW n \in 1..k, NEW u \in TableSet, Filled(u, n - 1) PROVE Filled(Step(u, n), n)
  <2>0. n - 1 \in 0..k /\ 1..n = (1 .. n - 1) \cup {n} /\ moved[n] \in Keys \cup {Nil}
    BY <1>2
  <2>1. CASE moved[n] = Nil
    <3>1. \A j \in Keys : j # Nil
      BY DEF TableLimits
    <3>2. \A j \in Keys : (\E i \in 1..n : moved[i] = j) <=> (\E i \in 1 .. n - 1 : moved[i] = j)
      BY <2>0, <2>1, <3>1
    <3> HIDE DEF OfArray
    <3>3. Step(u, n) = u
      BY <2>1
    <3> QED BY <1>4, <3>2, <3>3
  <2>2. CASE moved[n] # Nil
    <3> DEFINE x == moved[n]
               v == Insert(u, x)
    <3>1. x \in Keys /\ Get(t, x) # Nil
      BY <1>2, <2>0, <2>2
    <3> HIDE DEF x
    <3>2. TableOK(u) /\ Len(u.array) = nasize /\ Len(u.node) = Len(node)
      BY <1>4
    <3>3. x \in W \/ InArray(u, x)
      BY <3>1, <3>2 DEF InArray
    <3>4. \/ InArray(u, x)
          \/ \E i \in Places(u.node) : u.node[i].key = x
          \/ /\ u.node # <<>>
             /\ \/ u.node[Mainposition(u.node, x)].val = Nil
                \/ \E i \in Places(u.node) : u.node[i].key = Nil
      <4> SUFFICES ASSUME x \in W, \A i \in Places(u.node) : u.node[i].key # x
                   PROVE  u.node # <<>> /\ \E i \in Places(u.node) : u.node[i].key = Nil
        BY <3>3
      <4>1. \A i \in Places(u.node) : u.node[i].key # Nil => u.node[i].key \in W \ {x}
        BY <1>4
      <4>2. HashOK(u.node) /\ Cardinality(W) <= Len(u.node)
        <5>1. IsFiniteSet(W)
          BY FS_Subset DEF TableLimits
        <5>2. Cardinality(W) \in Nat
          BY <5>1, FS_CardinalityType
        <5> QED BY <1>1, <3>2, <5>2 DEF TableOK
      <4>3. \E i \in Places(u.node) : u.node[i].key = Nil
        BY <4>1, <4>2, RoomIs
      <4>4. u.node # <<>>
        BY <4>3 DEF Places
      <4> QED BY <4>3, <4>4
    <3>5. Gained(u, v, x) /\ (InArray(u, x) => v.node = u.node)
      BY <3>1, <3>2, <3>4, InsertIs
    <3> HIDE DEF v
    <3>6. TableOK(v) /\ Len(v.array) = nasize /\ Len(v.node) = Len(node)
      BY <3>2, <3>5 DEF Gained
    <3>7. ASSUME NEW j \in Keys
          PROVE  Get(v, j) = IF OfArray(j) \/ \E i \in 1..n : moved[i] = j THEN j ELSE Nil
      <4> HIDE DEF OfArray
      <4>1. Get(v, j) = IF j = x THEN x ELSE Get(u, j)
        BY <3>5 DEF Gained
      <4>2. Get(u, j) = IF OfArray(j) \/ \E i \in 1 .. n - 1 : moved[i] = j THEN j ELSE Nil
        BY <1>4
      <4>3. (\E i \in 1..n : moved[i] = j) <=> (j = x \/ \E i \in 1 .. n - 1 : moved[i] = j)
        BY <2>0 DEF x
      <4> QED BY <4>1, <4>2, <4>3
    <3>8. ASSUME NEW i \in Places(v.node) PROVE v.node[i].key \in W \cup {Nil}
      <4>1. CASE InArray(u, x)
        BY <1>4, <3>5, <4>1
      <4>2. CASE ~InArray(u, x)
        <5>1. v.node[i].key \in {Nil, x} \cup {u.node[j].key : j \in Places(u.node)}
          BY <3>5 DEF Gained
        <5> QED BY <1>4, <3>3, <4>2, <5>1
      <4> QED BY <4>1, <4>2
    <3>9. Step(u, n) = v
      BY <2>2 DEF v, x
    <3> HIDE DEF OfArray, Step
    <3> QED BY <3>6, <3>7, <3>8, <3>9
  <2> QED BY <2>1, <2>2
<1> HIDE DEF Filled, Step
<1>5. ASSUME NEW n \in 1..k, NEW u \in A[n - 1] PROVE G[n][u] = Step(u, n) /\ Step(u, n) \in A[n]
  <2>1. n - 1 \in 0..k /\ n \in 0..k
    BY <1>2
  <2>2. u \in TableSet /\ Filled(u, n - 1)
    BY <2>1
  <2>3. Filled(Step(u, n), n)
    BY <1>4, <2>2
  <2>4. Step(u, n) \in TableSet
    BY <2>3 DEF Filled, TableOK
  <2> QED BY <2>1, <2>2, <2>3, <2>4
<1>6. fresh \in A[0]
  BY <1>2, <1>3
<1> DEFINE Solves(g) == g = [i \in 0..k |-> IF i = 0 THEN fresh ELSE
                                           IF moved[i] = Nil THEN g[i - 1] ELSE Insert(g[i - 1], moved[i])]
           c == CHOOSE g : Solves(g)
<1>7. \E g : Solves(g)
  <2> HIDE DEF A, G, k
  <2>1. PICK f : Rounds(f, k, A, G, fresh)
    <3>1. \A n \in 1..k : \A x \in A[n - 1] : G[n][x] \in A[n]
      BY <1>5
    <3>2. k \in Nat
      BY <1>2
    <3> QED BY <1>6, <3>1, <3>2, LoopRuns
  <2>2. ASSUME NEW i \in 0..k
        PROVE  f[i] = IF i = 0 THEN fresh ELSE
                      IF moved[i] = Nil THEN f[i - 1] ELSE Insert(f[i - 1], moved[i])
    <3>1. CASE i = 0
      BY <2>1, <3>1 DEF Rounds
    <3>2. CASE i # 0
      <4>1. i \in 1..k /\ i - 1 \in 0..k
        BY <1>2, <3>2
      <4>2. f[i] = Step(f[i - 1], i)
        BY <1>5, <2>1, <4>1 DEF Rounds
      <4> QED BY <3>2, <4>2 DEF Step
    <3> QED BY <3>1, <3>2
  <2>3. Solves(f)
    BY <2>1, <2>2 DEF Rounds
  <2> QED BY <2>3
<1>8. Resize(t, nasize, nhsize) = c[k]
  BY DEF Resize, fresh, node, moved
<1>9. Solves(c)
  <2> HIDE DEF Solves
  <2> QED BY <1>7
<1> HIDE DEF c
<1>10. c[0] = fresh /\ \A n \in 1..k : c[n] = Step(c[n - 1], n)
  <2>1. c[0] = fresh
    BY <1>2, <1>9
  <2>2. ASSUME NEW n \in 1..k PROVE c[n] = Step(c[n - 1], n)
    <3>1. n \in 0..k /\ n # 0
      BY <1>2
    <3> HIDE DEF k
    <3> QED BY <1>9, <3>1 DEF Step
  <2> QED BY <2>1, <2>2
<1> HIDE DEF Solves
<1>11. c[k] \in A[k]
  <2> HIDE DEF A, G, k
  <2>1. \A n \in 1..k : c[n - 1] \in A[n - 1] => c[n] \in A[n]
    BY <1>5, <1>10
  <2> QED BY <1>2, <1>6, <1>10, <2>1, LoopStays
<1>12. Filled(c[k], k)
  BY <1>2, <1>11
<1> DEFINE u == c[k]
<1>13. ASSUME NEW j \in Keys PROVE Get(u, j) = Get(t, j)
  <2>1. Get(u, j) = IF OfArray(j) \/ \E i \in 1..k : moved[i] = j THEN j ELSE Nil
    BY <1>12 DEF Filled
  <2>2. Get(t, j) \in {j, Nil} /\ j # Nil
    BY GetIs DEF TableLimits
  <2> HIDE DEF OfArray
  <2> QED BY <1>2, <2>1, <2>2
<1> QED BY <1>8, <1>12, <1>13 DEF Filled, node

-----------------------------------------------------------------------------
(* A table is rehashed.                                                     *)

\* The vector of nodes is as long as one can be.
SizeOK(t) == Len(t.node) \in Powers \cup {0}

LEMMA ComputesizesIs ==
  ASSUME TableLimits, NEW numbers
  PROVE  Computesizes(numbers) \in Nat
<1> DEFINE UpTo(n) == Cardinality({k \in numbers : k <= n})
           N == {0} \cup {n \in Powers : 2 * UpTo(n) > n /\ \E k \in numbers : k <= n /\ 2 * k > n}
<1>1. PICK m \in Powers : \A p \in Powers : p <= m
  BY DEF TableLimits
<1>2. N \subseteq Nat /\ m \in Nat /\ \A n \in N : n <= m
  BY <1>1 DEF TableLimits
<1>3. Computesizes(numbers) = Max(N)
  BY DEF Computesizes
<1>4. N # {}
  OBVIOUS
<1> HIDE DEF N
<1> QED BY <1>2, <1>3, <1>4, MaxIs

LEMMA RehashIs ==
  ASSUME TableLimits, NEW t, TableOK(t), NEW k \in Keys
  PROVE  LET u == Rehash(t, k) IN
         /\ TableOK(u) /\ SizeOK(u) /\ \A j \in Keys : Get(u, j) = Get(t, j)
         /\ \/ InArray(u, k)
            \/ \E i \in Places(u.node) : u.node[i].key = k
            \/ u.node # <<>> /\ \E i \in Places(u.node) : u.node[i].key = Nil
<1> DEFINE used == Used(t) \cup {k}
           nasize == Computesizes(used \cap Numbers)
           inArray == {n \in used \cap Numbers : n <= nasize}
           W == used \ inArray
           nhsize == Cardinality(W)
           u == Rehash(t, k)
<1>1. u = Resize(t, nasize, nhsize)
  BY DEF Rehash
<1>2. nasize \in Nat
  BY ComputesizesIs
<1>3. used = {j \in Keys : Get(t, j) # Nil} \cup {k}
  BY DEF Used
<1> HIDE DEF used, nasize, u
<1>4. W \in SUBSET Keys /\ inArray = {n \in used \cap Numbers : n <= nasize}
  BY <1>3
<1>5. \A j \in Keys : Get(t, j) # Nil => j \in W \/ (j \in Numbers /\ j <= nasize)
  BY <1>3
<1>6. k \in W \/ (k \in Numbers /\ k <= nasize)
  BY <1>3
<1> HIDE DEF W
<1>7. nhsize \in Nat /\ IsFiniteSet(W) /\ Cardinality(W) <= Cardinality(Keys) /\ Cardinality(Keys) \in Nat
  BY <1>4, FS_Subset, FS_CardinalityType DEF TableLimits
<1>8. nhsize = 0 \/ \E p \in Powers : nhsize <= p
  <2>1. PICK m \in Powers : Cardinality(Keys) <= m
    BY DEF TableLimits
  <2>2. m \in Nat
    BY DEF TableLimits
  <2> QED BY <1>7, <2>1, <2>2
<1>9. /\ TableOK(u) /\ Len(u.array) = nasize /\ Len(u.node) = Len(Setnodevector(nhsize))
      /\ \A j \in Keys : Get(u, j) = Get(t, j)
      /\ \A i \in Places(u.node) : u.node[i].key \in W \cup {Nil}
  <2>1. Cardinality(W) <= nhsize
    BY <1>7
  <2> HIDE DEF nhsize
  <2> QED BY <1>1, <1>2, <1>4, <1>5, <1>7, <1>8, <2>1, ResizeIs
<1>10. nhsize <= Len(u.node) /\ SizeOK(u)
  <2>1. /\ nhsize <= Len(Setnodevector(nhsize))
        /\ nhsize = 0 => Setnodevector(nhsize) = <<>>
        /\ nhsize # 0 => Len(Setnodevector(nhsize)) \in Powers
    <3> HIDE DEF nhsize
    <3> QED BY <1>7, <1>8, VectorFresh
  <2> HIDE DEF nhsize
  <2> QED BY <1>9, <2>1 DEF SizeOK
<1>11. \/ InArray(u, k)
       \/ \E i \in Places(u.node) : u.node[i].key = k
       \/ u.node # <<>> /\ \E i \in Places(u.node) : u.node[i].key = Nil
  <2>1. CASE k \in W /\ \A i \in Places(u.node) : u.node[i].key # k
    <3>1. \A i \in Places(u.node) : u.node[i].key # Nil => u.node[i].key \in W \ {k}
      BY <1>9, <2>1
    <3>2. \E i \in Places(u.node) : u.node[i].key = Nil
      BY <1>4, <1>9, <1>10, <2>1, <3>1, RoomIs DEF TableOK
    <3>3. u.node # <<>>
      BY <3>2 DEF Places
    <3> QED BY <3>2, <3>3
  <2>2. CASE k \in Numbers /\ k <= nasize
    BY <1>9, <2>2 DEF InArray
  <2> QED BY <1>6, <2>1, <2>2
<1> QED BY <1>9, <1>10, <1>11 DEF u

\* luaH_set: the table has the entry; if it was there, nothing has moved.
LEMMA SetKeyIs ==
  ASSUME TableLimits, NEW t, TableOK(t), SizeOK(t), NEW k \in Keys
  PROVE  LET u == SetKey(t, k) IN
         /\ TableOK(u) /\ SizeOK(u)
         /\ \A j \in Keys : Get(u, j) = IF j = k THEN k ELSE Get(t, j)
         /\ Get(t, k) # Nil => SameKeys(t, u)
<1> DEFINE There(x) == InArray(x, k) \/ \E i \in Places(x.node) : x.node[i].key = k
           Room(x) == /\ x.node # <<>>
                      /\ \/ x.node[Mainposition(x.node, k)].val = Nil
                         \/ \E i \in Places(x.node) : x.node[i].key = Nil
           u == SetKey(t, k)
<1>1. ASSUME NEW x, TableOK(x), SizeOK(x), There(x) \/ Room(x)
      PROVE  /\ TableOK(Insert(x, k)) /\ SizeOK(Insert(x, k))
             /\ \A j \in Keys : Get(Insert(x, k), j) = IF j = k THEN k ELSE Get(x, j)
             /\ There(x) => SameKeys(x, Insert(x, k))
  BY <1>1, InsertIs DEF Gained, Stored, SizeOK
<1>2. There(t) <=> InArray(t, k) \/ Find(t.node, k) # 0
  <2>1. HashOK(t.node) /\ 0 \notin Places(t.node)
    BY DEF TableOK, Places
  <2> QED BY <2>1, FindIs
<1>3. Get(t, k) # Nil => There(t)
  BY GetIs
<1>4. ~Full(t, k) => Room(t)
  <2> SUFFICES ASSUME ~Full(t, k), t.node[Mainposition(t.node, k)].val # Nil
               PROVE  \E i \in Places(t.node) : t.node[i].key = Nil
    BY DEF Full
  <2> DEFINE N == {0} \cup {i \in 1 .. t.lastfree - 1 : t.node[i].key = Nil}
  <2>1. Len(t.node) \in Nat /\ t.lastfree \in 1 .. Len(t.node) + 1
    BY LenProperties DEF TableOK, TableSet, FreeOK
  <2>2. N \subseteq Nat /\ N # {} /\ \A n \in N : n <= Len(t.node)
    BY <2>1
  <2>3. Getfreepos(t) = Max(N) /\ Getfreepos(t) # 0
    BY DEF Full, Getfreepos
  <2>4. Max(N) \in N
    <3> HIDE DEF N
    <3> QED BY <2>1, <2>2, MaxIs
  <2>5. Max(N) \in Places(t.node) /\ t.node[Max(N)].key = Nil
    BY <2>1, <2>3, <2>4 DEF Places
  <2> QED BY <2>5
<1>5. CASE There(t) \/ ~Full(t, k)
  <2>1. u = Insert(t, k)
    BY <1>2, <1>5 DEF SetKey
  <2> HIDE DEF u, There, Room
  <2> QED BY <1>1, <1>3, <1>4, <1>5, <2>1 DEF u
<1>6. CASE ~(There(t) \/ ~Full(t, k))
  <2> DEFINE r == Rehash(t, k)
  <2>1. u = Insert(r, k)
    BY <1>2, <1>6 DEF SetKey
  <2>2. /\ TableOK(r) /\ SizeOK(r) /\ \A j \in Keys : Get(r, j) = Get(t, j)
        /\ There(r) \/ Room(r)
    BY RehashIs
  <2> HIDE DEF u, r, There, Room
  <2> QED BY <1>1, <1>3, <1>6, <2>1, <2>2 DEF u
<1> QED BY <1>5, <1>6

\* The entry is gone, and again nothing has moved if it was there.
LEMMA ClearKeyIs ==
  ASSUME TableLimits, NEW t, TableOK(t), SizeOK(t), NEW k \in Keys
  PROVE  LET u == ClearKey(t, k) IN
         /\ TableOK(u) /\ SizeOK(u)
         /\ \A j \in Keys : Get(u, j) = IF j = k THEN Nil ELSE Get(t, j)
         /\ Get(t, k) # Nil => SameKeys(t, u)
<1> DEFINE x == SetKey(t, k)
           u == ClearKey(t, k)
<1>1. /\ TableOK(x) /\ SizeOK(x)
      /\ \A j \in Keys : Get(x, j) = IF j = k THEN k ELSE Get(t, j)
      /\ Get(t, k) # Nil => SameKeys(t, x)
  BY SetKeyIs
<1>2. u = IF InArray(x, k) THEN [x EXCEPT !.array[k] = Nil]
          ELSE [x EXCEPT !.node[Find(x.node, k)].val = Nil]
  BY DEF ClearKey
<1> HIDE DEF x, u
<1>3. Stored(x, u, k, Nil)
  <2>1. CASE InArray(x, k)
    BY <1>1, <1>2, <2>1, ArrayStores
  <2>2. CASE ~InArray(x, k)
    <3>1. Get(x, k) # Nil
      BY <1>1 DEF TableLimits
    <3>2. \E i \in Places(x.node) : x.node[i].key = k
      BY <1>1, <2>2, <3>1, GetIs
    <3> QED BY <1>1, <1>2, <2>2, <3>2, NodeStores
  <2> QED BY <2>1, <2>2
<1>4. Get(t, k) # Nil => SameKeys(t, u)
  BY <1>1, <1>3 DEF Stored, SameKeys, Places
<1> QED BY <1>1, <1>3, <1>4 DEF Stored, SizeOK, SameKeys, u

\* Room is made in the array: every entry stays.
LEMMA ResizearrayIs ==
  ASSUME TableLimits, NEW t, TableOK(t), SizeOK(t), NEW n \in Nat, n > Len(t.array)
  PROVE  LET u == Resize(t, n, Len(t.node)) IN
         /\ TableOK(u) /\ SizeOK(u) /\ \A j \in Keys : Get(u, j) = Get(t, j)
<1> DEFINE W == {j \in Keys : Get(t, j) # Nil /\ ~InArray(t, j)}
           size == Len(t.node)
<1>1. HashOK(t.node) /\ size \in Nat /\ Len(t.array) \in Nat
  BY LenProperties DEF TableOK, TableSet, HashOK, Typed
<1>2. W \in SUBSET Keys /\ IsFiniteSet(W)
  BY FS_Subset DEF TableLimits
<1>3. Cardinality(W) <= size
  <2> DEFINE f == [j \in W |-> Find(t.node, j)]
  <2>1. \A j \in W : Find(t.node, j) \in Places(t.node) /\ t.node[Find(t.node, j)].key = j
    BY <1>1, GetIs, FindIs
  <2>2. f \in Injection(W, Places(t.node))
    <3>1. f \in [W -> Places(t.node)] /\ \A a, b \in W : f[a] = f[b] => a = b
      BY <2>1
    <3> HIDE DEF f, W
    <3> QED BY <3>1 DEF Injection, IsInjective
  <2>3. /\ IsFiniteSet(1..size)
        /\ Cardinality(1..size) = IF 1 > size THEN 0 ELSE size - 1 + 1
    <3>1. size \in Int /\ 1 \in Int
      BY <1>1
    <3> HIDE DEF size
    <3> QED BY <3>1, FS_Interval
  <2>4. Cardinality(1..size) = size /\ Places(t.node) = 1..size
    BY <1>1, <2>3 DEF Places
  <2> HIDE DEF f, W
  <2>5. Cardinality(W) <= Cardinality(Places(t.node))
    BY <1>2, <2>2, <2>3, <2>4, FS_Injection
  <2> QED BY <2>4, <2>5
<1>4. \A j \in Keys : Get(t, j) # Nil => j \in W \/ (j \in Numbers /\ j <= n)
  <2> SUFFICES ASSUME NEW j \in Keys, InArray(t, j) PROVE j \in Numbers /\ j <= n
    OBVIOUS
  <2>1. j \in 1..Len(t.array)
    BY GetIs
  <2> QED BY <1>1, <2>1 DEF InArray
<1>5. size = 0 \/ \E p \in Powers : size <= p
  BY <1>1 DEF SizeOK
<1> HIDE DEF W
<1> DEFINE u == Resize(t, n, size)
<1>6. /\ TableOK(u) /\ Len(u.node) = Len(Setnodevector(size))
      /\ \A j \in Keys : Get(u, j) = Get(t, j)
  <2> HIDE DEF size
  <2> QED BY <1>1, <1>2, <1>3, <1>4, <1>5, ResizeIs
<1>7. SizeOK(u)
  <2>1. /\ size = 0 => Setnodevector(size) = <<>>
        /\ size # 0 => Len(Setnodevector(size)) \in Powers
    BY <1>1, <1>5, VectorFresh
  <2> HIDE DEF size, u
  <2> QED BY <1>6, <2>1 DEF SizeOK
<1> QED BY <1>6, <1>7

-----------------------------------------------------------------------------
(* Length.                                                                  *)

\* A number at which a border can be.
Begins(t, n) == n = 0 \/ (n \in Numbers /\ Get(t, n) # Nil)
BorderOf(t, n) == n \in Nat /\ Begins(t, n) /\ Absent(t, n + 1)

LEMMA BetweenIs ==
  ASSUME TableLimits, NEW t, NEW i \in Nat, NEW j \in Nat, i < j, Begins(t, i), Absent(t, j)
  PROVE  BorderOf(t, Between(t, i, j))
<1> DEFINE Near(p, r) == /\ p[1] < p[2] /\ Begins(t, p[1]) /\ Absent(t, p[2])
                         /\ p[2] - p[1] = 1 \/ p[2] - p[1] + r <= j
           A == [r \in 0..j |-> {p \in Nat \X Nat : Near(p, r)}]
           Step(p) == Halved(t, p[1], p[2])
           G == [r \in 1..j |-> [p \in Nat \X Nat |-> Step(p)]]
           b == <<i, j>>
           Solves(g) == g = [r \in 0..j |-> IF r = 0 THEN b ELSE Halved(t, g[r - 1][1], g[r - 1][2])]
           c == CHOOSE g : Solves(g)
<1>1. ASSUME NEW r \in 1..j, NEW p \in Nat \X Nat, Near(p, r - 1)
      PROVE  Step(p) \in Nat \X Nat /\ Near(Step(p), r)
  <2> DEFINE lo == p[1]
             hi == p[2]
             m == (lo + hi) \div 2
  <2>1. lo \in Nat /\ hi \in Nat /\ lo < hi /\ Begins(t, lo) /\ Absent(t, hi)
    BY <1>1
  <2>2. Step(p) = IF hi - lo <= 1 THEN <<lo, hi>> ELSE IF Absent(t, m) THEN <<lo, m>> ELSE <<m, hi>>
    BY DEF Halved
  <2>3. hi - lo = 1 \/ hi - lo + (r - 1) <= j
    BY <1>1
  <2>4. hi - lo > 1 => m \in Nat /\ lo < m /\ m < hi
    BY <2>1
  <2> HIDE DEF lo, hi, m, Step
  <2>5. CASE hi - lo <= 1
    <3>1. Step(p) = <<lo, hi>> /\ hi - lo = 1
      BY <2>1, <2>2, <2>5
    <3> QED BY <2>1, <3>1
  <2>6. CASE hi - lo > 1 /\ Absent(t, m)
    <3>1. Step(p) = <<lo, m>>
      BY <2>1, <2>2, <2>6
    <3>2. m - lo + r <= j
      BY <2>1, <2>3, <2>4, <2>6
    <3> QED BY <2>1, <2>4, <2>6, <3>1, <3>2
  <2>7. CASE hi - lo > 1 /\ ~Absent(t, m)
    <3>1. Step(p) = <<m, hi>>
      BY <2>1, <2>2, <2>7
    <3>2. hi - m + r <= j
      BY <2>1, <2>3, <2>4, <2>7
    <3>3. Begins(t, m)
      BY <2>7 DEF Begins, Absent
    <3> QED BY <2>1, <2>4, <2>7, <3>1, <3>2, <3>3
  <2> QED BY <2>1, <2>5, <2>6, <2>7
<1> HIDE DEF Near, Step
<1>2. ASSUME NEW r \in 1..j, NEW p \in A[r - 1] PROVE G[r][p] = Step(p) /\ Step(p) \in A[r]
  <2>1. r - 1 \in 0..j /\ r \in 0..j
    OBVIOUS
  <2>2. p \in Nat \X Nat /\ Near(p, r - 1)
    BY <2>1
  <2> QED BY <1>1, <2>1, <2>2
<1>3. b \in A[0]
  BY DEF Near
<1>4. \E g : Solves(g)
  <2> HIDE DEF A, G, b
  <2>1. PICK f : Rounds(f, j, A, G, b)
    <3>1. \A n \in 1..j : \A x \in A[n - 1] : G[n][x] \in A[n]
      BY <1>2
    <3> QED BY <1>3, <3>1, LoopRuns
  <2>2. ASSUME NEW r \in 0..j
        PROVE  f[r] = IF r = 0 THEN b ELSE Halved(t, f[r - 1][1], f[r - 1][2])
    <3>1. CASE r = 0
      BY <2>1, <3>1 DEF Rounds
    <3>2. CASE r # 0
      <4>1. r \in 1..j /\ r - 1 \in 0..j
        BY <3>2
      <4>2. f[r] = Step(f[r - 1])
        BY <1>2, <2>1, <4>1 DEF Rounds
      <4> QED BY <3>2, <4>2 DEF Step
    <3> QED BY <3>1, <3>2
  <2>3. Solves(f)
    BY <2>1, <2>2 DEF Rounds
  <2> QED BY <2>3
<1>5. Between(t, i, j) = c[j][1]
  BY DEF Between
<1>6. Solves(c)
  <2> HIDE DEF Solves
  <2> QED BY <1>4
<1> HIDE DEF c
<1>7. c[0] = b /\ \A r \in 1..j : c[r] = Step(c[r - 1])
  <2> HIDE DEF b
  <2>1. c[0] = b
    BY <1>6
  <2>2. ASSUME NEW r \in 1..j PROVE c[r] = Step(c[r - 1])
    <3>1. r \in 0..j /\ r # 0
      OBVIOUS
    <3> QED BY <1>6, <3>1 DEF Step
  <2> QED BY <2>1, <2>2
<1> HIDE DEF Solves
<1>8. c[j] \in A[j]
  <2> HIDE DEF A, G, b
  <2>1. \A r \in 1..j : c[r - 1] \in A[r - 1] => c[r] \in A[r]
    BY <1>2, <1>7
  <2> QED BY <1>3, <1>7, <2>1, LoopStays
<1>9. c[j] \in Nat \X Nat /\ Near(c[j], j)
  BY <1>8
<1> DEFINE p == c[j]
<1>10. /\ p[1] \in Nat /\ p[2] \in Nat /\ Begins(t, p[1]) /\ Absent(t, p[2])
       /\ p[1] < p[2] /\ (p[2] - p[1] = 1 \/ p[2] - p[1] + j <= j)
  BY <1>9 DEF Near
<1> HIDE DEF p
<1>11. p[2] = p[1] + 1
  BY <1>10
<1> QED BY <1>5, <1>10, <1>11 DEF BorderOf, p

LEMMA GetnIs ==
  ASSUME TableLimits, NEW t, TableOK(t)
  PROVE  BorderOf(t, Getn(t))
<1> DEFINE j == Len(t.array)
<1>1. j \in Nat /\ ArrayOK(t)
  BY LenProperties DEF TableOK, TableSet
<1>2. ASSUME NEW i \in 1..j PROVE i \in Numbers => InArray(t, i) /\ i \in Keys /\ Get(t, i) = t.array[i]
  BY <1>1, GetIs DEF InArray, Keys
<1>3. CASE j > 0 /\ t.array[j] = Nil
  <2>1. Getn(t) = Between(t, 0, j)
    BY <1>3 DEF Getn
  <2>2. Absent(t, j)
    BY <1>1, <1>2, <1>3 DEF Absent
  <2>3. Begins(t, 0)
    BY DEF Begins
  <2> HIDE DEF j
  <2> QED BY <1>1, <1>3, <2>1, <2>2, <2>3, BetweenIs
<1>4. CASE ~(j > 0 /\ t.array[j] = Nil)
  <2>1. Begins(t, j)
    <3>1. CASE j = 0
      BY <3>1 DEF Begins
    <3>2. CASE j # 0
      <4>1. j \in 1..j /\ t.array[j] # Nil
        BY <1>1, <1>4, <3>2
      <4>2. j \in Numbers
        BY <1>1, <4>1 DEF ArrayOK
      <4> QED BY <1>2, <4>1, <4>2 DEF Begins
    <3> QED BY <3>1, <3>2
  <2>2. CASE t.node = <<>>
    <3>1. Getn(t) = j
      BY <1>4, <2>2 DEF Getn
    <3>2. Absent(t, j + 1)
      <4> SUFFICES ASSUME j + 1 \in Numbers PROVE Get(t, j + 1) = Nil
        BY DEF Absent
      <4>1. ~InArray(t, j + 1)
        BY <1>1 DEF InArray
      <4>2. Find(t.node, j + 1) = 0
        BY <2>2 DEF Find
      <4> QED BY <4>1, <4>2 DEF Get
    <3> QED BY <1>1, <2>1, <3>1, <3>2 DEF BorderOf
  <2>3. CASE t.node # <<>>
    <3> DEFINE N == {n \in {(j + 1) * p : p \in Powers} : Absent(t, n)}
               absent == Min(N)
               i == IF absent = j + 1 THEN j ELSE absent \div 2
    <3>1. Getn(t) = Between(t, i, absent)
      BY <1>4, <2>3 DEF Getn, UnboundSearch
    <3>2. \A p \in Powers : p \in Nat \ {0} /\ (p = 1 \/ \E q \in Powers : p = q + q)
      BY DEF TableLimits
    <3>3. \A a, q \in Nat : a * q \in Nat /\ a * (q + q) = a * q + a * q
      OBVIOUS
    <3>4. absent \in N
      <4>1. N \subseteq Nat
        BY <1>1, <3>2, <3>3
      <4>2. PICK m \in Powers : \A n \in Numbers : n < m
        BY DEF TableLimits
      <4>3. (j + 1) * m \notin Numbers
        <5>1. \A a \in Nat, q \in Nat : (a + 1) * q >= q
          OBVIOUS
        <5>2. m \in Nat /\ (j + 1) * m >= m
          BY <1>1, <3>2, <5>1
        <5>3. (j + 1) * m \in Nat
          BY <1>1, <3>3, <5>2
        <5> HIDE DEF j
        <5> QED BY <4>2, <5>2, <5>3 DEF TableLimits
      <4>4. (j + 1) * m \in N
        BY <4>3 DEF Absent
      <4> HIDE DEF N
      <4> QED BY <4>1, <4>4, MinIs
    <3>5. \A n \in N : absent <= n
      <4>1. N \subseteq Nat /\ N # {}
        BY <1>1, <3>2, <3>3, <3>4
      <4> HIDE DEF N
      <4> QED BY <4>1, MinIs
    <3>6. PICK p \in Powers : absent = (j + 1) * p
      BY <3>4
    <3>7. Absent(t, absent)
      BY <3>4
    <3> HIDE DEF N, absent, j
    <3>8. absent \in Nat /\ i \in Nat /\ i < absent /\ Begins(t, i)
      <4>1. CASE p = 1
        <5>1. absent = j + 1
          BY <1>1, <3>6, <4>1
        <5> QED BY <1>1, <2>1, <5>1
      <4>2. CASE p # 1
        <5>1. PICK q \in Powers : p = q + q
          BY <3>2, <4>2
        <5> DEFINE h == (j + 1) * q
        <5>2. /\ h \in Nat /\ absent = h + h /\ h >= j + 1
          <6>1. q \in Nat \ {0} /\ j + 1 \in Nat
            BY <1>1, <3>2
          <6>2. \A a \in Nat, d \in Nat \ {0} : a * d >= a
            OBVIOUS
          <6> QED BY <3>3, <3>6, <5>1, <6>1, <6>2
        <5>3. h < absent /\ absent # j + 1
          <6> HIDE DEF h
          <6> QED BY <1>1, <5>2
        <5>4. i = h
          <6> HIDE DEF h
          <6> QED BY <5>2, <5>3
        <5>5. h \notin N
          <6> HIDE DEF h
          <6> QED BY <3>5, <5>2, <5>3
        <5>6. ~Absent(t, h)
          BY <5>5 DEF N
        <5> HIDE DEF h, i
        <5> QED BY <5>2, <5>3, <5>4, <5>6 DEF Absent, Begins
      <4> QED BY <4>1, <4>2
    <3> HIDE DEF i
    <3> QED BY <3>1, <3>7, <3>8, BetweenIs
  <2> QED BY <2>2, <2>3
<1> QED BY <1>3, <1>4

-----------------------------------------------------------------------------
(* Traversal.                                                               *)

LastOf(t) == Len(t.array) + Len(t.node)

\* A position is one in the array or one of a node.
LEMMA PositionsAre ==
  ASSUME NEW a \in Nat, NEW b \in Nat
  PROVE  /\ a + b \in Nat
         /\ \A i \in 1..a : i \in 1 .. a + b
         /\ \A n \in 1..b : a + n \in 1 .. a + b
         /\ \A i \in 1 .. a + b : i \in 1..a \/ \E n \in 1..b : i = a + n
<1>1. ASSUME NEW i \in 1 .. a + b, i \notin 1..a PROVE \E n \in 1..b : i = a + n
  <2>1. i - a \in 1..b /\ i = a + (i - a)
    BY <1>1
  <2> QED BY <2>1
<1> QED BY <1>1

LEMMA KeyAtIs ==
  ASSUME TableLimits, NEW t, TableOK(t)
  PROVE  /\ Len(t.array) \in Nat /\ Len(t.node) \in Nat
         /\ LastOf(t) \in Nat
         /\ \A i \in 1..Len(t.array) : i \in 1..LastOf(t)
         /\ \A n \in Places(t.node) : n \in Nat /\ Len(t.array) + n \in 1..LastOf(t)
         /\ \A i \in 1..LastOf(t) : \/ i \in 1..Len(t.array)
                                   \/ \E n \in Places(t.node) : i = Len(t.array) + n
         /\ \A i \in 1..Len(t.array) : KeyAt(t, i) = IF i \in Numbers THEN Get(t, i) ELSE Nil
         /\ \A n \in Places(t.node) :
              KeyAt(t, Len(t.array) + n) =
                IF t.node[n].key \in Keys /\ Get(t, t.node[n].key) # Nil THEN t.node[n].key ELSE Nil
<1>1. Len(t.array) \in Nat /\ Len(t.node) \in Nat /\ ArrayOK(t) /\ t.node \in Seq(NodeSet)
  BY LenProperties DEF TableOK, TableSet
<1>2. ASSUME NEW i \in 1..Len(t.array)
      PROVE  KeyAt(t, i) = IF i \in Numbers THEN Get(t, i) ELSE Nil
  <2>1. KeyAt(t, i) = t.array[i]
    BY <1>1 DEF KeyAt
  <2>2. CASE i \in Numbers
    <3>1. InArray(t, i) /\ i \in Keys
      BY <1>1, <2>2 DEF InArray, Keys
    <3> QED BY <2>1, <2>2, <3>1, GetIs
  <2>3. CASE i \notin Numbers
    BY <1>1, <2>1, <2>3 DEF ArrayOK
  <2> QED BY <2>2, <2>3
<1>3. ASSUME NEW n \in Places(t.node)
      PROVE  KeyAt(t, Len(t.array) + n) =
               IF t.node[n].key \in Keys /\ Get(t, t.node[n].key) # Nil THEN t.node[n].key ELSE Nil
  <2> DEFINE a == Len(t.array)
             k == t.node[n].key
  <2>1. n \in Nat \ {0} /\ n \in 1..Len(t.node)
    BY <1>1 DEF Places
  <2>2. (a + n) - a = n /\ ~(a + n <= a)
    <3>1. a \in Nat
      BY <1>1
    <3> HIDE DEF a
    <3> QED BY <2>1, <3>1
  <2>3. KeyAt(t, a + n) = IF t.node[n].val = Nil THEN Nil ELSE k
    <3> DEFINE i == a + n
    <3>1. i - a = n /\ ~(i <= a)
      BY <2>2
    <3> HIDE DEF i
    <3>2. KeyAt(t, i) = IF i <= a THEN t.array[i]
                        ELSE LET m == t.node[i - a] IN IF m.val = Nil THEN Nil ELSE m.key
      BY DEF KeyAt
    <3> HIDE DEF a
    <3>3. KeyAt(t, i) = IF t.node[n].val = Nil THEN Nil ELSE k
      BY <3>1, <3>2
    <3> QED BY <3>3 DEF i
  <2>4. k \in Keys \cup {Nil}
    BY <1>1, NodeIs
  <2>5. CASE k = Nil
    BY <2>3, <2>5 DEF TableLimits
  <2>6. CASE k \in Keys
    <3>1. Get(t, k) = t.node[n].val
      BY <2>6, GetIs DEF TableOK
    <3> QED BY <2>3, <2>6, <3>1
  <2> QED BY <2>4, <2>5, <2>6
<1>4. /\ LastOf(t) \in Nat
      /\ \A i \in 1..Len(t.array) : i \in 1..LastOf(t)
      /\ \A n \in Places(t.node) : n \in Nat /\ Len(t.array) + n \in 1..LastOf(t)
      /\ \A i \in 1..LastOf(t) : \/ i \in 1..Len(t.array)
                                \/ \E n \in Places(t.node) : i = Len(t.array) + n
  <2> DEFINE a == Len(t.array)
             b == Len(t.node)
  <2>1. Places(t.node) = 1..b /\ LastOf(t) = a + b /\ a \in Nat /\ b \in Nat
    BY <1>1 DEF Places, LastOf
  <2> HIDE DEF a, b
  <2>2. \A n \in 1..b : n \in Nat
    BY <2>1
  <2>3. /\ a + b \in Nat
        /\ \A i \in 1..a : i \in 1 .. a + b
        /\ \A n \in 1..b : a + n \in 1 .. a + b
        /\ \A i \in 1 .. a + b : i \in 1..a \/ \E n \in 1..b : i = a + n
    BY <2>1, PositionsAre
  <2>4. /\ LastOf(t) \in Nat
        /\ \A i \in 1..a : i \in 1..LastOf(t)
        /\ \A n \in Places(t.node) : n \in Nat /\ a + n \in 1..LastOf(t)
        /\ \A i \in 1..LastOf(t) : i \in 1..a \/ \E n \in Places(t.node) : i = a + n
    BY <2>1, <2>2, <2>3
  <2> QED BY <2>4 DEF a
<1> QED BY <1>1, <1>2, <1>3, <1>4

LEMMA FindindexIs ==
  ASSUME TableLimits, NEW t, TableOK(t)
  PROVE  /\ Findindex(t, Nil) = 0
         /\ \A k \in Keys : InArray(t, k) => Findindex(t, k) = k /\ k \in 1..Len(t.array)
         /\ \A n \in Places(t.node) :
              t.node[n].key \in Keys => Findindex(t, t.node[n].key) = Len(t.array) + n
         /\ \A k \in Keys : ~InArray(t, k) /\ (\A n \in Places(t.node) : t.node[n].key # k) =>
              Findindex(t, k) = Len(t.array)
<1>1. HashOK(t.node) /\ \A k \in Keys : k # Nil
  BY DEF TableOK, TableLimits
<1>2. Findindex(t, Nil) = 0
  BY DEF Findindex
<1>3. ASSUME NEW k \in Keys, InArray(t, k) PROVE Findindex(t, k) = k /\ k \in 1..Len(t.array)
  BY <1>1, <1>3, GetIs DEF Findindex
<1>4. ASSUME NEW n \in Places(t.node), t.node[n].key \in Keys
      PROVE  Findindex(t, t.node[n].key) = Len(t.array) + n
  <2> DEFINE k == t.node[n].key
  <2>1. ~InArray(t, k)
    BY DEF TableOK
  <2>2. Find(t.node, k) = n
    BY <1>1, <1>4, FindIs DEF HashOK, Keyed
  <2> QED BY <1>1, <1>4, <2>1, <2>2 DEF Findindex
<1>5. ASSUME NEW k \in Keys, ~InArray(t, k), \A n \in Places(t.node) : t.node[n].key # k
      PROVE  Findindex(t, k) = Len(t.array)
  <2>1. Find(t.node, k) = 0
    BY <1>1, <1>5, FindIs
  <2>2. Len(t.array) \in Nat
    BY KeyAtIs
  <2>3. Findindex(t, k) = Len(t.array) + Find(t.node, k)
    BY <1>1, <1>5 DEF Findindex
  <2> QED BY <2>1, <2>2, <2>3
<1> QED BY <1>2, <1>3, <1>4, <1>5

LEMMA IndexNat ==
  ASSUME TableLimits, NEW t, TableOK(t), NEW c \in Keys \cup {Nil}
  PROVE  Findindex(t, c) \in Nat
<1> DEFINE at == Findindex(t, c)
           a == Len(t.array)
<1>1. a \in Nat
  BY KeyAtIs
<1>2. CASE c = Nil
  BY <1>2, FindindexIs
<1>3. CASE c \in Keys /\ InArray(t, c)
  <2>1. at = c /\ c \in 1..a
    BY <1>3, FindindexIs
  <2> QED BY <2>1
<1>4. CASE c \in Keys /\ ~InArray(t, c) /\ \A n \in Places(t.node) : t.node[n].key # c
  BY <1>1, <1>4, FindindexIs
<1>5. CASE \E n \in Places(t.node) : t.node[n].key = c /\ c \in Keys
  <2>1. PICK n \in Places(t.node) : t.node[n].key = c /\ c \in Keys
    BY <1>5
  <2>2. at = a + n /\ n \in Nat
    BY <2>1, FindindexIs, KeyAtIs
  <2> QED BY <1>1, <2>2
<1> QED BY <1>2, <1>3, <1>4, <1>5

\* The entries and their positions.
LEMMA PositionIs ==
  ASSUME TableLimits, NEW t, TableOK(t)
  PROVE  /\ \A i \in 1..LastOf(t) : KeyAt(t, i) # Nil =>
              KeyAt(t, i) \in Keys /\ Get(t, KeyAt(t, i)) # Nil /\ Findindex(t, KeyAt(t, i)) = i
         /\ \A k \in Keys : Get(t, k) # Nil => \E i \in 1..LastOf(t) : KeyAt(t, i) = k
<1> DEFINE a == Len(t.array)
<1>1. a \in Nat /\ Len(t.node) \in Nat
  BY KeyAtIs
<1>2. ASSUME NEW i \in 1..LastOf(t), KeyAt(t, i) # Nil
      PROVE  KeyAt(t, i) \in Keys /\ Get(t, KeyAt(t, i)) # Nil /\ Findindex(t, KeyAt(t, i)) = i
  <2>1. CASE i \in 1..a
    <3>1. i \in 1..a /\ i <= a
      BY <1>1, <2>1
    <3>2. i \in Numbers /\ KeyAt(t, i) = Get(t, i)
      BY <1>2, <3>1, KeyAtIs
    <3>3. i \in Keys /\ InArray(t, i)
      BY <3>1, <3>2 DEF Keys, InArray
    <3>4. KeyAt(t, i) = i
      BY <1>2, <3>2, <3>3, GetIs
    <3> QED BY <1>2, <3>2, <3>3, <3>4, FindindexIs
  <2>2. CASE \E n \in Places(t.node) : i = a + n
    <3>1. PICK n \in Places(t.node) : i = a + n
      BY <2>2
    <3> HIDE DEF a
    <3>2. KeyAt(t, a + n) =
            IF t.node[n].key \in Keys /\ Get(t, t.node[n].key) # Nil THEN t.node[n].key ELSE Nil
      BY <3>1, KeyAtIs DEF a
    <3>3. t.node[n].key \in Keys /\ Get(t, t.node[n].key) # Nil /\ KeyAt(t, i) = t.node[n].key
      BY <1>2, <3>1, <3>2
    <3>4. Findindex(t, t.node[n].key) = a + n
      BY <3>1, <3>3, FindindexIs DEF a
    <3> QED BY <3>1, <3>3, <3>4
  <2> QED BY <2>1, <2>2, KeyAtIs
<1>3. ASSUME NEW k \in Keys, Get(t, k) # Nil PROVE \E i \in 1..LastOf(t) : KeyAt(t, i) = k
  <2>1. CASE InArray(t, k)
    <3>1. k \in 1..a /\ k \in Numbers /\ Get(t, k) = k
      BY <1>3, <2>1, GetIs DEF InArray
    <3>2. KeyAt(t, k) = k /\ k \in 1..LastOf(t)
      BY <1>1, <3>1, KeyAtIs
    <3> QED BY <3>2
  <2>2. CASE ~InArray(t, k)
    <3>1. PICK n \in Places(t.node) : t.node[n].key = k
      BY <1>3, <2>2, GetIs
    <3>2. KeyAt(t, a + n) = k
      BY <1>3, <3>1, KeyAtIs
    <3>3. a + n \in 1..LastOf(t)
      BY KeyAtIs
    <3> QED BY <3>2, <3>3
  <2> QED BY <2>1, <2>2
<1> QED BY <1>2, <1>3

\* A traversal that is at a position has met v: every entry up to there, and no key
\* behind it.
Met(t, at, v) ==
  /\ v \subseteq Keys
  /\ \A i \in 1..at : KeyAt(t, i) # Nil => KeyAt(t, i) \in v
  /\ \A i \in at + 1 .. Len(t.array) : i \notin v
  /\ \A n \in Places(t.node) : n + Len(t.array) > at => t.node[n].key \notin v

\* An entry is changed or cleared on the way.
LEMMA MetStays ==
  ASSUME TableLimits, NEW t, NEW u, TableOK(t), TableOK(u), SameKeys(t, u),
         \A j \in Keys : Get(u, j) \in {Get(t, j), Nil},
         NEW c \in Keys \cup {Nil}, NEW v, Met(t, Findindex(t, c), v)
  PROVE  Met(u, Findindex(u, c), v)
<1>1. /\ Len(t.array) \in Nat /\ Len(t.node) \in Nat /\ Places(u.node) = Places(t.node)
      /\ Len(u.array) = Len(t.array) /\ \A n \in Places(t.node) : u.node[n].key = t.node[n].key
      /\ \A k : InArray(u, k) <=> InArray(t, k)
  BY KeyAtIs DEF SameKeys, Places, InArray
<1>0. Len(t.array) <= LastOf(t) /\ LastOf(t) \in Nat
  <2> DEFINE a == Len(t.array)
             b == Len(t.node)
  <2>1. LastOf(t) = a + b /\ a \in Nat /\ b \in Nat
    BY <1>1 DEF LastOf
  <2> HIDE DEF a, b
  <2>2. a <= LastOf(t) /\ LastOf(t) \in Nat
    BY <2>1
  <2> QED BY <2>2 DEF a
<1>2. Findindex(u, c) = Findindex(t, c) /\ Findindex(t, c) \in 0..LastOf(t)
  <2>1. CASE c = Nil
    BY <1>0, <2>1, FindindexIs
  <2>2. CASE c \in Keys /\ InArray(t, c)
    <3>1. Findindex(u, c) = c /\ Findindex(t, c) = c /\ c \in 1..Len(t.array)
      BY <1>1, <2>2, FindindexIs
    <3>2. c \in 1..LastOf(t)
      BY <3>1, KeyAtIs
    <3> QED BY <1>0, <3>1, <3>2
  <2>3. CASE c \in Keys /\ ~InArray(t, c) /\ \A n \in Places(t.node) : t.node[n].key # c
    <3>1. Findindex(u, c) = Len(t.array) /\ Findindex(t, c) = Len(t.array)
      BY <1>1, <2>3, FindindexIs
    <3> QED BY <1>0, <1>1, <3>1
  <2>4. CASE \E n \in Places(t.node) : t.node[n].key = c /\ c \in Keys
    <3>1. PICK n \in Places(t.node) : t.node[n].key = c /\ c \in Keys
      BY <2>4
    <3>2. Findindex(t, c) = Len(t.array) + n
      BY <3>1, FindindexIs
    <3>3. Findindex(u, c) = Len(t.array) + n
      BY <1>1, <3>1, FindindexIs
    <3>4. Findindex(t, c) \in 1..LastOf(t)
      BY <3>1, <3>2, KeyAtIs
    <3> QED BY <1>0, <3>2, <3>3, <3>4
  <2> QED BY <2>1, <2>2, <2>3, <2>4
<1>3. ASSUME NEW i \in 1..LastOf(t) PROVE KeyAt(u, i) \in {KeyAt(t, i), Nil}
  <2>1. CASE i \in 1..Len(t.array)
    <3>1. i \in 1..Len(t.array)
      BY <2>1
    <3>2. /\ KeyAt(t, i) = IF i \in Numbers THEN Get(t, i) ELSE Nil
          /\ KeyAt(u, i) = IF i \in Numbers THEN Get(u, i) ELSE Nil
      BY <1>1, <3>1, KeyAtIs
    <3> QED BY <3>2 DEF Keys
  <2>2. CASE \E n \in Places(t.node) : i = Len(t.array) + n
    <3>1. PICK n \in Places(t.node) : i = Len(t.array) + n
      BY <2>2
    <3> DEFINE k == t.node[n].key
    <3>2. KeyAt(t, Len(t.array) + n) = IF k \in Keys /\ Get(t, k) # Nil THEN k ELSE Nil
      BY <3>1, KeyAtIs
    <3>3. KeyAt(u, Len(t.array) + n) = IF k \in Keys /\ Get(u, k) # Nil THEN k ELSE Nil
      <4>1. n \in Places(u.node) /\ u.node[n].key = k
        BY <1>1, <3>1
      <4>2. KeyAt(u, Len(u.array) + n) =
              IF u.node[n].key \in Keys /\ Get(u, u.node[n].key) # Nil THEN u.node[n].key ELSE Nil
        BY <4>1, KeyAtIs
      <4> HIDE DEF k
      <4> QED BY <1>1, <4>1, <4>2
    <3> QED BY <3>1, <3>2, <3>3
  <2> QED BY <2>1, <2>2, KeyAtIs
<1> DEFINE at == Findindex(t, c)
<1> HIDE DEF at
<1>4. \A i \in 1..at : i \in 1..LastOf(t)
  BY <1>0, <1>2 DEF at
<1>5. \A i \in 1..at : KeyAt(u, i) # Nil => KeyAt(u, i) \in v
  BY <1>3, <1>4 DEF Met, at
<1> QED BY <1>1, <1>2, <1>5 DEF Met, at

\* The traversal goes on to the next entry, which it has not met.
LEMMA MetNext ==
  ASSUME TableLimits, NEW t, TableOK(t), NEW c \in Keys \cup {Nil}, NEW v,
         Met(t, Findindex(t, c), v), After(t, Findindex(t, c)) # {}
  PROVE  LET k == KeyAt(t, Min(After(t, Findindex(t, c)))) IN
         /\ k \in Keys \ v /\ Get(t, k) # Nil
         /\ Met(t, Findindex(t, k), v \cup {k})
<1> DEFINE at == Findindex(t, c)
           a == Len(t.array)
           p == Min(After(t, at))
           k == KeyAt(t, p)
<1>1. a \in Nat /\ Len(t.node) \in Nat
  BY KeyAtIs
<1>2. at \in Nat
  BY IndexNat
<1> HIDE DEF at, a
<1>0. LastOf(t) \in Nat
  BY KeyAtIs
<1>3. After(t, at) = {j \in at + 1 .. LastOf(t) : KeyAt(t, j) # Nil}
  BY DEF After, LastOf
<1>4. p \in After(t, at) /\ \A i \in After(t, at) : p <= i
  <2>1. After(t, at) \subseteq Nat /\ After(t, at) # {}
    BY <1>2, <1>3 DEF at
  <2> DEFINE N == After(t, at)
  <2> HIDE DEF N
  <2> QED BY <2>1, MinIs DEF N
<1> HIDE DEF p
<1>5. /\ p \in Nat /\ p > at /\ p \in 1..LastOf(t) /\ k # Nil
      /\ \A i \in at + 1 .. LastOf(t) : i < p => KeyAt(t, i) = Nil
  <2>2. p \in at + 1 .. LastOf(t) /\ k # Nil
    BY <1>3, <1>4
  <2>3. ASSUME NEW i \in at + 1 .. LastOf(t), i < p PROVE KeyAt(t, i) = Nil
    <3>1. i \notin After(t, at)
      BY <1>0, <1>2, <1>4, <2>2, <2>3
    <3> QED BY <1>3, <3>1
  <2> QED BY <1>0, <1>2, <2>2, <2>3
<1> HIDE DEF k
<1>6. k \in Keys /\ Get(t, k) # Nil /\ Findindex(t, k) = p
  BY <1>5, PositionIs DEF k
<1>7. /\ v \subseteq Keys
      /\ \A i \in 1..at : KeyAt(t, i) # Nil => KeyAt(t, i) \in v
      /\ \A i \in at + 1 .. a : i \notin v
      /\ \A n \in Places(t.node) : n + a > at => t.node[n].key \notin v
  BY DEF Met, at, a
<1>8. CASE p \in 1..a
  <2>1. p \in 1..a /\ p \in at + 1 .. a
    BY <1>1, <1>2, <1>5, <1>8
  <2>2. p \in Numbers /\ k = p /\ InArray(t, k)
    <3>1. k = IF p \in Numbers THEN Get(t, p) ELSE Nil
      BY <2>1, KeyAtIs DEF k, a
    <3>2. p \in Numbers /\ k = Get(t, p)
      BY <1>5, <3>1
    <3>3. Get(t, p) \in {p, Nil}
      BY <3>2, GetIs DEF Keys
    <3>4. p <= a
      BY <1>1, <2>1
    <3> QED BY <1>5, <3>2, <3>3, <3>4 DEF InArray, a
  <2>3. k \notin v
    BY <1>7, <2>1, <2>2
  <2>4. ASSUME NEW i \in p + 1 .. a PROVE i \notin v \cup {k}
    <3>1. i \in at + 1 .. a /\ i # p
      BY <1>1, <1>2, <1>5
    <3> QED BY <1>7, <2>2, <3>1
  <2>5. ASSUME NEW n \in Places(t.node), n + a > p PROVE t.node[n].key \notin v \cup {k}
    <3>1. n + a > at
      BY <1>1, <1>2, <1>5, <2>5 DEF Places
    <3>2. t.node[n].key # k
      BY <2>2 DEF TableOK
    <3> QED BY <1>7, <3>1, <3>2
  <2>6. ASSUME NEW i \in 1..p, KeyAt(t, i) # Nil PROVE KeyAt(t, i) \in v \cup {k}
    <3>1. i \in 1..at \/ i = p \/ (i \in at + 1 .. LastOf(t) /\ i < p)
      BY <1>0, <1>2, <1>5
    <3> QED BY <1>5, <1>7, <2>6, <3>1 DEF k
  <2>7. Met(t, p, v \cup {k})
    BY <1>6, <1>7, <2>4, <2>5, <2>6 DEF Met, a
  <2> QED BY <1>6, <2>3, <2>7 DEF k, p, at
<1>9. CASE \E m \in Places(t.node) : p = a + m
  <2>0. PICK m \in Places(t.node) : p = a + m
    BY <1>9
  <2>1. m \in Nat \ {0} /\ a + m = p /\ m + a > at /\ ~(p <= a)
    BY <1>1, <1>2, <1>5, <2>0 DEF Places
  <2>2. k = t.node[m].key
    <3>1. KeyAt(t, a + m) =
            IF t.node[m].key \in Keys /\ Get(t, t.node[m].key) # Nil THEN t.node[m].key ELSE Nil
      BY <2>1, KeyAtIs DEF a
    <3> QED BY <1>5, <2>1, <3>1 DEF k
  <2>3. k \notin v
    BY <1>7, <2>1, <2>2
  <2>4. ASSUME NEW i \in p + 1 .. a PROVE i \notin v \cup {k}
    BY <1>1, <1>5, <2>1
  <2>5. ASSUME NEW n \in Places(t.node), n + a > p PROVE t.node[n].key \notin v \cup {k}
    <3>1. n + a > at /\ n # m
      BY <1>1, <1>2, <1>5, <2>1, <2>5 DEF Places
    <3>2. t.node[n].key # k
      BY <1>6, <2>1, <2>2, <3>1 DEF TableOK, HashOK, Keyed, TableLimits
    <3> QED BY <1>7, <3>1, <3>2
  <2>6. ASSUME NEW i \in 1..p, KeyAt(t, i) # Nil PROVE KeyAt(t, i) \in v \cup {k}
    <3>1. i \in 1..at \/ i = p \/ (i \in at + 1 .. LastOf(t) /\ i < p)
      BY <1>0, <1>2, <1>5
    <3> QED BY <1>5, <1>7, <2>6, <3>1 DEF k
  <2>7. Met(t, p, v \cup {k})
    BY <1>6, <1>7, <2>4, <2>5, <2>6 DEF Met, a
  <2> QED BY <1>6, <2>3, <2>7 DEF k, p, at
<1> QED BY <1>5, <1>8, <1>9, KeyAtIs DEF a

\* At its end it has met every entry.
LEMMA MetAll ==
  ASSUME TableLimits, NEW t, TableOK(t), NEW at \in Nat, NEW v, Met(t, at, v), After(t, at) = {},
         NEW k \in Keys, Get(t, k) # Nil
  PROVE  k \in v
<1>1. PICK i \in 1..LastOf(t) : KeyAt(t, i) = k
  BY PositionIs
<1>2. k # Nil
  BY DEF TableLimits
<1>3. LastOf(t) \in Nat
  BY KeyAtIs
<1>4. i \notin at + 1 .. LastOf(t)
  BY <1>1, <1>2 DEF After, LastOf
<1>5. i \in 1..at
  BY <1>3, <1>4
<1> QED BY <1>1, <1>2, <1>5 DEF Met

-----------------------------------------------------------------------------
(* The invariant, and the table as a map.                                   *)

TableInv ==
  /\ TableOK(table) /\ SizeOK(table)
  /\ cursor # None => cursor \in Keys \cup {Nil} /\ Met(table, Findindex(table, cursor), visited)

LEMMA TableBegins ==
  ASSUME TableLimits, TableInit
  PROVE  TableInv /\ M!Init
<1> DEFINE t == [array |-> <<>>, node |-> <<>>, lastfree |-> 1]
<1>1. table = t /\ cursor = None /\ length = None
  BY DEF TableInit
<1>2. HashOK(<<>>)
  <2>1. /\ <<>> \in Seq(NodeSet) /\ Places(<<>>) = {}
    BY EmptySeq DEF Places
  <2> QED BY <2>1 DEF HashOK, Typed, Keyed, Single, Ends, Homed
<1>3. TableOK(t)
  <2>1. t \in TableSet /\ t.array = <<>> /\ t.node = <<>> /\ t.lastfree = 1 /\ Len(<<>>) = 0
    BY EmptySeq DEF TableSet
  <2>2. ArrayOK(t) /\ FreeOK(t) /\ Places(t.node) = {}
    BY <2>1 DEF ArrayOK, FreeOK, Places
  <2> HIDE DEF t
  <2> QED BY <1>2, <2>1, <2>2 DEF TableOK
<1>4. SizeOK(t)
  BY EmptySeq DEF SizeOK
<1>5. \A k \in Keys : Get(t, k) = Nil
  <2>1. t.node = <<>> /\ t.array = <<>>
    OBVIOUS
  <2> HIDE DEF t
  <2> SUFFICES ASSUME NEW k \in Keys PROVE Get(t, k) = Nil
    OBVIOUS
  <2>2. ~InArray(t, k)
    <3>1. Len(t.array) = 0
      BY <2>1, EmptySeq
    <3>2. k \in Numbers => ~(k <= 0)
      BY DEF TableLimits
    <3> QED BY <3>1, <3>2 DEF InArray
  <2>3. Find(t.node, k) = 0
    BY <2>1 DEF Find
  <2> QED BY <2>2, <2>3 DEF Get
<1> HIDE DEF t
<1> QED BY <1>1, <1>3, <1>4, <1>5 DEF TableInv, M!Init

\* An entry is stored or cleared.
LEMMA ChangesAre ==
  ASSUME TableLimits, TableInv, NEW k \in Keys, NEW v \in {k, Nil}, Changes(k),
         TableOK(table'), SizeOK(table'),
         \A j \in Keys : Get(table', j) = IF j = k THEN v ELSE Get(table, j),
         Get(table, k) # Nil => SameKeys(table, table')
  PROVE  TableInv' /\ M!Set(k, v)
<1>1. TableOK(table) /\ k # Nil
  BY DEF TableInv, TableLimits
<1>2. CASE Get(table, k) = Nil
  <2>1. cursor' = None /\ length' = None
    BY <1>2 DEF Changes
  <2> QED BY <1>2, <2>1 DEF TableInv, M!Set
<1>3. CASE Get(table, k) # Nil
  <2>1. cursor' = cursor /\ visited' = visited /\ length' = None
    BY <1>3 DEF Changes
  <2>2. \A j \in Keys : Get(table', j) \in {Get(table, j), Nil}
    BY <1>1, <1>3, GetIs
  <2>3. cursor # None => cursor \in Keys \cup {Nil} /\ Met(table', Findindex(table', cursor), visited)
    BY <1>1, <1>3, <2>2, MetStays DEF TableInv
  <2> QED BY <1>3, <2>1, <2>3 DEF TableInv, M!Set
<1> QED BY <1>2, <1>3

LEMMA NextKeyIs ==
  ASSUME TableLimits, TableInv, NextKey
  PROVE  TableInv' /\ (M!End \/ \E k \in Keys : M!Visit(k))
<1> DEFINE at == Findindex(table, cursor)
           after == After(table, at)
<1>1. /\ TableOK(table) /\ SizeOK(table) /\ table' = table /\ length' = length
      /\ cursor # None /\ cursor \in Keys \cup {Nil} /\ Met(table, at, visited)
  BY DEF TableInv, NextKey
<1>2. visited \subseteq Keys /\ visited # None
  BY <1>1 DEF Met, TableLimits
<1>3. CASE after = {}
  <2>1. cursor' = None
    BY <1>3 DEF NextKey
  <2>2. at \in Nat
    BY <1>1, IndexNat
  <2>3. \A k \in Keys : Get(table, k) # Nil => k \in visited
    BY <1>1, <1>3, <2>2, MetAll
  <2>4. TableInv'
    BY <1>1, <2>1 DEF TableInv
  <2>5. M!End
    BY <1>1, <1>2, <2>1, <2>3 DEF M!End, M!Present
  <2> QED BY <2>4, <2>5
<1>4. CASE after # {}
  <2> DEFINE k == KeyAt(table, Min(after))
  <2>1. cursor' = k /\ visited' = visited \cup {k}
    BY <1>4 DEF NextKey
  <2>2. /\ k \in Keys \ visited /\ Get(table, k) # Nil
        /\ Met(table, Findindex(table, k), visited \cup {k})
    BY <1>1, <1>4, MetNext
  <2> HIDE DEF k, after
  <2>3. k # None /\ cursor' # None
    BY <2>1, <2>2 DEF TableLimits
  <2>4. TableInv'
    BY <1>1, <2>1, <2>2 DEF TableInv
  <2>5. M!Visit(k)
    BY <1>1, <1>2, <2>1, <2>2, <2>3 DEF M!Visit, M!Present
  <2> QED BY <2>2, <2>4, <2>5
<1> QED BY <1>3, <1>4

\* Every step of the table is one of the map, or none.
LEMMA TableSteps ==
  ASSUME TableLimits, TableInv, [TableNext]_tableVars
  PROVE  TableInv' /\ [M!Next]_(M!vars)
<1>1. TableOK(table) /\ SizeOK(table)
  BY DEF TableInv
<1>2. ASSUME NEW k \in Keys, Set(k) PROVE TableInv' /\ M!Set(k, k)
  <2>1. table' = SetKey(table, k) /\ Changes(k)
    BY <1>2 DEF Set
  <2> QED BY <1>1, <2>1, SetKeyIs, ChangesAre
<1>3. ASSUME NEW k \in Keys, Clear(k) PROVE TableInv' /\ M!Set(k, Nil)
  <2>1. table' = ClearKey(table, k) /\ Changes(k)
    BY <1>3 DEF Clear
  <2> QED BY <1>1, <2>1, ClearKeyIs, ChangesAre
<1>4. ASSUME NEW n \in Numbers, Resizearray(n) PROVE TableInv' /\ UNCHANGED M!vars
  <2>1. /\ cursor = None /\ n > Len(table.array) /\ n \in Nat
        /\ table' = Resize(table, n, Len(table.node)) /\ UNCHANGED <<cursor, visited, length>>
    BY <1>4 DEF Resizearray, TableLimits
  <2>2. /\ TableOK(table') /\ SizeOK(table')
        /\ \A j \in Keys : Get(table', j) = Get(table, j)
    BY <1>1, <2>1, ResizearrayIs
  <2> QED BY <2>1, <2>2 DEF TableInv, M!vars
<1>5. CASE Begin
  <2>1. cursor' = Nil /\ visited' = {} /\ length' = None /\ table' = table
    BY <1>5 DEF Begin
  <2>2. Nil # None /\ Findindex(table, Nil) = 0
    BY <1>1, FindindexIs DEF TableLimits
  <2>3. Met(table, 0, {})
    BY DEF Met
  <2> QED BY <1>1, <2>1, <2>2, <2>3 DEF TableInv, M!Begin, M!Next
<1>6. CASE NextKey
  BY <1>6, NextKeyIs DEF M!Next
<1>7. CASE Length
  <2>1. cursor = None /\ length' = Getn(table) /\ table' = table /\ cursor' = cursor /\ visited' = visited
    BY <1>7 DEF Length
  <2>2. BorderOf(table, Getn(table))
    BY <1>1, GetnIs
  <2> DEFINE n == Getn(table)
  <2>3. n \in {0} \cup Numbers /\ (n = 0 \/ (n \in Keys /\ Get(table, n) # Nil))
        /\ (n + 1 \in Numbers => Get(table, n + 1) = Nil)
    BY <2>2 DEF BorderOf, Begins, Absent, Keys
  <2> HIDE DEF n
  <2>4. M!Border(n)
    BY <2>3 DEF M!Border, M!Present
  <2>5. M!Length
    BY <2>1, <2>3, <2>4 DEF M!Length, n
  <2>6. TableInv'
    BY <1>1, <2>1 DEF TableInv
  <2> QED BY <2>5, <2>6 DEF M!Next
<1>8. CASE UNCHANGED tableVars
  BY <1>8 DEF tableVars, TableInv, M!vars
<1> QED BY <1>2, <1>3, <1>4, <1>5, <1>6, <1>7, <1>8 DEF TableNext, M!Next

\* The vectors and chains of a table are as its operations expect them, and a traversal
\* has met all entries up to its position and none behind it.
THEOREM TableInvariant ==
  ASSUME TableLimits
  PROVE  TableSpec => []TableInv
<1>1. TableInit => TableInv
  BY TableBegins
<1>2. TableInv /\ [TableNext]_tableVars => TableInv'
  BY TableSteps
<1> QED BY <1>1, <1>2, PTL DEF TableSpec

\* However its nodes are moved, chained and rehashed, the table is a map, its length
\* a border, and its traversal complete.
THEOREM TableImplementsMap ==
  ASSUME TableLimits
  PROVE  TableSpec => ImplementsMap
<1>1. TableInit => M!Init
  BY TableBegins
<1>2. TableInv /\ [TableNext]_tableVars => [M!Next]_(M!vars)
  BY TableSteps
<1>3. TableSpec => []TableInv
  BY TableInvariant
<1> QED BY <1>1, <1>2, <1>3, PTL DEF TableSpec, ImplementsMap, M!Spec
==============================================================================
