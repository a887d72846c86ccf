-------------------------- MODULE BreakpointsProofs --------------------------
(***************************************************************************)
(* Breakpoint matching for any set of files, any roots and any order in    *)
(* which directories deliver their entries and pairs its keys.             *)
(***************************************************************************)
EXTENDS Breakpoints, SequenceTheorems, NaturalsInduction, WellFoundedInduction, TLAPS

Names == DOMAIN Stem \cup ToSet(Base)

-----------------------------------------------------------------------------
(* Paths: what one has of another, from the beginning and from the end.     *)

\* IsPrefix, component by component.
Starts(s, t) == Len(s) <= Len(t) /\ \A i \in 1..Len(s) : s[i] = t[i]

LEMMA PrefixIs ==
  ASSUME NEW S, NEW s \in Seq(S), NEW t \in Seq(S)
  PROVE  IsPrefix(s, t) <=> Starts(s, t)
<1>1. Len(s) \in Nat /\ Len(t) \in Nat
  BY LenProperties
<1>2. CASE ~(Len(s) <= Len(t))
  BY <1>2 DEF IsPrefix, Starts
<1>3. CASE Len(s) <= Len(t)
  <2> DEFINE n == Len(s)
             a == SubSeq(s, 1, n)
             b == SubSeq(t, 1, n)
  <2>1. \A i \in 1..n : s[i] \in S /\ t[i] \in S
    BY <1>1, <1>3, ElementOfSeq
  <2>2. PICK m \in Nat : m = n
    BY <1>1
  <2>3. /\ a \in Seq(S) /\ Len(a) = (IF 1 <= m THEN m - 1 + 1 ELSE 0)
        /\ \A i \in 1..(m - 1 + 1) : a[i] = s[1 + i - 1]
    BY <2>1, <2>2, SubSeqProperties
  <2>4. /\ b \in Seq(S) /\ Len(b) = (IF 1 <= m THEN m - 1 + 1 ELSE 0)
        /\ \A i \in 1..(m - 1 + 1) : b[i] = t[1 + i - 1]
    BY <2>1, <2>2, SubSeqProperties
  <2> HIDE DEF a, b
  <2>5. (IF 1 <= m THEN m - 1 + 1 ELSE 0) = m /\ m - 1 + 1 = m /\ \A i \in 1..m : 1 + i - 1 = i
    OBVIOUS
  <2>6. Len(a) = m /\ Len(b) = m /\ \A i \in 1..m : a[i] = s[i] /\ b[i] = t[i]
    BY <2>3, <2>4, <2>5
  <2>7. a = b <=> \A i \in 1..m : s[i] = t[i]
    <3>1. ASSUME a = b PROVE \A i \in 1..m : s[i] = t[i]
      BY <2>6, <3>1
    <3>2. ASSUME \A i \in 1..m : s[i] = t[i] PROVE a = b
      BY <2>3, <2>4, <2>6, <3>2, SeqEqual
    <3> QED BY <3>1, <3>2
  <2> QED BY <1>3, <2>2, <2>7 DEF IsPrefix, Starts, a, b
<1> QED BY <1>2, <1>3

\* A path with one more component.
LEMMA Deeper ==
  ASSUME NEW S, NEW d \in Seq(S), NEW e \in S
  PROVE  /\ d \o <<e>> \in Seq(S) /\ Len(d \o <<e>>) = Len(d) + 1 /\ Len(d) \in Nat
         /\ \A i \in 1..Len(d) : (d \o <<e>>)[i] = d[i]
         /\ (d \o <<e>>)[Len(d) + 1] = e
<1>1. Append(d, e) = d \o <<e>>
  BY AppendIsConcat
<1>2. Len(d) \in Nat
  BY LenProperties
<1> QED BY <1>1, <1>2, AppendProperties

LEMMA StartsTransitive ==
  ASSUME NEW S, NEW r \in Seq(S), NEW s \in Seq(S), NEW t \in Seq(S),
         Starts(r, s), Starts(s, t)
  PROVE  Starts(r, t)
BY LenProperties DEF Starts

LEMMA StartsDeeper ==
  ASSUME NEW S, NEW r \in Seq(S), NEW d \in Seq(S), NEW e \in S, Starts(r, d)
  PROVE  Starts(r, d \o <<e>>)
<1> DEFINE p == d \o <<e>>
<1>1. /\ Len(p) = Len(d) + 1 /\ Len(d) \in Nat /\ Len(r) \in Nat
      /\ \A i \in 1..Len(d) : p[i] = d[i]
  BY Deeper, LenProperties
<1> HIDE DEF p
<1>2. Starts(r, p)
  BY <1>1 DEF Starts
<1> QED BY <1>2 DEF p

\* Below a directory there is an entry of it.
LEMMA EntryBelow ==
  ASSUME NEW S, NEW d \in Seq(S), NEW f \in Seq(S), Starts(d, f), d # f
  PROVE  /\ Len(d) \in Nat /\ Len(f) > Len(d) /\ f[Len(d) + 1] \in S
         /\ Starts(d \o <<f[Len(d) + 1]>>, f)
<1>1. Len(d) \in Nat /\ Len(f) \in Nat
  BY LenProperties
<1>2. Len(f) # Len(d)
  BY SeqEqual DEF Starts
<1>3. Len(f) > Len(d) /\ Len(d) + 1 \in 1..Len(f)
  BY <1>1, <1>2 DEF Starts
<1>4. PICK e \in S : e = f[Len(d) + 1]
  BY <1>3, ElementOfSeq
<1> DEFINE p == d \o <<e>>
<1>5. /\ Len(p) = Len(d) + 1 /\ p[Len(d) + 1] = e
      /\ \A i \in 1..Len(d) : p[i] = d[i]
  BY Deeper
<1> HIDE DEF p
<1>6. \A i \in 1..(Len(d) + 1) : i = Len(d) + 1 \/ i \in 1..Len(d)
  BY <1>1
<1>7. \A i \in 1..(Len(d) + 1) : p[i] = f[i]
  BY <1>4, <1>5, <1>6 DEF Starts
<1>8. Starts(p, f)
  BY <1>1, <1>3, <1>5, <1>7 DEF Starts
<1> QED BY <1>1, <1>3, <1>4, <1>8 DEF p

LEMMA LeastNumber ==
  ASSUME NEW T, T \subseteq Nat, T # {}
  PROVE  \E n \in T : \A m \in T : n <= m
<1> DEFINE R == {ss \in Nat \X Nat : ss[1] < ss[2]}
<1>1. OpToRel(<, Nat) = R
  BY Zenon DEF OpToRel
<1>2. IsWellFoundedOn(R, Nat)
  BY <1>1, NatLessThanWellFounded, Zenon
<1> HIDE DEF R
<1>3. PICK n \in T : \A m \in T : ~(<<m, n>> \in R)
  BY <1>2, WFMin
<1>4. ASSUME NEW m \in T PROVE n <= m
  <2>1. m \in Nat /\ n \in Nat
    OBVIOUS
  <2>2. m < n => <<m, n>> \in R
    BY <2>1 DEF R
  <2>3. ~(m < n)
    BY <1>3, <2>2
  <2> QED BY <2>1, <2>3
<1> QED BY <1>4

\* getMatchCount has a result, although it is a choice: the first place, counted
\* from the end, at which the paths differ or one of them is over.
Agree(a, b, n) ==
  /\ n <= Len(b)
  /\ \A i \in 0..(n - 1) : a[Len(a) - i] = b[Len(b) - i]
  /\ (n < Len(a) /\ n < Len(b)) => a[Len(a) - n] # b[Len(b) - n]

LEMMA MatchCount ==
  ASSUME NEW S, NEW a \in Seq(S), NEW b \in Seq(S)
  PROVE  getMatchCount(a, b) \in 0..Len(a) /\ Agree(a, b, getMatchCount(a, b))
<1>1. Len(a) \in Nat /\ Len(b) \in Nat
  BY LenProperties
<1> DEFINE Over == {n \in Nat : n >= Len(a) \/ n >= Len(b) \/ a[Len(a) - n] # b[Len(b) - n]}
<1>2. Len(a) \in Over
  BY <1>1
<1>3. PICK n \in Over : \A m \in Over : n <= m
  <2>1. Over \subseteq Nat /\ Over # {}
    BY <1>2
  <2> HIDE DEF Over
  <2> QED BY <2>1, LeastNumber
<1>4. ASSUME NEW m \in Nat, m \in Over PROVE ~(m < n)
  <2>1. n <= m /\ n \in Nat
    BY <1>3, <1>4
  <2> QED BY <2>1
<1>5. n \in 0..Len(a) /\ Agree(a, b, n)
  <2>1. n <= Len(a) /\ n <= Len(b) /\ n \in Nat
    <3>1. Len(b) \in Over
      BY <1>1
    <3>2. n \in Nat
      OBVIOUS
    <3>3. ~(Len(a) < n) /\ ~(Len(b) < n)
      BY <1>1, <1>2, <1>4, <3>1
    <3> QED BY <1>1, <3>2, <3>3
  <2>2. ASSUME NEW i \in 0..(n - 1) PROVE a[Len(a) - i] = b[Len(b) - i]
    <3>1. i \in Nat /\ i < n
      BY <2>1
    <3>2. i \notin Over
      BY <1>4, <3>1
    <3> QED BY <3>1, <3>2
  <2> QED BY <2>1, <2>2, <1>1 DEF Agree
<1> QED BY <1>5 DEF getMatchCount, Agree

\* Paths match when their last components do.
LEMMA MatchLast ==
  ASSUME NEW S, NEW a \in Seq(S), NEW b \in Seq(S), a # <<>>, b # <<>>
  PROVE  getMatchCount(a, b) > 0 <=> Last(a) = Last(b)
<1> DEFINE n == getMatchCount(a, b)
<1>1. n \in 0..Len(a) /\ Agree(a, b, n)
  BY MatchCount
<1>2. Len(a) \in Nat \ {0} /\ Len(b) \in Nat \ {0}
  BY LenProperties, EmptySeq
<1> HIDE DEF n
<1>3. ASSUME n > 0 PROVE Last(a) = Last(b)
  <2>1. 0 \in 0..(n - 1) /\ Len(a) - 0 = Len(a) /\ Len(b) - 0 = Len(b)
    BY <1>1, <1>2, <1>3
  <2>2. a[Len(a) - 0] = b[Len(b) - 0]
    BY <1>1, <2>1 DEF Agree
  <2> QED BY <2>1, <2>2 DEF Last
<1>4. ASSUME Last(a) = Last(b) PROVE n # 0
  <2> SUFFICES ASSUME n = 0 PROVE FALSE
    OBVIOUS
  <2>1. Len(a) - 0 = Len(a) /\ Len(b) - 0 = Len(b) /\ 0 < Len(a) /\ 0 < Len(b)
    BY <1>2
  <2>2. a[Len(a) - 0] # b[Len(b) - 0]
    BY <1>1, <2>1 DEF Agree
  <2> QED BY <1>4, <2>1, <2>2 DEF Last
<1>5. n > 0 <=> n # 0
  BY <1>1
<1> QED BY <1>3, <1>4, <1>5 DEF n

\* A path matches all of a path that ends with it.
LEMMA MatchAll ==
  ASSUME NEW S, NEW a \in Seq(S), NEW b \in Seq(S)
  PROVE  getMatchCount(a, b \o a) = Len(a)
<1> DEFINE c == b \o a
           n == getMatchCount(a, c)
<1>1. Len(a) \in Nat /\ Len(b) \in Nat
  BY LenProperties
<1>2. /\ c \in Seq(S) /\ Len(c) = Len(b) + Len(a)
      /\ \A i \in 1..(Len(b) + Len(a)) : c[i] = IF i <= Len(b) THEN b[i] ELSE a[i - Len(b)]
  BY ConcatProperties
<1> HIDE DEF c
<1>3. n \in 0..Len(a) /\ Agree(a, c, n)
  BY <1>2, MatchCount
<1> HIDE DEF n
<1>4. ~(n < Len(a))
  <2> SUFFICES ASSUME n < Len(a) PROVE FALSE
    OBVIOUS
  <2>1. n < Len(c) /\ a[Len(a) - n] # c[Len(c) - n]
    <3>1. n < Len(c)
      BY <1>1, <1>2, <1>3
    <3> QED BY <1>3, <3>1 DEF Agree
  <2>2. PICK j \in 1..Len(a) : j = Len(a) - n
    <3>1. n \in Nat /\ n < Len(a)
      BY <1>1, <1>3
    <3>2. Len(a) - n \in 1..Len(a)
      BY <1>1, <3>1
    <3> QED BY <3>2
  <2>3. /\ Len(c) - n = Len(b) + j /\ Len(b) + j \in 1..(Len(b) + Len(a))
        /\ ~(Len(b) + j <= Len(b)) /\ Len(b) + j - Len(b) = j
    BY <1>1, <1>2, <1>3, <2>2
  <2>4. c[Len(b) + j] = a[j]
    BY <1>2, <2>3
  <2> QED BY <2>1, <2>2, <2>3, <2>4
<1>5. n = Len(a)
  BY <1>1, <1>3, <1>4
<1> QED BY <1>5 DEF n, c

-----------------------------------------------------------------------------
(* BuildLookup: what it has found, and where it has still to look.          *)

Dirs == Seq(DOMAIN Stem)
Levels == [dir : Dirs, left : SUBSET DOMAIN Stem]
Begun == Len(Roots) - Len(roots)

WalkTypes ==
  /\ roots \in Seq(Dirs)
  /\ open \in Seq(Levels)
  /\ filepathCache \in [Stems -> Files \cup {nil}]
RootsLeft ==
  /\ Len(roots) <= Len(Roots)
  /\ \A i \in 1..Len(roots) : roots[i] = Roots[Begun + i]

\* The directories that are open are below the last root that was begun,
OpenBelow ==
  /\ open # <<>> => Begun > 0
  /\ \A d \in 1..Len(open) : Starts(Roots[Begun], open[d].dir)

\* what has been found is below one that has been begun,
Below(f, i) == \E j \in 1..i : Starts(Roots[j], f)
Cached ==
  \A s \in Stems : filepathCache[s] # nil =>
    Stem[Last(filepathCache[s])] = s /\ Below(filepathCache[s], Begun)

\* and nothing is forgotten: a file below the i-th root either has its name taken
\* by one below the roots up to that, or is below an entry that is still to come.
Found(f, i) ==
  filepathCache[Stem[Last(f)]] # nil /\ Below(filepathCache[Stem[Last(f)]], i)
Ahead(level, f) == \E e \in level.left : Starts(level.dir \o <<e>>, f)
Pending(f) == \E d \in 1..Len(open) : Ahead(open[d], f)
Complete ==
  \A f \in Files : \A i \in 1..Begun :
    Stem[Last(f)] # nil /\ Starts(Roots[i], f) => Found(f, i) \/ (i = Begun /\ Pending(f))

WalkInv == WalkTypes /\ RootsLeft /\ OpenBelow /\ Cached /\ Complete

LEMMA RootFacts ==
  /\ Roots \in Seq(Dirs) /\ Len(Roots) \in Nat
  /\ \A i \in 1..Len(Roots) : Roots[i] \in Dirs /\ Roots[i] # <<>> /\ Roots[i] \notin Files
<1>1. Roots \in Seq(Dirs)
  BY RootsAssumption DEF RootsAssumption, Dirs
<1> QED BY <1>1, RootsAssumption, LenProperties, ElementOfSeq DEF RootsAssumption

LEMMA FileFacts ==
  ASSUME NEW f \in Files
  PROVE  /\ f \in Dirs /\ f # <<>> /\ Len(f) \in Nat \ {0} /\ f # nil
         /\ Last(f) \in DOMAIN Stem /\ (Stem[Last(f)] # nil => Stem[Last(f)] \in Stems)
<1>1. f \in Seq(DOMAIN Stem) /\ f # <<>>
  BY FilesAssumption DEF FilesAssumption
<1>2. Len(f) \in Nat \ {0}
  BY <1>1, EmptySeq
<1>3. Len(f) \in 1..Len(f)
  BY <1>2
<1>4. Last(f) \in DOMAIN Stem
  BY <1>1, <1>3, ElementOfSeq DEF Last
<1>5. f # nil
  BY NilAssumption DEF NilAssumption
<1> QED BY <1>1, <1>2, <1>4, <1>5 DEF Dirs, Stems

\* No file is a directory.
LEMMA FilesAreLeaves ==
  ASSUME NEW f \in Files, NEW g \in Files, Starts(f, g)
  PROVE  f = g
<1>1. f \in Dirs /\ g \in Dirs
  BY FileFacts
<1>2. IsPrefix(f, g)
  BY <1>1, PrefixIs DEF Dirs
<1> QED BY <1>2, FilesAssumption DEF FilesAssumption

\* What is opened has every file below it ahead.
LEMMA OpenedHas ==
  ASSUME NEW d \in Dirs
  PROVE  /\ Opened(d) \in Levels
         /\ \A f \in Files : Starts(d, f) /\ d # f => Ahead(Opened(d), f)
<1>1. ASSUME NEW f \in Files, Starts(d, f), d # f
      PROVE  f[Len(d) + 1] \in Entries(d) /\ Ahead(Opened(d), f)
  <2>1. f \in Dirs
    BY FileFacts
  <2>2. f[Len(d) + 1] \in Entries(d)
    <3>1. IsStrictPrefix(d, f)
      BY <1>1, <2>1, PrefixIs DEF IsStrictPrefix, Dirs
    <3> QED BY <3>1 DEF Entries
  <2>3. Starts(d \o <<f[Len(d) + 1]>>, f)
    BY <1>1, <2>1, EntryBelow DEF Dirs
  <2> QED BY <2>2, <2>3 DEF Ahead, Opened
<1>2. Entries(d) \subseteq DOMAIN Stem
  <2> SUFFICES ASSUME NEW f \in Files, IsStrictPrefix(d, f) PROVE f[Len(d) + 1] \in DOMAIN Stem
    BY DEF Entries
  <2>1. f \in Dirs
    BY FileFacts
  <2>2. Starts(d, f) /\ d # f
    BY <2>1, PrefixIs DEF IsStrictPrefix, Dirs
  <2> QED BY <2>1, <2>2, EntryBelow DEF Dirs
<1>3. Opened(d) \in Levels
  BY <1>2 DEF Opened, Levels
<1> QED BY <1>1, <1>3

LEMMA BegunFacts ==
  ASSUME WalkTypes, RootsLeft
  PROVE  Len(roots) \in Nat /\ Begun \in 0..Len(Roots) /\ Len(open) \in Nat
BY RootFacts, LenProperties DEF WalkTypes, RootsLeft, Begun

LEMMA WalkInit == Init => WalkInv
<1> SUFFICES ASSUME Init PROVE WalkInv
  OBVIOUS
<1>1. roots = Roots /\ open = <<>> /\ filepathCache = [s \in Stems |-> nil]
  BY DEF Init
<1>2. Begun = 0
  BY <1>1, RootFacts DEF Begun
<1>3. WalkTypes
  BY <1>1, RootFacts, EmptySeq DEF WalkTypes
<1>4. RootsLeft
  BY <1>1, <1>2, RootFacts DEF RootsLeft
<1>5. Len(open) = 0
  BY <1>1, EmptySeq
<1>6. OpenBelow /\ Cached /\ Complete
  BY <1>1, <1>2, <1>5 DEF OpenBelow, Cached, Complete
<1> QED BY <1>3, <1>4, <1>6 DEF WalkInv

LEMMA NextRootWalks == WalkInv /\ NextRoot => WalkInv'
<1> SUFFICES ASSUME WalkInv, NextRoot PROVE WalkInv'
  OBVIOUS
<1> USE DEF WalkInv
<1> DEFINE h == Head(roots)
<1>1. /\ open = <<>> /\ roots # <<>> /\ filepathCache' = filepathCache
      /\ open' = <<Opened(h)>> /\ roots' = Tail(roots)
  BY DEF NextRoot
<1>2. Len(roots) \in Nat \ {0} /\ Begun \in 0..Len(Roots) /\ Len(open) = 0 /\ Len(Roots) \in Nat
  BY <1>1, BegunFacts, RootFacts, EmptySeq DEF WalkTypes
<1>3. /\ h \in Dirs /\ Tail(roots) \in Seq(Dirs) /\ Len(Tail(roots)) = Len(roots) - 1
      /\ \A i \in 1..Len(Tail(roots)) : Tail(roots)[i] = roots[i + 1]
  BY <1>1, HeadTailProperties DEF WalkTypes
<1>4. Begun' = Begun + 1 /\ Begun + 1 \in 1..Len(Roots)
  BY <1>1, <1>2, <1>3, RootFacts DEF Begun
<1>5. h = Roots[Begun + 1]
  BY <1>1, <1>2 DEF RootsLeft
<1> HIDE DEF h
<1>6. Len(open') = 1 /\ open'[1] = Opened(h) /\ open' # <<>>
  BY <1>1
<1>7. WalkTypes'
  <2>1. open' \in Seq(Levels)
    BY <1>1, <1>3, OpenedHas
  <2> QED BY <1>1, <1>3, <2>1 DEF WalkTypes
<1>8. RootsLeft'
  <2>1. ASSUME NEW i \in 1..Len(roots') PROVE roots'[i] = Roots[Begun' + i]
    <3>1. roots'[i] = roots[i + 1] /\ i + 1 \in 1..Len(roots)
      BY <1>1, <1>2, <1>3
    <3>2. roots[i + 1] = Roots[Begun + (i + 1)] /\ Begun + (i + 1) = Begun' + i
      BY <1>2, <1>4, <3>1 DEF RootsLeft
    <3> QED BY <3>1, <3>2
  <2> QED BY <1>1, <1>2, <1>3, <2>1 DEF RootsLeft
<1>9. OpenBelow'
  <2>1. Starts(h, h)
    BY <1>3, LenProperties DEF Starts, Dirs
  <2> QED BY <1>4, <1>5, <1>6, <2>1, <1>2 DEF OpenBelow, Opened
<1>10. Cached'
  <2>1. ASSUME NEW f, Below(f, Begun) PROVE Below(f, Begun')
    BY <1>2, <1>4, <2>1 DEF Below
  <2> QED BY <1>1, <2>1 DEF Cached
<1>11. Complete'
  <2> SUFFICES ASSUME NEW f \in Files, NEW i \in 1..Begun', Stem[Last(f)] # nil, Starts(Roots[i], f)
               PROVE  Found(f, i)' \/ (i = Begun' /\ Pending(f)')
    BY DEF Complete
  <2>1. CASE i = Begun'
    <3>1. Starts(h, f) /\ h # f
      BY <1>4, <1>5, <2>1, RootFacts
    <3>2. Ahead(Opened(h), f)
      BY <1>3, <3>1, OpenedHas
    <3> QED BY <1>6, <2>1, <3>2 DEF Pending
  <2>2. CASE i # Begun'
    <3>1. i \in 1..Begun
      BY <1>2, <1>4, <2>2
    <3>2. ~Pending(f)
      BY <1>2 DEF Pending
    <3>3. Found(f, i)
      BY <3>1, <3>2 DEF Complete
    <3> QED BY <1>1, <3>3 DEF Found
  <2> QED BY <2>1, <2>2
<1> QED BY <1>7, <1>8, <1>9, <1>10, <1>11

\* A name that is taken stays taken by the same file.
LEMMA AddFirstKeeps ==
  ASSUME WalkInv, NEW b \in 1..Len(Roots), b = Begun,
         NEW f \in Files, Starts(Roots[b], f), AddFirst(f)
  PROVE  /\ filepathCache' \in [Stems -> Files \cup {nil}]
         /\ \A s \in Stems : filepathCache'[s] # nil =>
              Stem[Last(filepathCache'[s])] = s /\ Below(filepathCache'[s], b)
         /\ \A g \in Files, i \in 1..b : Stem[Last(g)] # nil /\ Found(g, i) => Found(g, i)'
         /\ Stem[Last(f)] # nil => Found(f, b)'
<1> USE DEF WalkInv, WalkTypes
<1> DEFINE s == Stem[Last(f)]
<1>1. f # nil /\ (s # nil => s \in Stems) /\ Below(f, b) /\ b \in 1..b
  BY FileFacts, RootFacts DEF Below
<1>2. CASE s = nil \/ filepathCache[s] # nil
  <2>1. filepathCache' = filepathCache
    BY <1>2 DEF AddFirst
  <2>2. ASSUME NEW g, NEW i, Found(g, i) PROVE Found(g, i)'
    BY <2>1, <2>2 DEF Found
  <2>3. s # nil => Found(f, b)
    BY <1>1, <1>2 DEF Cached, Found
  <2> QED BY <2>1, <2>2, <2>3 DEF Cached, Found
<1>3. CASE s # nil /\ filepathCache[s] = nil
  <2>1. filepathCache' = [filepathCache EXCEPT ![s] = f]
    BY <1>3 DEF AddFirst
  <2>2. filepathCache' \in [Stems -> Files \cup {nil}]
    BY <2>1
  <2>3. \A t \in Stems : filepathCache'[t] = IF t = s THEN f ELSE filepathCache[t]
    BY <2>1
  <2>4. ASSUME NEW t \in Stems, filepathCache'[t] # nil
        PROVE  Stem[Last(filepathCache'[t])] = t /\ Below(filepathCache'[t], b)
    BY <1>1, <2>3, <2>4 DEF Cached
  <2>5. ASSUME NEW g \in Files, NEW i \in 1..b, Stem[Last(g)] # nil, Found(g, i)
        PROVE  Found(g, i)'
    <3>1. Stem[Last(g)] \in Stems /\ Stem[Last(g)] # s
      BY <1>3, <2>5, FileFacts DEF Found
    <3>2. filepathCache'[Stem[Last(g)]] = filepathCache[Stem[Last(g)]]
      BY <2>3, <3>1
    <3> QED BY <2>5, <3>2 DEF Found
  <2>6. Found(f, b)'
    <3>1. filepathCache'[s] = f
      BY <1>1, <1>3, <2>3
    <3> QED BY <1>1, <3>1 DEF Found
  <2> QED BY <2>2, <2>4, <2>5, <2>6
<1> QED BY <1>2, <1>3

\* The entry e of the innermost directory is read.
LEMMA WithoutIs ==
  ASSUME WalkTypes, open # <<>>, NEW e
  PROVE  /\ Len(open) \in Nat \ {0} /\ Last(open) = open[Len(open)]
         /\ Without(e) \in Seq(Levels) /\ Len(Without(e)) = Len(open)
         /\ \A d \in 1..Len(open) :
              /\ Without(e)[d].dir = open[d].dir
              /\ Without(e)[d].left = IF d = Len(open) THEN open[d].left \ {e} ELSE open[d].left
<1>1. PICK n \in Nat \ {0} : n = Len(open)
  BY EmptySeq DEF WalkTypes
<1>2. n \in 1..Len(open)
  BY <1>1
<1>3. PICK level \in Levels : level = open[n]
  BY <1>2, ElementOfSeq DEF WalkTypes
<1> DEFINE rest == [level EXCEPT !.left = @ \ {e}]
<1>4. rest \in Levels /\ rest.dir = level.dir /\ rest.left = level.left \ {e}
  BY DEF Levels
<1> HIDE DEF rest
<1> DEFINE w == [open EXCEPT ![n] = rest]
<1>5. Without(e) = w
  <2>1. Without(e) = [open EXCEPT ![n] = [open[n] EXCEPT !.left = @ \ {e}]]
    BY <1>1 DEF Without
  <2> QED BY <1>3, <2>1 DEF rest
<1>6. /\ w \in Seq(Levels) /\ Len(w) = Len(open)
      /\ \A d \in 1..Len(open) : w[d] = IF d = n THEN rest ELSE open[d]
  BY <1>2, <1>4, ExceptSeq DEF WalkTypes
<1> HIDE DEF w
<1>7. ASSUME NEW d \in 1..Len(open)
      PROVE  /\ w[d].dir = open[d].dir
             /\ w[d].left = IF d = n THEN open[d].left \ {e} ELSE open[d].left
  <2>1. CASE d = n
    BY <1>3, <1>4, <1>6, <2>1
  <2>2. CASE d # n
    BY <1>6, <2>2
  <2> QED BY <2>1, <2>2
<1> QED BY <1>1, <1>5, <1>6, <1>7 DEF Last

LEMMA VisitWalks == WalkInv /\ Visit => WalkInv'
<1> SUFFICES ASSUME WalkInv, Visit PROVE WalkInv'
  OBVIOUS
<1> USE DEF WalkInv
<1> DEFINE n == Len(open)
<1>1. open # <<>> /\ roots' = roots
  BY DEF Visit
<1>2. PICK e \in Last(open).left :
        LET path == Last(open).dir \o <<e>> IN
        IF path \in Files
          THEN AddFirst(path) /\ open' = Without(e)
          ELSE open' = Append(Without(e), Opened(path)) /\ UNCHANGED filepathCache
  BY DEF Visit
<1> DEFINE w == Without(e)
           dir == open[n].dir
<1>3. /\ n \in Nat \ {0} /\ Last(open) = open[n] /\ w \in Seq(Levels) /\ Len(w) = n
      /\ \A d \in 1..n :
           /\ w[d].dir = open[d].dir
           /\ w[d].left = IF d = n THEN open[d].left \ {e} ELSE open[d].left
  BY <1>1, WithoutIs
<1> HIDE DEF w
<1>4. n \in 1..n /\ open[n] \in Levels
  BY <1>3, ElementOfSeq DEF WalkTypes
<1>5. dir \in Dirs /\ e \in DOMAIN Stem
  BY <1>2, <1>3, <1>4 DEF Levels
<1>6. PICK b \in 1..Len(Roots) : b = Begun /\ Begun' = b
  <2>1. Begun \in 0..Len(Roots) /\ Begun > 0
    BY <1>1, BegunFacts DEF OpenBelow
  <2>2. Begun \in 1..Len(Roots)
    BY <2>1, RootFacts
  <2>3. Begun' = Begun
    BY <1>1 DEF Begun
  <2> QED BY <2>2, <2>3
<1>7. PICK path \in Dirs : path = dir \o <<e>> /\ Starts(Roots[b], path)
  <2>1. Starts(Roots[b], dir)
    BY <1>4, <1>6 DEF OpenBelow
  <2> DEFINE p == dir \o <<e>>
  <2>2. p \in Dirs /\ Starts(Roots[b], p)
    BY <1>5, <2>1, RootFacts, Deeper, StartsDeeper DEF Dirs
  <2> HIDE DEF p
  <2>3. PICK path \in Dirs : path = p
    BY <2>2
  <2> QED BY <2>2, <2>3 DEF p
<1> HIDE DEF dir
<1>8. RootsLeft'
  BY <1>1, <1>6 DEF RootsLeft
\* What was ahead and is not below this entry is still ahead.
<1>9. ASSUME NEW f \in Files, NEW d \in 1..n, Ahead(open[d], f), ~Starts(path, f)
      PROVE  Ahead(w[d], f)
  <2>1. PICK x \in open[d].left : Starts(open[d].dir \o <<x>>, f)
    BY <1>9 DEF Ahead
  <2>2. d = n => x # e
    BY <1>7, <1>9, <2>1 DEF dir
  <2>3. x \in w[d].left
    BY <1>3, <2>1, <2>2
  <2> QED BY <1>3, <2>1, <2>3 DEF Ahead
<1>10. CASE path \in Files
  <2>1. AddFirst(path) /\ open' = w
    BY <1>2, <1>3, <1>7, <1>10 DEF w, dir
  <2>2. /\ filepathCache' \in [Stems -> Files \cup {nil}]
        /\ \A s \in Stems : filepathCache'[s] # nil =>
             Stem[Last(filepathCache'[s])] = s /\ Below(filepathCache'[s], b)
        /\ \A g \in Files, i \in 1..b : Stem[Last(g)] # nil /\ Found(g, i) => Found(g, i)'
        /\ Stem[Last(path)] # nil => Found(path, b)'
    <3>1. Starts(Roots[b], path)
      BY <1>6, <1>7
    <3> QED BY <1>6, <1>10, <2>1, <3>1, AddFirstKeeps, Zenon
  <2>3. WalkTypes'
    BY <1>1, <1>3, <2>1, <2>2 DEF WalkTypes
  <2>4. OpenBelow'
    <3>1. ASSUME NEW d \in 1..n PROVE Starts(Roots[b], w[d].dir)
      BY <1>3, <1>6 DEF OpenBelow
    <3> QED BY <1>3, <1>6, <2>1, <3>1 DEF OpenBelow
  <2>5. Cached'
    BY <1>6, <2>2 DEF Cached
  <2>6. Complete'
    <3> SUFFICES ASSUME NEW f \in Files, NEW i \in 1..b, Stem[Last(f)] # nil, Starts(Roots[i], f)
                 PROVE  Found(f, i)' \/ (i = b /\ Pending(f)')
      BY <1>6 DEF Complete
    <3>1. CASE Found(f, i)
      BY <2>2, <3>1
    <3>2. CASE i = b /\ Pending(f)
      <4>1. PICK d \in 1..n : Ahead(open[d], f)
        BY <3>2 DEF Pending
      <4>2. CASE Starts(path, f)
        <5>1. path = f
          BY <1>10, <4>2, FilesAreLeaves
        <5>2. Found(path, b)'
          BY <2>2, <5>1
        <5>3. Found(f, i)'
          BY <1>6, <3>2, <5>1, <5>2 DEF Found
        <5> QED BY <5>3
      <4>3. CASE ~Starts(path, f)
        <5>1. Ahead(w[d], f)
          BY <1>9, <4>1, <4>3
        <5>2. Pending(f)'
          BY <1>3, <2>1, <5>1 DEF Pending
        <5> QED BY <3>2, <5>2
      <4> QED BY <4>2, <4>3
    <3> QED BY <1>6, <3>1, <3>2 DEF Complete
  <2> QED BY <1>8, <2>3, <2>4, <2>5, <2>6
<1>11. CASE path \notin Files
  <2> DEFINE o == Opened(path)
  <2>1. open' = Append(w, o) /\ filepathCache' = filepathCache
    BY <1>2, <1>3, <1>7, <1>11 DEF w, dir
  <2>2. o \in Levels /\ \A f \in Files : Starts(path, f) /\ path # f => Ahead(o, f)
    BY <1>7, OpenedHas
  <2>3. o.dir = path
    BY DEF Opened
  <2> HIDE DEF o
  <2>4. /\ open' \in Seq(Levels) /\ Len(open') = n + 1 /\ open'[n + 1] = o
        /\ \A d \in 1..n : open'[d] = w[d]
    BY <1>3, <2>1, <2>2, AppendProperties
  <2>5. WalkTypes'
    BY <1>1, <2>1, <2>4 DEF WalkTypes
  <2>6. OpenBelow'
    <3>1. ASSUME NEW d \in 1..(n + 1) PROVE Starts(Roots[b], open'[d].dir)
      <4>1. d = n + 1 \/ d \in 1..n
        BY <1>3
      <4>2. CASE d = n + 1
        BY <1>7, <2>3, <2>4, <4>2
      <4>3. CASE d \in 1..n
        BY <1>3, <1>6, <2>4, <4>3 DEF OpenBelow
      <4> QED BY <4>1, <4>2, <4>3
    <3> QED BY <1>6, <2>4, <3>1 DEF OpenBelow
  <2>7. Cached'
    BY <1>6, <2>1 DEF Cached
  <2>8. Complete'
    <3> SUFFICES ASSUME NEW f \in Files, NEW i \in 1..b, Stem[Last(f)] # nil, Starts(Roots[i], f)
                 PROVE  Found(f, i)' \/ (i = b /\ Pending(f)')
      BY <1>6 DEF Complete
    <3>1. CASE Found(f, i)
      BY <2>1, <3>1 DEF Found
    <3>2. CASE i = b /\ Pending(f)
      <4>1. PICK d \in 1..n : Ahead(open[d], f)
        BY <3>2 DEF Pending
      <4>2. n + 1 \in 1..(n + 1) /\ d \in 1..(n + 1)
        BY <1>3
      <4>3. CASE Starts(path, f)
        <5>1. Ahead(open'[n + 1], f)
          BY <1>11, <2>2, <2>4, <4>3
        <5>2. Pending(f)'
          BY <2>4, <4>2, <5>1 DEF Pending
        <5> QED BY <3>2, <5>2
      <4>4. CASE ~Starts(path, f)
        <5>1. Ahead(open'[d], f)
          BY <1>9, <2>4, <4>1, <4>4
        <5>2. Pending(f)'
          BY <2>4, <4>2, <5>1 DEF Pending
        <5> QED BY <3>2, <5>2
      <4> QED BY <4>3, <4>4
    <3> QED BY <1>6, <3>1, <3>2 DEF Complete
  <2> QED BY <1>8, <2>5, <2>6, <2>7, <2>8
<1> QED BY <1>10, <1>11

LEMMA LeaveWalks == WalkInv /\ Leave => WalkInv'
<1> SUFFICES ASSUME WalkInv, Leave PROVE WalkInv'
  OBVIOUS
<1> USE DEF WalkInv
<1>1. /\ open # <<>> /\ Last(open).left = {} /\ open' = Front(open)
      /\ roots' = roots /\ filepathCache' = filepathCache
  BY DEF Leave
<1>2. PICK n \in Nat : n + 1 = Len(open)
  <2>1. Len(open) \in Nat \ {0}
    BY <1>1, EmptySeq DEF WalkTypes
  <2>2. Len(open) - 1 \in Nat /\ (Len(open) - 1) + 1 = Len(open)
    BY <2>1
  <2> QED BY <2>2
<1>3. /\ open' \in Seq(Levels) /\ Len(open') = n
      /\ \A d \in 1..n : open'[d] = open[d] /\ d \in 1..(n + 1)
  <2>1. open' = SubSeq(open, 1, n)
    BY <1>1, <1>2 DEF Front
  <2>2. \A i \in 1..n : open[i] \in Levels
    BY <1>2, ElementOfSeq DEF WalkTypes
  <2> DEFINE q == SubSeq(open, 1, n)
  <2>3. /\ q \in Seq(Levels) /\ Len(q) = (IF 1 <= n THEN n - 1 + 1 ELSE 0)
        /\ \A i \in 1..(n - 1 + 1) : q[i] = open[1 + i - 1]
    BY <2>2, SubSeqProperties
  <2> HIDE DEF q
  <2>4. (IF 1 <= n THEN n - 1 + 1 ELSE 0) = n /\ n - 1 + 1 = n /\ \A i \in 1..n : 1 + i - 1 = i
    OBVIOUS
  <2> QED BY <2>1, <2>3, <2>4 DEF q
<1>4. WalkTypes'
  BY <1>1, <1>3 DEF WalkTypes
<1>5. Begun' = Begun
  BY <1>1 DEF Begun
<1>6. RootsLeft' /\ Cached'
  BY <1>1, <1>5 DEF RootsLeft, Cached
<1>7. OpenBelow'
  BY <1>1, <1>2, <1>3, <1>5 DEF OpenBelow
<1>8. Complete'
  <2> SUFFICES ASSUME NEW f \in Files, NEW i \in 1..Begun, Stem[Last(f)] # nil, Starts(Roots[i], f)
               PROVE  Found(f, i)' \/ (i = Begun /\ Pending(f)')
    BY <1>5 DEF Complete
  <2>1. CASE Found(f, i)
    BY <1>1, <2>1 DEF Found
  <2>2. CASE i = Begun /\ Pending(f)
    <3>1. PICK d \in 1..Len(open) : Ahead(open[d], f)
      BY <2>2 DEF Pending
    <3>2. d # n + 1
      BY <1>1, <1>2, <3>1 DEF Ahead, Last
    <3>3. d \in 1..n
      BY <1>2, <3>1, <3>2
    <3>4. Pending(f)'
      BY <1>3, <3>1, <3>3 DEF Pending
    <3> QED BY <2>2, <3>4
  <2> QED BY <2>1, <2>2 DEF Complete
<1> QED BY <1>4, <1>6, <1>7, <1>8

LEMMA WalkUnchanged == WalkInv /\ UNCHANGED lookupVars => WalkInv'
<1> SUFFICES ASSUME WalkInv, UNCHANGED lookupVars PROVE WalkInv'
  OBVIOUS
<1>1. roots' = roots /\ open' = open /\ filepathCache' = filepathCache
  BY DEF lookupVars
<1> QED BY <1>1 DEF WalkInv, WalkTypes, RootsLeft, OpenBelow, Cached, Complete, Begun, Found, Pending

LEMMA WalkNext == WalkInv /\ [Next]_vars => WalkInv'
<1> SUFFICES ASSUME WalkInv, [Next]_vars PROVE WalkInv'
  OBVIOUS
<1>1. CASE NextRoot
  BY <1>1, NextRootWalks
<1>2. CASE Visit
  BY <1>2, VisitWalks
<1>3. CASE Leave
  BY <1>3, LeaveWalks
<1>4. ASSUME NEW f \in Files, NEW lines \in SUBSET Lines, setBreakpoints(f, lines) PROVE WalkInv'
  BY <1>4, WalkUnchanged DEF setBreakpoints
<1>5. ASSUME NEW c \in Chunks, NEW l \in Lines, Line(c, l) PROVE WalkInv'
  BY <1>5, WalkUnchanged DEF Line
<1>6. CASE UNCHANGED vars
  BY <1>6, WalkUnchanged DEF vars
<1> QED BY <1>1, <1>2, <1>3, <1>4, <1>5, <1>6 DEF Next

\* At the end nothing is ahead.
LEMMA LookupIsComplete ==
  ASSUME WalkInv, Ready, NEW f \in Files, NEW i \in 1..Len(Roots),
         Stem[Last(f)] # nil, Starts(Roots[i], f)
  PROVE  Found(f, i)
<1>1. Len(roots) = 0 /\ Len(open) = 0
  BY EmptySeq DEF Ready
<1>2. Begun = Len(Roots)
  BY <1>1, RootFacts DEF Begun
<1>3. ~Pending(f)
  BY <1>1 DEF Pending
<1> QED BY <1>2, <1>3 DEF WalkInv, Complete

\* BuildLookup, for any tree of files and any order of the entries: every file that
\* has a bare name is found under it or gives way to one of the same or an earlier
\* root.
THEOREM EarlierRootsWin == Spec => []EarlierRootsFirst
<1>1. WalkInv => EarlierRootsFirst
  <2> SUFFICES ASSUME WalkInv, Ready, NEW f \in Files, NEW i \in 1..Len(Roots),
                      Stem[Last(f)] # nil, IsPrefix(Roots[i], f)
               PROVE  \E j \in 1..i : filepathCache[Stem[Last(f)]] # nil
                                      /\ IsPrefix(Roots[j], filepathCache[Stem[Last(f)]])
    BY DEF EarlierRootsFirst
  <2> DEFINE g == filepathCache[Stem[Last(f)]]
  <2>1. f \in Dirs /\ Roots[i] \in Dirs /\ Stem[Last(f)] \in Stems
    BY FileFacts, RootFacts
  <2>2. Starts(Roots[i], f)
    BY <2>1, PrefixIs DEF Dirs
  <2>3. Found(f, i)
    BY <2>2, LookupIsComplete
  <2>4. PICK j \in 1..i : g # nil /\ Starts(Roots[j], g)
    BY <2>3 DEF Found, Below
  <2>5. g \in Dirs
    BY <2>1, <2>4, FileFacts DEF WalkInv, WalkTypes
  <2>6. Roots[j] \in Dirs
    <3>1. j \in 1..Len(Roots)
      BY RootFacts
    <3> QED BY <3>1, RootFacts
  <2>7. IsPrefix(Roots[j], g)
    BY <2>4, <2>5, <2>6, PrefixIs DEF Dirs
  <2> QED BY <2>4, <2>7
<1> QED BY <1>1, WalkInit, WalkNext, PTL DEF Spec

-----------------------------------------------------------------------------
(* The breaker: names, keys and paths.                                      *)

All == Names \cup Stems \cup {"@"}

LEMMA LastOfJoined ==
  ASSUME NEW S, NEW a \in Seq(S), NEW b \in Seq(S), b # <<>>
  PROVE  /\ a \o b \in Seq(S) /\ a \o b # <<>> /\ Last(a \o b) = Last(b)
         /\ Len(a \o b) = Len(a) + Len(b)
<1> DEFINE c == a \o b
<1>1. Len(a) \in Nat /\ Len(b) \in Nat \ {0}
  BY LenProperties, EmptySeq
<1>2. /\ c \in Seq(S) /\ Len(c) = Len(a) + Len(b)
      /\ \A i \in 1..(Len(a) + Len(b)) : c[i] = IF i <= Len(a) THEN a[i] ELSE b[i - Len(a)]
  BY ConcatProperties
<1> HIDE DEF c
<1>3. /\ Len(a) + Len(b) \in 1..(Len(a) + Len(b)) /\ ~(Len(a) + Len(b) <= Len(a))
      /\ Len(a) + Len(b) - Len(a) = Len(b) /\ Len(a) + Len(b) # 0
  BY <1>1
<1>4. c[Len(c)] = b[Len(b)] /\ c # <<>>
  BY <1>2, <1>3, EmptySeq
<1> QED BY <1>2, <1>4 DEF c, Last

LEMMA AllFacts ==
  /\ Base \in Seq(All)
  /\ \A f \in Files : f \in Seq(All)
  /\ <<"@">> \in Seq(All) /\ \A s \in Stems : <<s>> \in Seq(All) /\ <<s>> # <<>> /\ Last(<<s>>) = s
<1>1. Base \in Seq(All)
  BY BaseAssumption DEF BaseAssumption, All, Names
<1>2. \A f \in Files : f \in Seq(All)
  BY FilesAssumption DEF FilesAssumption, All, Names
<1>3. <<"@">> \in Seq(All) /\ \A s \in Stems : <<s>> \in Seq(All)
  BY DEF All
<1>4. \A s \in Stems : <<s>> # <<>> /\ Last(<<s>>) = s
  BY DEF Last
<1> QED BY <1>1, <1>2, <1>3, <1>4

LEMMA PathFacts ==
  ASSUME NEW f \in Files
  PROVE  /\ Path(f) \in Seq(All) /\ Path(f) # <<>> /\ Last(Path(f)) = Last(f)
         /\ Path(f) \in Paths /\ Path(f) # nil /\ Len(Path(f)) \in Nat \ {0}
<1>1. f \in Seq(All) /\ f # <<>>
  BY FileFacts, AllFacts
<1>2. Path(f) \in Seq(All) /\ Path(f) # <<>> /\ Last(Path(f)) = Last(f)
  BY <1>1, AllFacts, LastOfJoined DEF Path
<1>3. Path(f) \in Paths
  BY DEF Paths
<1>4. Path(f) # nil
  BY NilAssumption DEF NilAssumption, Path
<1>5. Len(Path(f)) \in Nat \ {0}
  BY <1>2, EmptySeq
<1> QED BY <1>2, <1>3, <1>4, <1>5

\* What a file is found as has a directory and a name.
LEMMA CachedIsDeep ==
  ASSUME WalkInv, NEW s \in Stems, filepathCache[s] # nil
  PROVE  filepathCache[s] \in Files /\ Len(filepathCache[s]) > 1
<1>1. PICK f \in Files : f = filepathCache[s]
  BY DEF WalkInv, WalkTypes
<1>2. PICK j \in 1..Begun : Starts(Roots[j], f)
  BY <1>1 DEF WalkInv, Cached, Below
<1>3. j \in 1..Len(Roots)
  BY <1>2, BegunFacts, RootFacts DEF WalkInv
<1>4. Roots[j] \in Dirs /\ Roots[j] # <<>> /\ Roots[j] # f /\ f \in Dirs
  BY <1>3, RootFacts, FileFacts
<1>5. Len(f) > Len(Roots[j]) /\ Len(f) \in Nat
  BY <1>2, <1>4, EntryBelow, LenProperties DEF Dirs
<1>6. Len(Roots[j]) \in Nat \ {0}
  BY <1>4, EmptySeq DEF Dirs
<1>7. Len(f) > 1
  BY <1>5, <1>6
<1> QED BY <1>1, <1>7

LEMMA KeyFacts ==
  ASSUME WalkInv, NEW c \in Chunks
  PROVE  /\ Source(c) \in Keys /\ Key(c) \in Keys /\ Name(c) \in Seq(All) /\ Name(c) # <<>>
         /\ Last(Key(c)) = Last(Name(c))
         /\ \A s \in Stems : filepathCache[s] # nil => Key(c) # <<s>>
<1>1. c.file \in Files /\ c.at \in BOOLEAN /\ (c.at \/ Stem[Last(c.file)] \in Stems)
  BY ChunksAssumption, FileFacts DEF ChunksAssumption
<1>2. Source(c) \in Keys
  BY DEF Keys
<1>3. \A s : Len(<<s>>) = 1
  OBVIOUS
<1>4. CASE c.at
  <2>1. Key(c) = <<"@">> \o Path(c.file) /\ Name(c) = Path(c.file) /\ Key(c) = Source(c)
    BY <1>4 DEF Key, Source, Name
  <2>2. Last(Key(c)) = Last(Name(c)) /\ Len(Key(c)) = 1 + Len(Path(c.file))
    <3> DEFINE at == <<"@">>
               q == Path(c.file)
    <3>1. at \in Seq(All) /\ Len(at) = 1 /\ q \in Seq(All) /\ q # <<>>
      BY <1>1, AllFacts, PathFacts
    <3> HIDE DEF at, q
    <3>2. Last(at \o q) = Last(q) /\ Len(at \o q) = 1 + Len(q)
      BY <3>1, LastOfJoined
    <3> QED BY <2>1, <3>2 DEF at, q
  <2>3. Len(Key(c)) # 1
    BY <1>1, <2>2, PathFacts
  <2> QED BY <1>1, <1>2, <1>3, <2>1, <2>2, <2>3, PathFacts
<1>5. CASE ~c.at
  <2> DEFINE t == Stem[Last(c.file)]
  <2>1. t \in Stems /\ Key(c) = ResolveChunkPath(t) /\ Name(c) = Key(c) /\ Source(c) = <<t>>
    BY <1>1, <1>5 DEF Key, Source, Name
  <2>2. CASE filepathCache[t] # nil
    <3>1. Key(c) = filepathCache[t]
      BY <2>1, <2>2 DEF ResolveChunkPath
    <3>2. Key(c) \in Files /\ Len(Key(c)) > 1
      BY <2>1, <2>2, <3>1, CachedIsDeep
    <3>3. ~(1 > 1)
      OBVIOUS
    <3>4. \A s \in Stems : Key(c) # <<s>>
      BY <1>3, <3>2, <3>3
    <3> QED BY <1>2, <2>1, <3>2, <3>4, AllFacts, FileFacts DEF Keys
  <2>3. CASE filepathCache[t] = nil
    <3>1. Key(c) = <<t>>
      BY <2>1, <2>3 DEF ResolveChunkPath
    <3>2. \A s \in Stems : Key(c) = <<s>> => s = t
      BY <3>1
    <3> QED BY <1>2, <2>1, <2>3, <3>1, <3>2, AllFacts
  <2> QED BY <2>2, <2>3
<1> QED BY <1>1, <1>4, <1>5

LEMMA SimilarFacts ==
  ASSUME NEW name \in Seq(All), name # <<>>
  PROVE  \A p \in Similar(name) : p \in Known /\ Last(p) = Last(name)
<1> SUFFICES ASSUME NEW p \in Similar(name) PROVE p \in Known /\ Last(p) = Last(name)
  OBVIOUS
<1>1. p \in Known /\ getMatchCount(name, p) > 0
  BY DEF Similar
<1>2. PICK f \in Files : p = Path(f)
  BY <1>1 DEF Known, Paths
<1>3. Last(name) = Last(p)
  BY <1>1, <1>2, PathFacts, MatchLast
<1> QED BY <1>1, <1>3

LEMMA CountIsNatural ==
  ASSUME NEW name \in Seq(All), NEW p \in Known
  PROVE  getMatchCount(name, p) \in Nat
<1>1. PICK f \in Files : p = Path(f)
  BY DEF Known, Paths
<1>2. Len(name) \in Nat
  BY LenProperties
<1>3. getMatchCount(name, p) \in 0..Len(name)
  BY <1>1, PathFacts, MatchCount
<1> QED BY <1>2, <1>3

\* A name that ends as only one path does is matched with that, and only with that.
LEMMA OnlyItsOwn ==
  ASSUME NEW name \in Seq(All), name # <<>>, NEW f \in Files, Last(name) = Last(f),
         \A g \in Files \ {f} : Last(g) # Last(f)
  PROVE  /\ \A p \in Similar(name) : p = Path(f)
         /\ Path(f) \in Known => Path(f) \in Similar(name)
<1>1. \A p \in Known : Last(p) = Last(name) => p = Path(f)
  <2> SUFFICES ASSUME NEW p \in Known, Last(p) = Last(name) PROVE p = Path(f)
    OBVIOUS
  <2>1. PICK g \in Files : p = Path(g)
    BY DEF Known, Paths
  <2>2. Last(g) = Last(f)
    BY <2>1, PathFacts
  <2> QED BY <2>1, <2>2
<1>2. \A p \in Similar(name) : p = Path(f)
  BY <1>1, SimilarFacts
<1>3. ASSUME Path(f) \in Known PROVE Path(f) \in Similar(name)
  <2>1. getMatchCount(name, Path(f)) > 0
    BY PathFacts, MatchLast
  <2>2. ASSUME NEW q \in Known PROVE getMatchCount(name, q) <= getMatchCount(name, Path(f))
    <3>1. getMatchCount(name, q) \in Nat /\ getMatchCount(name, Path(f)) \in Nat
      BY <1>3, CountIsNatural
    <3>2. CASE q = Path(f)
      BY <3>1, <3>2
    <3>3. CASE q # Path(f)
      <4>1. Last(q) # Last(name)
        BY <1>1, <3>3
      <4>2. PICK g \in Files : q = Path(g)
        BY DEF Known, Paths
      <4>3. ~(getMatchCount(name, q) > 0)
        BY <4>1, <4>2, PathFacts, MatchLast
      <4> QED BY <2>1, <3>1, <4>3
    <3> QED BY <3>2, <3>3
  <2> QED BY <1>3, <2>1, <2>2 DEF Similar
<1> QED BY <1>2, <1>3

\* A path that has all of the name is matched with it, when no other has.
LEMMA AllOfIt ==
  ASSUME NEW f \in Files, Alone(f), Path(f) \in Known
  PROVE  Similar(f) = {Path(f)}
<1> DEFINE count(p) == getMatchCount(f, p)
<1>1. f \in Seq(All) /\ Len(f) \in Nat \ {0}
  BY FileFacts, AllFacts
<1>2. count(Path(f)) = Len(f)
  BY <1>1, AllFacts, MatchAll DEF Path
<1>3. \A p \in Known : p # Path(f) => count(p) < Len(f)
  BY DEF Known, Paths, Alone
<1>4. \A p \in Known : count(p) \in Nat
  BY <1>1, CountIsNatural
<1> HIDE DEF count
<1>5. \A p \in Known : count(p) <= Len(f)
  BY <1>1, <1>2, <1>3, <1>4
<1>6. Path(f) \in Similar(f)
  BY <1>1, <1>2, <1>5 DEF Similar, count
<1>7. ASSUME NEW p \in Similar(f) PROVE p = Path(f)
  <2>1. p \in Known /\ count(Path(f)) <= count(p)
    BY DEF Similar, count
  <2> QED BY <1>1, <1>2, <1>3, <1>4, <2>1
<1> QED BY <1>6, <1>7

-----------------------------------------------------------------------------
(* The breaker: what is remembered of the names that were matched.          *)

MatchTypes ==
  /\ breakpointsPerPath \in [Paths -> (SUBSET Lines) \cup {nil}]
  /\ chunknameToPathCache \in [Keys -> Paths \cup {nil}]
  /\ last \in [chunk : Chunks, line : Lines, stopped : BOOLEAN] \cup {NoEvent}
NotYet == ~Ready => last = NoEvent /\ \A k \in Keys : chunknameToPathCache[k] = nil
Remembered ==
  \A k \in Keys : chunknameToPathCache[k] # nil =>
    chunknameToPathCache[k] \in Known /\ Last(chunknameToPathCache[k]) = Last(k)

\* A result is stored under the file that the lookup has, so the bare name of that
\* file is matched again at each line.
NotByStem ==
  \A s \in Stems : <<s>> \in Keys /\ filepathCache[s] # nil => chunknameToPathCache[<<s>>] = nil
MatchInv == MatchTypes /\ NotYet /\ Remembered /\ NotByStem

LEMMA MatchInit == Init => MatchInv /\ ExactStops /\ LookupTellsApart
<1> SUFFICES ASSUME Init PROVE MatchInv /\ ExactStops /\ LookupTellsApart
  OBVIOUS
<1>1. /\ breakpointsPerPath = [p \in Paths |-> nil] /\ chunknameToPathCache = [k \in Keys |-> nil]
      /\ last = NoEvent
  BY DEF Init
<1>2. \A k \in Keys : chunknameToPathCache[k] = nil
  BY <1>1
<1>3. MatchTypes
  BY <1>1 DEF MatchTypes
<1> QED BY <1>1, <1>2, <1>3 DEF MatchInv, NotYet, Remembered, NotByStem, ExactStops, LookupTellsApart

\* While the lookup is being built nothing is matched.
LEMMA MatchWalk ==
  ASSUME MatchInv, ~Ready, UNCHANGED <<breakpointsPerPath, chunknameToPathCache, last>>
  PROVE  MatchInv' /\ ExactStops' /\ LookupTellsApart'
<1>1. /\ breakpointsPerPath' = breakpointsPerPath /\ chunknameToPathCache' = chunknameToPathCache
      /\ last' = last /\ last = NoEvent /\ \A k \in Keys : chunknameToPathCache[k] = nil
  BY DEF MatchInv, NotYet
<1>2. MatchTypes'
  BY <1>1 DEF MatchInv, MatchTypes
<1> QED BY <1>1, <1>2 DEF MatchInv, NotYet, Remembered, NotByStem, ExactStops, LookupTellsApart

LEMMA MatchUnchanged ==
  MatchInv /\ ExactStops /\ LookupTellsApart /\ UNCHANGED vars =>
    MatchInv' /\ ExactStops' /\ LookupTellsApart'
<1> SUFFICES ASSUME MatchInv, ExactStops, LookupTellsApart, UNCHANGED vars
             PROVE  MatchInv' /\ ExactStops' /\ LookupTellsApart'
  OBVIOUS
<1>1. /\ roots' = roots /\ open' = open /\ filepathCache' = filepathCache /\ last' = last
      /\ breakpointsPerPath' = breakpointsPerPath /\ chunknameToPathCache' = chunknameToPathCache
  BY DEF vars, lookupVars
<1>2. MatchInv'
  BY <1>1 DEF MatchInv, MatchTypes, NotYet, Remembered, NotByStem, Ready, Known
<1>3. ExactStops'
  BY <1>1 DEF ExactStops, BreakpointAt
<1>4. LookupTellsApart'
  BY <1>1 DEF LookupTellsApart, BreakpointAt, Name, ResolveChunkPath
<1> QED BY <1>2, <1>3, <1>4

\* Breakpoints are replaced, a path that had some is never without a table again.
LEMMA MatchSet ==
  ASSUME MatchInv, NEW f \in Files, NEW lines \in SUBSET Lines, setBreakpoints(f, lines)
  PROVE  MatchInv' /\ ExactStops' /\ LookupTellsApart'
<1>1. /\ Ready /\ roots' = roots /\ open' = open /\ filepathCache' = filepathCache
      /\ last' = NoEvent /\ chunknameToPathCache' = chunknameToPathCache
      /\ breakpointsPerPath' = [breakpointsPerPath EXCEPT ![Path(f)] = lines]
  BY DEF setBreakpoints, Replace, lookupVars
<1>2. lines # nil
  BY NilAssumption DEF NilAssumption
<1>3. MatchTypes'
  BY <1>1 DEF MatchInv, MatchTypes
<1>4. \A p \in Known : p \in Known'
  BY <1>1, <1>2 DEF Known, MatchInv, MatchTypes
<1>5. NotYet' /\ Remembered' /\ NotByStem'
  BY <1>1, <1>4 DEF MatchInv, NotYet, Remembered, NotByStem, Ready
<1> QED BY <1>1, <1>3, <1>5 DEF MatchInv, ExactStops, LookupTellsApart

\* A line event takes the path that is remembered for the chunk's name, or looks for
\* one and remembers it.
LEMMA MatchesFacts ==
  ASSUME WalkInv, MatchInv, NEW c \in Chunks
  PROVE  /\ \A p \in Matches(c) : p \in Known
         /\ chunknameToPathCache[Source(c)] = nil =>
              \A p \in Matches(c) : p \in Known /\ Last(p) = Last(Key(c))
<1>1. /\ Source(c) \in Keys /\ Name(c) \in Seq(All) /\ Name(c) # <<>> /\ Last(Key(c)) = Last(Name(c))
  BY KeyFacts
<1>2. CASE chunknameToPathCache[Source(c)] # nil
  BY <1>1, <1>2 DEF Matches, MatchInv, Remembered
<1>3. CASE chunknameToPathCache[Source(c)] = nil
  <2>1. \A p \in Matches(c) : p \in Known /\ Last(p) = Last(Name(c))
    BY <1>1, <1>3, SimilarFacts DEF Matches
  <2> QED BY <1>1, <2>1
<1> QED BY <1>2, <1>3

\* The chunk of a file with a name of its own is matched with that file.
LEMMA MatchesItsOwn ==
  ASSUME WalkInv, MatchInv, Ready, NEW c \in Chunks, Unmistakable(c)
  PROVE  /\ \A p \in Matches(c) : p = Path(c.file)
         /\ Path(c.file) \in Known => Path(c.file) \in Matches(c)
<1> DEFINE f == c.file
<1>1. f \in Files /\ c.at \in BOOLEAN /\ (c.at \/ Stem[Last(f)] # nil)
  BY ChunksAssumption DEF ChunksAssumption
<1>2. \A g \in Files \ {f} : Last(g) # Last(f)
  BY DEF Unmistakable, SameName
<1>3. Source(c) \in Keys /\ Name(c) \in Seq(All) /\ Name(c) # <<>>
  BY KeyFacts
<1>4. CASE c.at
  <2>1. Name(c) = Path(f) /\ Key(c) = Source(c)
    BY <1>4 DEF Name, Key
  <2>2. Last(Name(c)) = Last(f) /\ Last(Key(c)) = Last(Name(c))
    BY <1>1, <2>1, PathFacts, KeyFacts
  <2>3. CASE chunknameToPathCache[Source(c)] = nil
    <3>1. Matches(c) = Similar(Name(c))
      BY <2>3 DEF Matches
    <3> QED BY <1>1, <1>2, <1>3, <2>2, <3>1, OnlyItsOwn
  <2>4. CASE chunknameToPathCache[Source(c)] # nil
    <3>1. PICK p \in Known : p = chunknameToPathCache[Source(c)] /\ Last(p) = Last(f)
      BY <1>3, <2>1, <2>2, <2>4 DEF MatchInv, Remembered
    <3>2. PICK g \in Files : p = Path(g)
      BY DEF Known, Paths
    <3>3. g = f
      BY <1>2, <3>1, <3>2, PathFacts
    <3>4. Matches(c) = {Path(f)}
      BY <2>4, <3>1, <3>2, <3>3 DEF Matches
    <3> QED BY <3>4
  <2> QED BY <2>3, <2>4
<1>5. CASE ~c.at
  <2> DEFINE s == Stem[Last(f)]
  <2>1. s # nil /\ s \in Stems /\ Source(c) = <<s>> /\ Name(c) = ResolveChunkPath(s)
    BY <1>1, <1>5, FileFacts DEF Source, Name
  <2>2. PICK i \in 1..Len(Roots) : Starts(Roots[i], f)
    <3>1. PICK i \in 1..Len(Roots) : IsPrefix(Roots[i], f)
      BY <1>5 DEF Unmistakable, Listed
    <3>2. Starts(Roots[i], f)
      BY <1>1, <3>1, FileFacts, RootFacts, PrefixIs DEF Dirs
    <3> QED BY <3>2
  <2>3. Found(f, i)
    BY <1>1, <2>1, <2>2, LookupIsComplete
  <2>4. filepathCache[s] # nil /\ filepathCache[s] \in Files /\ Stem[Last(filepathCache[s])] = s
    BY <2>1, <2>3, CachedIsDeep DEF Found, WalkInv, Cached
  <2>5. filepathCache[s] = f
    BY <2>1, <2>4 DEF Unmistakable, SameName
  <2>6. Name(c) = f /\ chunknameToPathCache[Source(c)] = nil
    BY <1>3, <2>1, <2>4, <2>5 DEF ResolveChunkPath, MatchInv, NotByStem
  <2>7. Matches(c) = Similar(Name(c))
    BY <2>6 DEF Matches
  <2> QED BY <1>1, <1>2, <1>3, <2>6, <2>7, OnlyItsOwn
<1> QED BY <1>1, <1>4, <1>5

LEMMA MatchLine ==
  ASSUME WalkInv, MatchInv, NEW c \in Chunks, NEW l \in Lines, Line(c, l)
  PROVE  MatchInv' /\ ExactStops' /\ LookupTellsApart'
<1>1. /\ Ready /\ roots' = roots /\ open' = open /\ filepathCache' = filepathCache
      /\ breakpointsPerPath' = breakpointsPerPath /\ Known' = Known
  BY DEF Line, lookupVars, Known
<1>2. Source(c) \in Keys /\ Key(c) \in Keys /\ \A s \in Stems : filepathCache[s] # nil => Key(c) # <<s>>
  BY KeyFacts
<1>3. \/ Matches(c) = {} /\ last' = [chunk |-> c, line |-> l, stopped |-> FALSE]
      \/ \E p \in Matches(c) : last' = [chunk |-> c, line |-> l, stopped |-> l \in breakpointsPerPath[p]]
  BY DEF Line
<1>4. last' # NoEvent /\ last'.chunk = c /\ last'.line = l /\ last' \in [chunk : Chunks, line : Lines, stopped : BOOLEAN]
  <2>1. PICK stopped \in BOOLEAN : last' = [chunk |-> c, line |-> l, stopped |-> stopped]
    <3>1. CASE Matches(c) = {}
      BY <1>3, <3>1
    <3>2. CASE Matches(c) # {}
      <4>1. PICK p \in Matches(c) : last' = [chunk |-> c, line |-> l, stopped |-> l \in breakpointsPerPath[p]]
        BY <1>3, <3>2
      <4>2. (l \in breakpointsPerPath[p]) \in BOOLEAN
        OBVIOUS
      <4> QED BY <4>1, <4>2
    <3> QED BY <3>1, <3>2
  <2>2. last' \in [chunk : Chunks, line : Lines, stopped : BOOLEAN] /\ last'.chunk = c /\ last'.line = l
    BY <2>1
  <2>3. c # nil /\ NoEvent.chunk = nil
    BY NilAssumption DEF NilAssumption, NoEvent
  <2> QED BY <2>2, <2>3
<1>5. MatchInv'
  <2>1. CASE chunknameToPathCache' = chunknameToPathCache
    BY <1>1, <1>4, <2>1 DEF MatchInv, MatchTypes, NotYet, Remembered, NotByStem, Ready
  <2>2. CASE chunknameToPathCache' # chunknameToPathCache
    <3>1. PICK p \in Matches(c) :
            /\ chunknameToPathCache[Source(c)] = nil
            /\ chunknameToPathCache' = [chunknameToPathCache EXCEPT ![Key(c)] = p]
      BY <2>2 DEF Line
    <3>2. p \in Known /\ Last(p) = Last(Key(c)) /\ p \in Paths
      BY <3>1, MatchesFacts DEF Known
    <3>3. \A k \in Keys : chunknameToPathCache'[k] = IF k = Key(c) THEN p ELSE chunknameToPathCache[k]
      BY <3>1 DEF MatchInv, MatchTypes
    <3>4. MatchTypes'
      BY <1>1, <1>4, <3>1, <3>2 DEF MatchInv, MatchTypes
    <3>5. NotYet'
      BY <1>1 DEF NotYet, Ready
    <3>6. Remembered'
      BY <1>1, <3>2, <3>3 DEF MatchInv, Remembered
    <3>7. NotByStem'
      BY <1>1, <1>2, <3>3 DEF MatchInv, NotByStem
    <3> QED BY <3>4, <3>5, <3>6, <3>7 DEF MatchInv
  <2> QED BY <2>1, <2>2
\* The event stops as the breakpoints of a path say, when that is its only match.
<1>6. ASSUME \A p \in Matches(c) : p = Path(c.file),
             Path(c.file) \in Known => Path(c.file) \in Matches(c)
      PROVE  last'.stopped <=> BreakpointAt(c.file, l)'
  <2>1. c.file \in Files
    BY ChunksAssumption DEF ChunksAssumption
  <2>2. Path(c.file) \in Known <=> breakpointsPerPath[Path(c.file)] # nil
    BY <2>1, PathFacts DEF Known
  <2>3. CASE Matches(c) = {}
    <3>1. last'.stopped = FALSE
      BY <1>3, <2>3
    <3> QED BY <1>1, <1>6, <2>2, <2>3, <3>1 DEF BreakpointAt
  <2>4. CASE Matches(c) # {}
    <3>1. PICK p \in Matches(c) : last' = [chunk |-> c, line |-> l, stopped |-> l \in breakpointsPerPath[p]]
      BY <1>3, <2>4
    <3>2. p = Path(c.file) /\ p \in Known
      BY <1>6, <3>1, MatchesFacts
    <3>3. last'.stopped <=> l \in breakpointsPerPath[p]
      BY <3>1
    <3> QED BY <1>1, <2>2, <3>2, <3>3 DEF BreakpointAt
  <2> QED BY <2>3, <2>4
<1>7. ExactStops'
  <2> SUFFICES ASSUME Unmistakable(c) PROVE last'.stopped <=> BreakpointAt(c.file, l)'
    BY <1>4 DEF ExactStops
  <2> QED BY <1>1, <1>6, MatchesItsOwn
<1>8. LookupTellsApart'
  <2> DEFINE f == c.file
             s == Stem[Last(f)]
  <2>1. f \in Files
    BY ChunksAssumption DEF ChunksAssumption
  <2> SUFFICES ASSUME ~c.at, Name(c) = f, Alone(f), breakpointsPerPath[Path(f)] # nil
               PROVE  last'.stopped <=> BreakpointAt(c.file, l)'
    BY <1>1, <1>4 DEF LookupTellsApart, Name, ResolveChunkPath
  <2>2. s \in Stems /\ Source(c) = <<s>> /\ f = ResolveChunkPath(s)
    BY <2>1, ChunksAssumption, FileFacts DEF ChunksAssumption, Source, Name
  <2>3. filepathCache[s] # nil
    <3>1. Last(f) \in DOMAIN Stem
      BY <2>1, FileFacts
    <3>2. s # Last(f)
      BY <3>1, StemAssumption DEF StemAssumption
    <3>3. f # <<s>>
      BY <2>2, <3>2, AllFacts
    <3> QED BY <2>2, <3>3 DEF ResolveChunkPath
  <2>4. chunknameToPathCache[Source(c)] = nil
    BY <1>2, <2>2, <2>3 DEF MatchInv, NotByStem
  <2>5. Matches(c) = Similar(f)
    BY <2>4 DEF Matches
  <2>6. Path(f) \in Known
    BY <2>1, PathFacts DEF Known
  <2>7. Matches(c) = {Path(f)}
    BY <2>1, <2>5, <2>6, AllOfIt
  <2> QED BY <1>6, <2>7
<1> QED BY <1>5, <1>7, <1>8

BreakerInv == WalkInv /\ MatchInv /\ ExactStops /\ LookupTellsApart

LEMMA BreakerInit == Init => BreakerInv
BY WalkInit, MatchInit DEF BreakerInv

LEMMA BreakerNext == BreakerInv /\ [Next]_vars => BreakerInv'
<1> SUFFICES ASSUME BreakerInv, [Next]_vars PROVE BreakerInv'
  OBVIOUS
<1> USE DEF BreakerInv
<1>1. WalkInv'
  BY WalkNext
<1>2. CASE NextRoot \/ Visit \/ Leave
  <2>1. ~Ready /\ UNCHANGED <<breakpointsPerPath, chunknameToPathCache, last>>
    BY <1>2 DEF NextRoot, Visit, Leave, Ready
  <2> QED BY <1>1, <2>1, MatchWalk
<1>3. ASSUME NEW f \in Files, NEW lines \in SUBSET Lines, setBreakpoints(f, lines) PROVE BreakerInv'
  BY <1>1, <1>3, MatchSet
<1>4. ASSUME NEW c \in Chunks, NEW l \in Lines, Line(c, l) PROVE BreakerInv'
  BY <1>1, <1>4, MatchLine
<1>5. CASE UNCHANGED vars
  BY <1>1, <1>5, MatchUnchanged
<1> QED BY <1>2, <1>3, <1>4, <1>5 DEF Next

\* The lookup and the breaker keep their variables in their types, and a remembered
\* path always has a table of breakpoints, so that indexing it cannot fail.
THEOREM TypeCorrect == Spec => []TypeOK
<1>1. BreakerInv => TypeOK
  BY DEF BreakerInv, WalkInv, WalkTypes, Levels, Dirs, MatchInv, MatchTypes, Remembered, Known, TypeOK
<1> QED BY <1>1, BreakerInit, BreakerNext, PTL DEF Spec

\* The pure breaker, in whatever order breakpoints are set, removed and matched: the
\* cache of an earlier match never sends a file with a name of its own elsewhere.
THEOREM UniqueNamesStopExactly == Spec => []ExactStops
<1>1. BreakerInv => ExactStops
  BY DEF BreakerInv
<1> QED BY <1>1, BreakerInit, BreakerNext, PTL DEF Spec

\* The lookup and the breaker together: a bare name that several files have, once
\* resolved, is matched by the whole of its path, and no earlier result can stick to it.
THEOREM ResolvedNamesStopExactly == Spec => []LookupTellsApart
<1>1. BreakerInv => LookupTellsApart
  BY DEF BreakerInv
<1> QED BY <1>1, BreakerInit, BreakerNext, PTL DEF Spec

=============================================================================
