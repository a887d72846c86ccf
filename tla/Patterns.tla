------------------------------ MODULE Patterns ------------------------------
(***************************************************************************)
(* The pattern matcher of Lua's string library, with which the adapter     *)
(* takes chunk names, message headers and stack lines apart: match with    *)
(* its backtracking over one array of captures, and find, gmatch and gsub. *)
(*                                                                         *)
(* Subjects and patterns are sequences of characters; reading one place    *)
(* past the end of either gives the zero that ends a C string.             *)
(***************************************************************************)
EXTENDS Integers, FiniteSets, SequencesExt, FiniteSetsExt

CONSTANTS
  MaxCaptures   (* LUA_MAXCAPTURES *)

-----------------------------------------------------------------------------
(* Characters                                                               *)

Zero == "NUL"
Order == <<Zero, " ", "%", "-", "0", "1", "2", "A", "]", "^", "a", "b", "c">>
Code(c) == CHOOSE i \in DOMAIN Order : Order[i] = c
Lowered(c) == IF c = "A" THEN "a" ELSE c

At(s, i) == IF i \in DOMAIN s THEN s[i] ELSE Zero

\* What the functions of ctype.h say; "other" stands for the letters that name no class.
ClassOf == [d |-> {"0", "1", "2"}, a |-> {"A", "a", "b", "c"}, s |-> {" "},
            w |-> {"0", "1", "2", "A", "a", "b", "c"}, p |-> {"%", "-", "]", "^"}, u |-> {"A"}]
Capitals == [D |-> "d", S |-> "s", W |-> "w", P |-> "p"]

\* match_class: a capital names the complement.
MatchClass(c, cl) ==
  IF cl \in DOMAIN ClassOf THEN c \in ClassOf[cl]
  ELSE IF cl \in DOMAIN Capitals THEN c \notin ClassOf[Capitals[cl]]
  ELSE c = cl

-----------------------------------------------------------------------------
(* The matcher.  A result is the place reached (0 for NULL), the match      *)
(* state, and whether luaL_error was called.                                *)

UNFINISHED == -1
POSITION == -2
NoCaptures == [level |-> 0, capture |-> <<>>]

Reached(ms, s) == [at |-> s, ms |-> ms, error |-> FALSE]
Null(ms) == Reached(ms, 0)
Error(ms) == [at |-> 0, ms |-> ms, error |-> TRUE]

\* The rest of classend from inside of [ ]: 0 if the ] is missing.
SetEnd(p, i) ==
  LET after[j \in Nat] ==    \* the loop of classend, j at the character to look at
        IF j > Len(p) THEN 0
        ELSE LET next == IF At(p, j) = "%" /\ j + 1 <= Len(p) THEN j + 2 ELSE j + 1
             IN IF At(p, next) = "]" THEN next + 1 ELSE after[next]
  IN after[IF At(p, i) = "^" THEN i + 1 ELSE i]

\* classend: 0 for a malformed pattern.
ClassEnd(p, i) ==
  CASE At(p, i) = "%" -> IF i = Len(p) THEN 0 ELSE i + 2
    [] At(p, i) = "[" -> SetEnd(p, i + 1)
    [] OTHER -> i + 1

\* matchbracketclass: i at the [ and e at the ].
MatchBracketClass(c, p, i, e) ==
  LET negated == At(p, i + 1) = "^"
      found[j \in Nat] ==
        IF j >= e THEN FALSE
        ELSE IF At(p, j) = "%" THEN MatchClass(c, At(p, j + 1)) \/ found[j + 2]
        ELSE IF At(p, j + 1) = "-" /\ j + 2 < e
          THEN Code(c) \in Code(At(p, j))..Code(At(p, j + 2)) \/ found[j + 3]
        ELSE c = At(p, j) \/ found[j + 1]
  IN negated # found[IF negated THEN i + 2 ELSE i + 1]

SingleMatch(c, p, i, ep) ==
  CASE At(p, i) = "." -> TRUE
    [] At(p, i) = "%" -> MatchClass(c, At(p, i + 1))
    [] At(p, i) = "[" -> MatchBracketClass(c, p, i, ep - 1)
    [] OTHER -> c = At(p, i)

\* matchbalance: where the string that b opens and e closes ends, or 0.
MatchBalance(src, s, b, e) ==
  LET after[j \in Nat, cont \in Nat] ==
        IF j > Len(src) THEN 0
        ELSE IF src[j] = e THEN (IF cont = 1 THEN j + 1 ELSE after[j + 1, cont - 1])
        ELSE after[j + 1, IF src[j] = b THEN cont + 1 ELSE cont]
  IN IF At(src, s) # b THEN 0 ELSE after[s + 1, 1]

\* capture_to_close: 0 if no capture is open.
CaptureToClose(ms) ==
  LET open == {l \in 1..ms.level : ms.capture[l].len = UNFINISHED} IN IF open = {} THEN 0 ELSE Max(open)

\* Wrong: a capture that was opened stays open when the rest does not match.
StillOpen(ms) == ms
\* start_capture undoes its capture.
Opened(ms, s, what) ==
  [level |-> ms.level + 1,
   capture |-> Append(SubSeq(ms.capture, 1, ms.level), [init |-> s, len |-> what])]
Undone(ms) == [ms EXCEPT !.level = @ - 1]

\* Each case of match tail-calls it for the rest of the pattern.
RECURSIVE Match(_, _, _, _, _)

MaxExpand(src, p, ms, s, i, ep) ==
  LET fits[n \in Nat] == IF At(src, s + n) # Zero /\ SingleMatch(src[s + n], p, i, ep) THEN fits[n + 1] ELSE n
      RECURSIVE try(_, _)
      try(n, m) == LET res == Match(src, p, m, s + n, ep + 1) IN
                   IF res.at # 0 \/ res.error \/ n = 0 THEN res ELSE try(n - 1, res.ms)
  IN try(fits[0], ms)

RECURSIVE MinExpand(_, _, _, _, _, _)
MinExpand(src, p, ms, s, i, ep) ==
  LET res == Match(src, p, ms, s, ep + 1) IN
  IF res.at # 0 \/ res.error THEN res
  ELSE IF s <= Len(src) /\ SingleMatch(src[s], p, i, ep) THEN MinExpand(src, p, res.ms, s + 1, i, ep)
  ELSE res

StartCapture(src, p, ms, s, i, what) ==
  IF ms.level >= MaxCaptures THEN Error(ms)
  ELSE LET res == Match(src, p, Opened(ms, s, what), s, i) IN
       IF res.at = 0 THEN [res EXCEPT !.ms = Undone(@)] ELSE res

EndCapture(src, p, ms, s, i) ==
  LET l == CaptureToClose(ms) IN
  IF l = 0 THEN Error(ms)
  ELSE LET res == Match(src, p, [ms EXCEPT !.capture[l].len = s - ms.capture[l].init], s, i) IN
       IF res.at = 0 THEN [res EXCEPT !.ms.capture[l].len = UNFINISHED] ELSE res

\* match_capture for the digit at p[i + 1].
MatchCapture(src, p, ms, s, i) ==
  LET l == Code(At(p, i + 1)) - Code("1") + 1 IN
  IF l > ms.level \/ (l <= ms.level /\ ms.capture[l].len = UNFINISHED) THEN Error(ms)
  ELSE LET c == ms.capture[l] IN
       \* a position capture has a length of -2, as a size_t more than what is left
       IF c.len >= 0 /\ Len(src) + 1 - s >= c.len /\ SubSeq(src, s, s + c.len - 1) = SubSeq(src, c.init, c.init + c.len - 1)
         THEN Match(src, p, ms, s + c.len, i + 2) ELSE Null(ms)

Frontier(src, p, ms, s, i) ==
  LET ep == ClassEnd(p, i) IN
  IF At(p, i) # "[" \/ ep = 0 THEN Error(ms)
  ELSE IF MatchBracketClass(At(src, s - 1), p, i, ep - 1) \/ ~MatchBracketClass(At(src, s), p, i, ep - 1)
    THEN Null(ms)
  ELSE Match(src, p, ms, s, ep)

\* The end of match: a class with its suffix.
Class(src, p, ms, s, i) ==
  LET ep == ClassEnd(p, i)
      m == s <= Len(src) /\ SingleMatch(src[s], p, i, ep)
  IN CASE ep = 0 -> Error(ms)
       [] ep # 0 /\ At(p, ep) = "?" ->
            LET res == IF m THEN Match(src, p, ms, s + 1, ep + 1) ELSE Null(ms)
            IN IF res.at # 0 \/ res.error THEN res ELSE Match(src, p, res.ms, s, ep + 1)
       [] ep # 0 /\ At(p, ep) = "*" -> MaxExpand(src, p, ms, s, i, ep)
       [] ep # 0 /\ At(p, ep) = "+" -> IF m THEN MaxExpand(src, p, ms, s + 1, i, ep) ELSE Null(ms)
       [] ep # 0 /\ At(p, ep) = "-" -> MinExpand(src, p, ms, s, i, ep)
       [] OTHER -> IF m THEN Match(src, p, ms, s + 1, ep) ELSE Null(ms)

Match(src, p, ms, s, i) ==
  CASE i > Len(p) -> Reached(ms, s)
    [] At(p, i) = "(" -> IF At(p, i + 1) = ")" THEN StartCapture(src, p, ms, s, i + 2, POSITION)
                         ELSE StartCapture(src, p, ms, s, i + 1, UNFINISHED)
    [] At(p, i) = ")" -> EndCapture(src, p, ms, s, i + 1)
    [] At(p, i) = "$" /\ i = Len(p) -> IF s = Len(src) + 1 THEN Reached(ms, s) ELSE Null(ms)
    [] At(p, i) = "%" /\ At(p, i + 1) = "b" ->
         IF i + 3 > Len(p) THEN Error(ms)
         ELSE LET e == MatchBalance(src, s, p[i + 2], p[i + 3]) IN
              IF e = 0 THEN Null(ms) ELSE Match(src, p, ms, e, i + 4)
    [] At(p, i) = "%" /\ At(p, i + 1) = "f" -> Frontier(src, p, ms, s, i + 2)
    [] At(p, i) = "%" /\ At(p, i + 1) \in {"1", "2"} -> MatchCapture(src, p, ms, s, i)
    [] OTHER -> Class(src, p, ms, s, i)

-----------------------------------------------------------------------------
(* The functions of the library                                             *)

Failed == <<"error">>
NotFound == <<"nil">>

\* push_onecapture and push_captures, for a match from s to before e.
OneCapture(src, ms, l, s, e) ==
  IF l > ms.level THEN SubSeq(src, s, e - 1)
  ELSE LET c == ms.capture[l] IN
       IF c.len = POSITION THEN c.init ELSE SubSeq(src, c.init, c.init + c.len - 1)
Unclosed(ms) == \E l \in 1..ms.level : ms.capture[l].len = UNFINISHED
Captures(src, ms, s, e) ==
  [l \in 1..Max({1, ms.level}) |-> OneCapture(src, ms, l, s, e)]

Anchored(p) == At(p, 1) = "^"

\* str_find_aux from position init on, for match: where it begins, ends, and what it captured.
RECURSIVE FindFrom(_, _, _)
FindFrom(src, p, s) ==
  LET res == Match(src, p, NoCaptures, s, IF Anchored(p) THEN 2 ELSE 1) IN
  IF res.error \/ (res.at # 0 /\ Unclosed(res.ms)) THEN Failed
  ELSE IF res.at # 0 THEN <<s, res.at - 1, Captures(src, res.ms, s, res.at)>>
  ELSE IF s <= Len(src) /\ ~Anchored(p) THEN FindFrom(src, p, s + 1)
  ELSE NotFound

\* gmatch_aux until it ends: begins and ends of the matches.  It knows no anchor.
RECURSIVE Gmatch(_, _, _)
Gmatch(src, p, start) ==
  IF start > Len(src) + 1 THEN <<>>
  ELSE LET res == Match(src, p, NoCaptures, start, 1) IN
       IF res.error \/ (res.at # 0 /\ Unclosed(res.ms)) THEN Failed
       ELSE IF res.at = 0 THEN Gmatch(src, p, start + 1)
       ELSE <<<<start, res.at - 1>>>> \o Gmatch(src, p, IF res.at = start THEN start + 1 ELSE res.at)

\* add_s: the replacement string, with its captures put in.
NoText == [s |-> <<>>, error |-> FALSE]
Wrong == [s |-> <<>>, error |-> TRUE]
Text(value) == [s |-> value, error |-> FALSE]
RECURSIVE AddS(_, _, _, _, _, _)
AddS(src, ms, news, i, s, e) ==
  IF i > Len(news) THEN NoText
  ELSE LET escape == news[i] = "%"
           c == At(news, IF escape THEN i + 1 ELSE i)
           l == Code(c) - Code("1") + 1
           this == CASE ~escape \/ c = "%" -> Text(<<c>>)
                     [] escape /\ c = "0" -> Text(SubSeq(src, s, e - 1))
                     [] escape /\ c \in {"1", "2"} ->
                          IF l > Max({1, ms.level}) THEN Wrong ELSE Text(OneCapture(src, ms, l, s, e))
                     [] OTHER -> Wrong
           rest == AddS(src, ms, news, IF escape THEN i + 2 ELSE i + 1, s, e)
       IN [s |-> this.s \o rest.s, error |-> this.error \/ rest.error]

\* str_gsub with max_s substitutions by the string news: what it makes, and how often.
RECURSIVE Gsub(_, _, _, _, _)
Gsub(src, p, news, max_s, s) ==
  IF max_s = 0 THEN [s |-> SubSeq(src, s, Len(src)), n |-> 0, error |-> FALSE]
  ELSE LET res == Match(src, p, NoCaptures, s, IF Anchored(p) THEN 2 ELSE 1)
           e == res.at
           added == IF e # 0 THEN AddS(src, res.ms, news, 1, s, e) ELSE NoText
           kept == IF e > s \/ s > Len(src) THEN <<>> ELSE <<src[s]>>
           next == IF e > s THEN e ELSE s + 1
           rest == IF (e <= s /\ s > Len(src)) \/ Anchored(p)
                     THEN [s |-> SubSeq(src, next, Len(src)), n |-> 0, error |-> FALSE]
                   ELSE Gsub(src, p, news, IF e # 0 THEN max_s - 1 ELSE max_s, next)
       IN [s |-> added.s \o kept \o rest.s, n |-> rest.n + (IF e # 0 THEN 1 ELSE 0),
           error |-> res.error \/ added.error \/ rest.error \/ (e # 0 /\ Unclosed(res.ms))]

\* nospecials and lmemfind: the search of find for plain text, by its first character.
Specials == {"^", "$", "*", "+", "?", ".", "(", "[", "%", "-"}
NoSpecials(p) == \A i \in DOMAIN p : p[i] \notin Specials
RECURSIVE Lmemfind(_, _, _)
Lmemfind(s1, from, s2) ==
  IF s2 = <<>> THEN from
  ELSE IF Len(s2) > Len(s1) - from + 1 THEN 0
  ELSE LET first == {i \in from..Len(s1) - Len(s2) + 1 : s1[i] = s2[1]} IN
       IF first = {} THEN 0
       ELSE IF SubSeq(s1, Min(first) + 1, Min(first) + Len(s2) - 1) = Tail(s2) THEN Min(first)
       ELSE Lmemfind(s1, Min(first) + 1, s2)

\* posrelat: a position from the end is negative; a size_t has no sign.
Posrelat(pos, len) == IF pos >= 0 THEN pos ELSE IF -pos > len THEN 0 ELSE len + pos + 1

\* str_sub
Sub(s, i, j) ==
  LET start == Max({1, Posrelat(i, Len(s))})
      end == Min({Len(s), Posrelat(j, Len(s))})
  IN IF start <= end THEN SubSeq(s, start, end) ELSE <<>>

-----------------------------------------------------------------------------
(* What a pattern means: boundaries between its items.                      *)

\* A pattern item is [is, text] with, for a class, its set and suffix, for %b its two
\* characters, for a back reference its number.
Written(items) == FlattenSeq([k \in DOMAIN items |-> items[k].text])

\* Where the l-th capture opens and closes, as boundaries.
Opens(items, l) == CHOOSE k \in DOMAIN items :
  items[k].is \in {"open", "position"} /\ Cardinality({j \in 1..k : items[j].is \in {"open", "position"}}) = l
Depth(items, j, k) == Cardinality({i \in j..k : items[i].is = "open"}) - Cardinality({i \in j..k : items[i].is = "close"})
Closes(items, j) == Min({k \in DOMAIN items : k > j /\ Depth(items, j, k) = 0})
Captured(items, at, src, l) ==
  LET j == Opens(items, l) IN
  IF items[j].is = "position" THEN at[j] ELSE SubSeq(src, at[j], at[Closes(items, j)] - 1)

Balanced(src, b, e, i, j) ==
  LET opened(n) == Cardinality({m \in i..n : src[m] = b})
      closed(n) == Cardinality({m \in i..n : src[m] = e /\ m > i}) IN
  /\ j > i /\ src[i] = b
  /\ (IF b = e THEN 1 ELSE opened(j - 1)) = closed(j - 1)
  /\ \A n \in i..j - 2 : (IF b = e THEN 1 ELSE opened(n)) # closed(n)

Fits(items, at, src, k) ==
  LET x == items[k]
      i == at[k]
      j == at[k + 1] IN
  CASE x.is = "class" -> /\ \A n \in i..j - 1 : src[n] \in x.set
                         /\ j - i \in (CASE x.suffix = "" -> {1} [] x.suffix = "?" -> {0, 1}
                                         [] x.suffix = "+" -> 1..Len(src) [] OTHER -> 0..Len(src))
    [] x.is = "balance" -> j > i /\ Balanced(src, x.open, x.close, i, j)
    [] x.is = "back" -> SubSeq(src, i, j - 1) = Captured(items, at, src, x.n)
    [] x.is = "frontier" -> i = j /\ At(src, i - 1) \notin x.set /\ At(src, i) \in x.set
    [] x.is = "end" -> i = j /\ i = Len(src) + 1
    [] OTHER -> i = j

\* All ways to match from s on: nondecreasing boundaries at which every item fits.
RECURSIVE WaysTo(_, _, _, _)
WaysTo(items, src, s, k) ==
  IF k = 0 THEN {<<s>>}
  ELSE {w \in {Append(v, j) : v \in WaysTo(items, src, s, k - 1), j \in s..Len(src) + 1} :
          w[k] <= w[k + 1] /\ Fits(items, w, src, k)}

\* One way before another: the first item in which they differ takes more, or with - less.
Before(items, v, w) ==
  LET k == Min({k \in DOMAIN v : v[k] # w[k]}) IN
  IF items[k - 1].suffix = "-" THEN v[k] < w[k] ELSE v[k] > w[k]

Meant(items, src, s) ==
  LET W == WaysTo(items, src, s, Len(items))
  IN IF W = {} THEN <<>> ELSE CHOOSE v \in W : \A w \in W \ {v} : Before(items, v, w)

NumCaptures(items) == Cardinality({k \in DOMAIN items : items[k].is \in {"open", "position"}})

\* The leftmost match, and of those the preferred one.
MeantFind(items, src) ==
  LET starts == {s \in 1..Len(src) + 1 : Meant(items, src, s) # <<>>} IN
  IF starts = {} THEN NotFound
  ELSE LET s == Min(starts)
           at == Meant(items, src, s)
           n == NumCaptures(items)
       IN <<s, Last(at) - 1, IF n = 0 THEN <<SubSeq(src, s, Last(at) - 1)>>
                             ELSE [l \in 1..n |-> Captured(items, at, src, l)]>>

-----------------------------------------------------------------------------
(* Properties of one subject and one pattern                                *)

\* However match backtracks, what it returns and leaves in its one array of captures
\* is the leftmost match that the order of the suffixes prefers.
FindsWhatIsMeant(items, src) == FindFrom(src, Written(items), 1) = MeantFind(items, src)

\* The matches of gmatch do not overlap, go on to the end, and gsub replaces just
\* these: put back as they are, they give the subject.
GsubFollowsGmatch(items, src) ==
  LET p == Written(items)
      found == Gmatch(src, p, 1)
      same == Gsub(src, p, <<"%", "0">>, Len(src) + 1, 1)
  IN /\ \A i \in 1..Len(found) - 1 : found[i][2] < found[i + 1][1]
     /\ \A i \in DOMAIN found : found[i][2] = Last(Meant(items, src, found[i][1])) - 1
     /\ ~same.error /\ same.s = src /\ same.n = Len(found)

\* The short cut of find for plain text finds what the matcher would.
PlainFindAgrees(items, src) ==
  LET p == Written(items)
      at == Lmemfind(src, 1, p)
  IN NoSpecials(p) =>
       FindFrom(src, p, 1) = IF at = 0 THEN NotFound ELSE <<at, at + Len(p) - 1, <<p>>>>

\* The character at place k is in sub(i, j) just if k is not before i nor after j,
\* where a negative place counts from the end.
SubIsTheRange(s) ==
  \A i, j \in -(Len(s) + 1)..Len(s) + 1 :
    LET place(x) == IF x < 0 THEN Len(s) + 1 + x ELSE x
        wanted == SelectSeq([k \in DOMAIN s |-> k], LAMBDA k : k >= place(i) /\ k <= place(j))
    IN Sub(s, i, j) = [n \in DOMAIN wanted |-> s[wanted[n]]]

\* A pattern that is none raises an error when the matcher comes to its end.
MalformedIsRefused(p, src) == FindFrom(src, p, 1) = Failed
=============================================================================
