------------------------------- MODULE Lexer -------------------------------
(***************************************************************************)
(* The lexical analyzer of Lua (llex.c) with the reader of numbers         *)
(* (lobject.c): it sees one character ahead, collects a token in a buffer  *)
(* that also keeps delimiters, and counts lines.  And string.format's %q,  *)
(* which is to write what the analyzer reads.                              *)
(*                                                                         *)
(* A text is a sequence of characters.                                     *)
(***************************************************************************)
EXTENDS Integers, FiniteSets, SequencesExt, FiniteSetsExt

LOCAL INSTANCE TLC

-----------------------------------------------------------------------------
(* Characters: the few that are told apart                                  *)

Byte == "NUL" :> 0 @@ "TAB" :> 9 @@ "NL" :> 10 @@ "CR" :> 13 @@ " " :> 32 @@ "Q" :> 34 @@ "+" :> 43
     @@ "-" :> 45 @@ "." :> 46 @@ "0" :> 48 @@ "1" :> 49 @@ "2" :> 50 @@ "3" :> 51 @@ "5" :> 53 @@ "9" :> 57 @@ ":" :> 58
     @@ "<" :> 60 @@ "=" :> 61 @@ "[" :> 91 @@ "B" :> 92 @@ "]" :> 93 @@ "a" :> 97 @@ "d" :> 100 @@ "e" :> 101
     @@ "n" :> 110 @@ "o" :> 111 @@ "p" :> 112 @@ "x" :> 120 @@ "z" :> 122 @@ "~" :> 126
CharOf(b) == CHOOSE c \in DOMAIN Byte : Byte[c] = b
EOZ == "EOZ"

Digits == {"0", "1", "2", "3", "5", "9"}
HexDigits == Digits \cup {"a", "d", "e"}
Letters == {"a", "d", "e", "n", "o", "p", "x", "z"}
Newlines == {"NL", "CR"}
Spaces == {" ", "TAB"} \cup Newlines
Control == {"NUL", "TAB"} \cup Newlines
Hexavalue(c) == IF c \in Digits THEN Byte[c] - 48 ELSE Byte[c] - 97 + 10

-----------------------------------------------------------------------------
(* The state of the analyzer: the text, the place of the current character, *)
(* the line, the buffer, and the token with its value when there is one.    *)

Reserved == {<<"d", "o">>, <<"e", "n", "d">>}
Start(text) == [text |-> text, i |-> 1, line |-> 1, buff |-> <<>>, token |-> "none", value |-> <<>>]

current(ls) == IF ls.i \in DOMAIN ls.text THEN ls.text[ls.i] ELSE EOZ
next(ls) == [ls EXCEPT !.i = @ + 1]
save(ls, c) == [ls EXCEPT !.buff = Append(@, c)]
save_and_next(ls) == next(save(ls, current(ls)))
reset(ls) == [ls EXCEPT !.buff = <<>>]
Returns(ls, token) == [ls EXCEPT !.token = token]
lexerror(ls) == Returns(ls, "error")
IsNewline(ls) == current(ls) \in Newlines

\* Wrong: every newline character is a line.
inclinenumberEach(ls) == [next(ls) EXCEPT !.line = @ + 1]
inclinenumber(ls) ==
  LET first == next(ls)
      pair == current(first) \in Newlines \ {current(ls)}
  IN [(IF pair THEN next(first) ELSE first) EXCEPT !.line = @ + 1]

check_next(ls, set) == IF current(ls) \in set THEN save_and_next(ls) ELSE ls
Checked(ls, set) == current(ls) \in set

\* A run of characters: each is saved, or just skipped.
RECURSIVE SaveWhile(_, _)
SaveWhile(ls, set) == IF current(ls) \in set THEN SaveWhile(save_and_next(ls), set) ELSE ls

-----------------------------------------------------------------------------
(* Numbers: the value is mantissa times base to the exponent.               *)

Malformed == [m |-> -1, base |-> 0, e |-> 0]
\* Digits from place i on: what they give after r, how many, and where they end.
DigitsFrom(s, i, set, base, r) ==
  LET last == Max({i - 1} \cup {j \in i..Len(s) : \A k \in i..j : s[k] \in set})
      value[j \in (i - 1)..last] == IF j = i - 1 THEN r ELSE value[j - 1] * base + Hexavalue(s[j])
  IN [r |-> value[last], count |-> last + 1 - i, at |-> last + 1]

At(s, i) == IF i \in DOMAIN s THEN s[i] ELSE "NUL"
Sign(s, i) == IF At(s, i) \in {"-", "+"} THEN i + 1 ELSE i

\* lua_strx2number, and strtod for decimals, which has the same form: digits, a dot,
\* digits, and an exponent that counts only with a digit.
Converted(s, i, set, base, mark, perDigit) ==
  LET int == DigitsFrom(s, i, set, base, 0)
      dot == At(s, int.at) = "."
      frac == IF dot THEN DigitsFrom(s, int.at + 1, set, base, int.r) ELSE [int EXCEPT !.count = 0]
      sign == Sign(s, frac.at + 1)
      expo == DigitsFrom(s, sign, Digits, 10, 0)
      hasExpo == At(s, frac.at) = mark /\ expo.count > 0
      e == IF ~hasExpo THEN 0 ELSE IF At(s, frac.at + 1) = "-" THEN -expo.r ELSE expo.r
  IN [m |-> IF int.count + frac.count = 0 THEN -1 ELSE frac.r,
      e |-> e - perDigit * frac.count, at |-> IF hasExpo THEN expo.at ELSE frac.at]

\* luaO_str2d: all of the text, but for spaces, must be the number.
str2d(s) ==
  LET hex == "x" \in ToSet(s)
      n == IF hex THEN Converted(s, 3, HexDigits, 16, "p", 4) ELSE Converted(s, 1, Digits, 10, "e", 1)
  IN IF "n" \in ToSet(s) \/ (hex /\ ~(At(s, 1) = "0" /\ At(s, 2) = "x")) \/ n.m < 0
        \/ \E j \in n.at..Len(s) : s[j] \notin Spaces
       THEN Malformed ELSE [m |-> n.m, base |-> IF hex THEN 2 ELSE 10, e |-> n.e]

RECURSIVE Numeral(_)
Numeral(ls) ==
  LET saved == save_and_next(ls)
      expo == IF Checked(saved, {"e", "p"}) THEN check_next(save_and_next(saved), {"+", "-"}) ELSE saved
  IN IF current(expo) \in Digits \cup Letters \cup {"."} THEN Numeral(expo) ELSE expo

read_numeral(ls) ==
  LET all == Numeral(ls)
      n == str2d(all.buff)
  IN IF n = Malformed THEN lexerror(all) ELSE [Returns(all, "number") EXCEPT !.value = n]

-----------------------------------------------------------------------------
(* Strings                                                                  *)

\* skip_sep saves a bracket and what follows, and says how many = there are between
\* two brackets, or less than 0.
skip_sep(ls) ==
  LET s == current(ls)
      after == SaveWhile(save_and_next(ls), {"="})
      count == Len(after.buff) - Len(ls.buff) - 1
  IN [ls |-> after, sep |-> IF current(after) = s THEN count ELSE -count - 1]

RECURSIVE LongBody(_, _, _)
LongBody(ls, sep, isString) ==
  CASE current(ls) = EOZ -> lexerror(ls)
    [] current(ls) = "]" ->
         LET s == skip_sep(ls) IN
         IF s.sep = sep THEN save_and_next(s.ls) ELSE LongBody(s.ls, sep, isString)
    [] IsNewline(ls) ->
         LET line == inclinenumber(save(ls, "NL")) IN LongBody(IF isString THEN line ELSE reset(line), sep, isString)
    [] OTHER -> LongBody(IF isString THEN save_and_next(ls) ELSE next(ls), sep, isString)

read_long_string(ls, sep, isString) ==
  LET first == save_and_next(ls)
      body == LongBody(IF IsNewline(first) THEN inclinenumber(first) ELSE first, sep, isString)
      s == SubSeq(body.buff, 2 + sep + 1, Len(body.buff) - (2 + sep))
  IN IF body.token = "error" \/ ~isString THEN body ELSE [Returns(body, "string") EXCEPT !.value = s]

RECURSIVE SkipSpaces(_)
SkipSpaces(ls) ==
  IF current(ls) \notin Spaces THEN ls
  ELSE SkipSpaces(IF IsNewline(ls) THEN inclinenumber(ls) ELSE next(ls))

\* readhexaesc stops at the second digit, readdecesc after the last of at most three.
readhexaesc(ls) ==
  LET a == current(next(ls))
      b == current(next(next(ls)))
  IN IF a \notin HexDigits \/ b \notin HexDigits THEN lexerror(ls)
     ELSE next(save(next(next(ls)), CharOf(Hexavalue(a) * 16 + Hexavalue(b))))
readdecesc(ls) ==
  LET d == DigitsFrom(SubSeq(ls.text, 1, Min({ls.i + 2, Len(ls.text)})), ls.i, Digits, 10, 0) IN
  IF d.count = 0 \/ d.r > 255 THEN lexerror(ls) ELSE save([ls EXCEPT !.i = d.at], CharOf(d.r))

\* The characters after a backslash.
Escape(ls) ==
  CASE current(ls) = "n" -> next(save(ls, "NL"))
    [] current(ls) = "x" -> readhexaesc(ls)
    [] IsNewline(ls) -> save(inclinenumber(ls), "NL")
    [] current(ls) \in {"B", "Q"} -> save_and_next(ls)
    [] current(ls) = EOZ -> ls
    [] current(ls) = "z" -> SkipSpaces(next(ls))
    [] OTHER -> readdecesc(ls)

RECURSIVE StringBody(_, _)
StringBody(ls, del) ==
  CASE ls.token = "error" -> ls
    [] ls.token # "error" /\ current(ls) = del -> ls
    [] ls.token # "error" /\ current(ls) \in Newlines \cup {EOZ} -> lexerror(ls)
    [] ls.token # "error" /\ current(ls) = "B" -> StringBody(Escape(next(ls)), del)
    [] OTHER -> StringBody(save_and_next(ls), del)

read_string(ls, del) ==
  LET body == StringBody(save_and_next(ls), del)
      all == save_and_next(body)
  IN IF body.token = "error" THEN body
     ELSE [Returns(all, "string") EXCEPT !.value = SubSeq(all.buff, 2, Len(all.buff) - 1)]

-----------------------------------------------------------------------------
(* The analyzer                                                             *)

\* A character that may be the first of two.
OneOrTwo(ls, second, two) ==
  LET after == next(ls) IN IF current(after) = second THEN Returns(next(after), two) ELSE Returns(after, current(ls))

RECURSIVE ToLineEnd(_)
ToLineEnd(ls) == IF IsNewline(ls) \/ current(ls) = EOZ THEN ls ELSE ToLineEnd(next(ls))

\* What follows --: a long comment only if its bracket is complete.
Comment(ls) ==
  LET s == skip_sep(ls) IN
  IF current(ls) = "[" /\ s.sep >= 0 THEN read_long_string(reset(s.ls), s.sep, FALSE)
  ELSE ToLineEnd(IF current(ls) = "[" THEN s.ls ELSE ls)

Dots(ls) ==
  LET one == save_and_next(ls)
      two == save_and_next(one)
  IN IF current(one) = "." THEN (IF current(two) = "." THEN Returns(save_and_next(two), "...") ELSE Returns(two, ".."))
     ELSE IF current(one) \in Digits THEN read_numeral(one) ELSE Returns(one, ".")

Word(ls) ==
  LET all == SaveWhile(ls, Letters \cup Digits) IN
  [all EXCEPT !.token = IF all.buff \in Reserved THEN "reserved" ELSE "name", !.value = all.buff]

RECURSIVE llex(_)
llex(from) ==
  LET ls == reset(from)
      c == current(ls)
      dashes == c = "-" /\ current(next(ls)) = "-"
  IN CASE from.token = "error" -> from
       [] from.token # "error" /\ c \in Newlines -> llex(inclinenumber(ls))
       [] from.token # "error" /\ c \in {" ", "TAB"} -> llex(next(ls))
       [] from.token # "error" /\ dashes -> llex(Comment(next(next(ls))))
       [] from.token # "error" /\ c = "[" ->
            LET s == skip_sep(ls) IN
            IF s.sep >= 0 THEN read_long_string(s.ls, s.sep, TRUE)
            ELSE IF s.sep = -1 THEN Returns(s.ls, "[") ELSE lexerror(s.ls)
       [] from.token # "error" /\ c \in {"=", "<", "~"} -> OneOrTwo(ls, "=", c \o "=")
       [] from.token # "error" /\ c = ":" -> OneOrTwo(ls, ":", "::")
       [] from.token # "error" /\ c = "Q" -> read_string(ls, "Q")
       [] from.token # "error" /\ c = "." -> Dots(ls)
       [] from.token # "error" /\ c \in Digits -> read_numeral(ls)
       [] from.token # "error" /\ c = EOZ -> Returns(ls, EOZ)
       [] from.token # "error" /\ c \in Letters -> Word(ls)
       [] OTHER -> Returns(next(ls), c)

\* luaX_next until the end: the tokens with the lines on which they end.
RECURSIVE Tokens(_)
Tokens(ls) ==
  LET t == llex(Returns(ls, "none")) IN
  IF t.token \in {EOZ, "error"} THEN <<[token |-> t.token, value |-> <<>>, line |-> t.line]>>
  ELSE <<[token |-> t.token, value |-> t.value, line |-> t.line]>> \o Tokens([t EXCEPT !.value = <<>>])

\* addquoted of lstrlib.c
Decimal(b, width) ==
  LET digits == <<CharOf(48 + b \div 100), CharOf(48 + ((b \div 10) % 10)), CharOf(48 + (b % 10))>>
      significant == IF b >= 100 THEN 3 ELSE IF b >= 10 THEN 2 ELSE 1
  IN SubSeq(digits, 4 - Max({width, significant}), 3)
Quoted(s) ==
  LET one(k) == CASE s[k] \in {"Q", "B", "NL"} -> <<"B", s[k]>>
                  [] s[k] \in Control \ {"NL"} -> <<"B">> \o Decimal(Byte[s[k]], IF At(s, k + 1) \in Digits THEN 3 ELSE 1)
                  [] OTHER -> <<s[k]>>
  IN <<"Q">> \o FlattenSeq([k \in DOMAIN s |-> one(k)]) \o <<"Q">>

-----------------------------------------------------------------------------
(* Properties                                                               *)

\* A lexeme is a token with a way to write it.  Text that must not follow it at once: it
\* would be taken for its rest.  A hexadecimal number that ends in e takes even a sign.
Takes(l, rest) ==
  \/ l.token \in {"name", "reserved", "number"} /\ rest[1] \in Letters \cup Digits
  \/ l.token = "number" /\ rest[1] = "."
  \/ l.token = "number" /\ Last(l.text) \in {"e", "p"} /\ rest[1] \in {"-", "+"}
  \/ l.token \in {".", ".."} /\ (rest[1] = "." \/ rest[1] \in Digits)
  \/ l.token \in {"-", ":"} /\ rest[1] = l.token
  \/ l.token \in {"=", "<", "~"} /\ rest[1] = "="
  \/ l.token = "[" /\ rest[1] \in {"[", "="}

\* The lines a text makes: a pair of different newline characters is one.
LinesIn(text) ==
  LET count[i \in Nat] ==
        IF i > Len(text) THEN 0
        ELSE IF text[i] \notin Newlines THEN count[i + 1]
        ELSE 1 + count[IF i < Len(text) /\ text[i + 1] \in Newlines \ {text[i]} THEN i + 2 ELSE i + 1]
  IN count[1]

\* Whatever stands between them and however they are written, the tokens are read
\* as they were meant, each on its line.
ReadsTokens(lexemes, gaps) ==
  LET text == FlattenSeq([k \in DOMAIN lexemes |-> lexemes[k].text \o gaps[k]])
      upTo(k) == FlattenSeq([j \in 1..k |-> lexemes[j].text \o (IF j < k THEN gaps[j] ELSE <<>>)])
      read == Tokens(Start(text))
      following(k) == gaps[k] \o (IF k < Len(lexemes) THEN lexemes[k + 1].text ELSE <<>>)
  IN (\A k \in DOMAIN lexemes : following(k) # <<>> => ~Takes(lexemes[k], following(k))) =>
       /\ Len(read) = Len(lexemes) + 1 /\ Last(read).token = EOZ /\ Last(read).line = 1 + LinesIn(text)
       /\ \A k \in DOMAIN lexemes :
            read[k] = [token |-> lexemes[k].token, value |-> lexemes[k].value, line |-> 1 + LinesIn(upTo(k))]

\* What is no token is refused and never read as something else.
RefusesOthers(text) == Last(Tokens(Start(text))).token = "error"

\* What %q writes is read as one string, the one it was given.
QuotedIsReadBack(s) ==
  LET read == Tokens(Start(Quoted(s))) IN
  Len(read) = 2 /\ read[1].token = "string" /\ read[1].value = s
=============================================================================
