--------------------------- MODULE LibraryInputs ---------------------------
(* What the functions of the libraries are run with: all pattern items, one  *)
(* or a few in a row, on short subjects; all lexemes in pairs; chunks cut    *)
(* anywhere; tuples of every type, nested, and too deep.                     *)
EXTENDS Integers, SequencesExt, FiniteSets

-----------------------------------------------------------------------------
(* Patterns                                                                 *)

Chars == {" ", "%", "-", "0", "1", "2", "A", "]", "^", "a", "b", "c"}
Item(is, text) == [is |-> is, text |-> text, suffix |-> ""]
Class(text, set, suffix) ==
  [is |-> "class", text |-> IF suffix = "" THEN text ELSE Append(text, suffix), set |-> set, suffix |-> suffix]
Repeats == {"", "?", "*", "+", "-"}
Sets == {
  <<<<"a">>, {"a"}>>, <<<<".">>, Chars>>, <<<<"%", "w">>, {"0", "1", "2", "A", "a", "b", "c"}>>,
  <<<<"%", "S">>, Chars \ {" "}>>, <<<<"[", "^", "a", "]">>, Chars \ {"a"}>>,
  <<<<"[", "a", "-", "b", "]">>, {"a", "b"}>>, <<<<"[", "]", "b", "]">>, {"]", "b"}>>,
  <<<<"[", "a", "-", "]">>, {"a", "-"}>>, <<<<"[", "%", "]", "%", "a", "]">>, {"]", "A", "a", "b", "c"}>>,
  <<<<"%", "%">>, {"%"}>>}
Singles == {Class(c[1], c[2], s) : c \in Sets, s \in Repeats}
Few == {Class(<<"a">>, {"a"}, s) : s \in Repeats} \cup {Class(<<".">>, Chars, s) : s \in Repeats}
Open == Item("open", <<"(">>)
Close == Item("close", <<")">>)
Here == Item("position", <<"(", ")">>)
End == Item("end", <<"$">>)
Back(n) == [is |-> "back", text |-> <<"%", IF n = 1 THEN "1" ELSE "2">>, n |-> n, suffix |-> ""]
Balance(b, e) == [is |-> "balance", text |-> <<"%", "b", b, e>>, open |-> b, close |-> e, suffix |-> ""]
Frontier(t, s) == [is |-> "frontier", text |-> <<"%", "f">> \o t, set |-> s, suffix |-> ""]
Others == {Frontier(<<"[", "a", "]">>, {"a"}), Frontier(<<"[", "^", "a", "]">>, {"NUL"} \cup (Chars \ {"a"})),
           Balance("a", "b"), Balance("a", "a")}
A == Class(<<"a">>, {"a"}, "")
AnyStar == Class(<<".">>, Chars, "*")
Patterns ==
  {<<x>> : x \in Singles \cup Others} \cup {<<x, A>> : x \in Singles} \cup {<<x, y>> : x \in Others, y \in Few \cup Others}
  \cup {<<Open, x, Close, y>> : x \in Few, y \in Few \cup Others \cup {Back(1), End, Here}}
  \cup {<<Open, x, Open, y, Close, Close, Back(n)>> : x \in Few, y \in {A, AnyStar}, n \in {1, 2}}
  \cup {<<x, Open, y, Close, Back(1), End>> : x, y \in Few}
Subjects == UNION {[1..n -> {"a", "b"}] : n \in 0..3} \cup
  {<<"a", "a", "b", "b">>, <<"b", "a", "a", "a">>, <<"%", "a">>, <<"1", " ", "A">>, <<"-", "]">>}
NoPatterns == {
  <<"%">>, <<"[">>, <<"[", "^">>, <<"[", "]">>, <<"[", "a", "%", "]">>, <<"a", "[">>, <<"(">>, <<")">>, <<"(", "a">>,
  <<"%", "1">>, <<"(", "%", "1", ")">>, <<"%", "b">>, <<"%", "b", "a">>, <<"%", "f">>, <<"%", "f", "a">>,
  <<"(", ")", "(", ")", "(", ")", "(", ")">>}

-----------------------------------------------------------------------------
(* Tokens                                                                   *)

Lexeme(token, value, text) == [token |-> token, value |-> value, text |-> text]
Sign(text) == Lexeme(FoldLeft(LAMBDA s, c : s \o c, "", text), <<>>, text)
Number(m, base, e, text) == Lexeme("number", [m |-> m, base |-> base, e |-> e], text)
String(value, text) == Lexeme("string", value, text)
Lexemes ==
  {Sign(<<c>>) : c \in {"+", "-", ".", "=", "<", "~", ":", "[", "]"}} \cup
  {Sign(<<c, "=">>) : c \in {"=", "<", "~"}} \cup {Sign(<<":", ":">>), Sign(<<".", ".">>), Sign(<<".", ".", ".">>)} \cup
  {Lexeme("reserved", <<"d", "o">>, <<"d", "o">>), Lexeme("name", <<"e", "n", "d", "1">>, <<"e", "n", "d", "1">>)} \cup
  {Number(1, 10, 0, <<"1">>), Number(15, 10, -1, <<"1", ".", "5">>), Number(5, 10, -1, <<".", "5">>),
   Number(2, 10, 0, <<"2", ".">>), Number(1, 10, 10, <<"1", "e", "1", "0">>),
   Number(25, 10, -3, <<"2", ".", "5", "e", "-", "2">>), Number(474, 2, -4, <<"0", "x", "1", "d", ".", "a">>),
   Number(1, 2, 5, <<"0", "x", "1", "p", "+", "5">>), Number(14, 2, 0, <<"0", "x", "e">>)} \cup
  {String(<<>>, <<"Q", "Q">>), String(<<"Q">>, <<"Q", "B", "Q", "Q">>),
   String(<<"NL", "1">>, <<"Q", "B", "0", "1", "0", "1", "Q">>), String(<<"TAB">>, <<"Q", "B", "x", "0", "9", "Q">>),
   String(<<"NL">>, <<"Q", "B", "CR", "NL", "Q">>), String(<<"NL", "NL">>, <<"Q", "B", "NL", "B", "n", "Q">>),
   String(<<"a", "B">>, <<"Q", "a", "B", "z", "NL", "CR", " ", "NL", "B", "B", "Q">>)} \cup
  {String(<<>>, <<"[", "[", "]", "]">>), String(<<"a", "]">>, <<"[", "=", "[", "a", "]", "]", "=", "]">>),
   String(<<"]", "=">>, <<"[", "[", "NL", "]", "=", "]", "]">>),
   String(<<"NL", "a">>, <<"[", "[", "CR", "NL", "NL", "a", "]", "]">>),
   String(<<"]", "]", "NL", "[", "[">>, <<"[", "=", "[", "]", "]", "CR", "[", "[", "]", "=", "]">>)}
Gaps == {<<>>, <<" ">>, <<"CR", "NL">>, <<"NL", "NL", "CR">>, <<"TAB", "CR", "CR">>, <<"-", "-", "NL">>,
  <<"-", "-", "[", "=", "a", "]", "NL">>, <<"-", "-", "[", "[", "NL", "]", "=", "]", "NL", "CR", "]", "]">>,
  <<"-", "-", "[", "=", "[", "]", "]", "]", "=", "]", " ">>, <<" ", "-", "-", "[", "a", "CR">>}
NoTokens == {
  <<"1", ".", ".", "2">>, <<"0", "x">>, <<"1", "e">>, <<"1", "x">>, <<"0", "x", "p", "1">>, <<"1", "e", "+">>,
  <<"5", "n">>, <<"[", "=">>, <<"[", "=", "a">>, <<"[", "[", "a", "]">>, <<"[", "=", "[", "]", "]">>, <<"Q">>,
  <<"Q", "a", "NL", "Q">>, <<"Q", "B", "a", "Q">>, <<"Q", "B", "2", "5", "9", "Q">>,
  <<"Q", "B", "x", "1", "p", "Q">>, <<"Q", "B">>, <<"-", "-", "[", "[", "]">>, <<"Q", "B", "Q">>}
Quotable == UNION {[1..n -> {"NUL", "CR", "NL", "Q", "B", "1", "a"}] : n \in 0..3}

-----------------------------------------------------------------------------
(* Precompiled chunks                                                       *)

Proto(code, k, p, upvalues, lineinfo, locvars) ==
  [linedefined |-> 1, lastlinedefined |-> 2, numparams |-> 1, is_vararg |-> 0, maxstacksize |-> 2, code |-> code,
   k |-> k, p |-> p, upvalues |-> upvalues, source |-> <<"s">>, lineinfo |-> lineinfo, locvars |-> locvars]
Leaf == Proto(<<"return">>, <<>>, <<>>, <<>>, <<1>>, <<>>)
Constant(type, v) == [type |-> type, v |-> v]
Upvalues == <<[instack |-> 1, idx |-> 0, name |-> <<"E">>], [instack |-> 0, idx |-> 1, name |-> <<"none">>]>>
Locals == <<[varname |-> <<"v">>, startpc |-> 0, endpc |-> 2]>>
Protos ==
  {Leaf} \cup {Proto(<<"a", "b">>, k, p, Upvalues, <<1, 2>>, Locals) :
     k \in {<<[type |-> "nil"], Constant("boolean", 0), Constant("string", <<>>)>>,
            <<Constant("number", 7), Constant("string", <<"x", "zero">>)>>},
     p \in {<<>>, <<Leaf, Leaf>>}}
Cuts == {{}, 1..400} \cup {{i, i + 1} : i \in 1..150}

-----------------------------------------------------------------------------
(* Tuples of luabins                                                        *)

Only(type) == [type |-> type]
Num(n) == [type |-> "number", v |-> <<n>>]
Str(s) == [type |-> "string", v |-> s]
Table(entries, objlen) == [type |-> "table", entries |-> entries, objlen |-> objlen]
Atoms == {Only("nil"), Only("false"), Only("true"), Num("1"), Str(<<>>), Str(<<"a", "N", "S">>), Only("function")}
Keys == {Only("false"), Only("true"), Num("1"), Str(<<>>)}
Distinct(n) == {s \in [1..n -> Keys] : \A i, j \in 1..n : i # j => s[i] # s[j]}
Flat == {Table([i \in DOMAIN s |-> <<s[i], v>>], n) :
           s \in UNION {Distinct(m) : m \in 0..4}, v \in {Only("true"), Num("2")}, n \in {0, 2, 5}}
FewTables == {Table(<<>>, 0), Table(<<<<Num("1"), Only("true")>>>>, 1), Table(<<<<Only("true"), Only("function")>>>>, 0)}
Nested == {Table(<<<<k, t>>>>, 1) : k \in {Num("1")} \cup FewTables, t \in FewTables} \cup
  {Table(<<<<Num("1"), Table(<<<<Str(<<>>), t>>>>, 0)>>, <<Str(<<"a">>), Num("1")>>>>, 1) : t \in FewTables}
Tuples == {<<>>} \cup {<<a>> : a \in Atoms \cup Flat \cup Nested} \cup
  {<<a, b>> : a \in Atoms \cup FewTables, b \in Atoms \cup FewTables} \cup
  {<<a, b, Only("nil")>> : a \in Nested, b \in FewTables}
Cells(list) == FlattenSeq([i \in DOMAIN list |-> [b \in 1..list[i][2] |-> [of |-> list[i][1], byte |-> b]]])
OneTable == <<<<1, 1>>, <<"T", 1>>, <<0, 4>>, <<1, 4>>>>
Garbage == {<<>>, Cells(<<<<1, 1>>, <<"F", 1>>>>), Cells(OneTable \o <<<<"-", 1>>, <<"1", 1>>>>),
  Cells(OneTable \o <<<<"N", 1>>, <<<<"nan">>, 8>>, <<"1", 1>>>>), Cells(<<<<1, 1>>, <<"S", 1>>, <<2, 4>>, <<"a", 1>>>>),
  Cells(<<<<1, 1>>, <<"T", 1>>, <<5, 4>>, <<0, 4>>>> \o [i \in 1..40 |-> <<"1", 1>>]),
  Cells(<<<<1, 1>>, <<"T", 1>>, <<0, 4>>, <<-1, 4>>, <<"1", 1>>, <<"1", 1>>>>), Cells(<<<<4, 1>>>> \o [i \in 1..4 |-> <<"1", 1>>])}
=============================================================================
