-------------------------------- MODULE Json --------------------------------
(***************************************************************************)
(* lua-cjson, with which the debugger writes and reads its messages:       *)
(* encoding of Lua values, decoding by recursive descent, the escapes of   *)
(* strings, and the buffers (strbuf) both work in.                         *)
(*                                                                         *)
(* A text is a sequence of tokens; strings are sequences of bytes, in a    *)
(* text with their escapes.  A number is itself, digits are not modelled.  *)
(***************************************************************************)
EXTENDS JsonTokens, FiniteSets, FiniteSetsExt

CONSTANTS
  Values,      (* Lua values to be encoded *)
  Texts,       (* texts to be decoded *)
  MaxDepth,    (* encode_max_depth, decode_max_depth *)
  SparseSafe,  (* encode_sparse_safe; the ratio is 2, nothing is converted *)
  DefaultSize  (* STRBUF_DEFAULT_SIZE *)

VARIABLES
  encodeBuf,   (* cfg->encode_buf, kept from call to call: size and length *)
  last         (* the last call, its argument and its result, until they are taken *)

vars == <<encodeBuf, last>>

-----------------------------------------------------------------------------
(* Values and tokens                                                        *)

Error == <<Mark("error")>>
Failed(text) == \E i \in DOMAIN text : text[i].is = "error"

-----------------------------------------------------------------------------
(* Strings                                                                  *)

Backslash == 92
HexDigit(d) == IF d < 10 THEN 48 + d ELSE 87 + d
Named == [c \in {8, 9, 10, 12, 13} |-> CASE c = 8 -> 98 [] c = 9 -> 116 [] c = 10 -> 110
                                         [] c = 12 -> 102 [] c = 13 -> 114]
Itself == {34, 47, 92}

\* char2escape
Escaped(c) ==
  CASE c \in Itself -> <<Backslash, c>>
    [] c \in DOMAIN Named -> <<Backslash, Named[c]>>
    [] c < 32 \/ c = 127 -> <<Backslash, 117, 48, 48, HexDigit(c \div 16), HexDigit(c % 16)>>
    [] OTHER -> <<c>>

EscapedString(s) == FlattenSeq([i \in DOMAIN s |-> Escaped(s[i])])

\* hexdigit2int forces lower case by setting one bit.
Hexdigit(b) ==
  IF b \in 48..57 THEN b - 48
  ELSE IF b \in 97..102 THEN b - 87
  ELSE IF b \in 65..70 THEN b - 55
  ELSE -1

\* decode_hex4 from position i on.
Hex4(s, i) ==
  IF i + 3 > Len(s) \/ \E j \in i..i + 3 : Hexdigit(s[j]) < 0 THEN -1
  ELSE Hexdigit(s[i]) * 4096 + Hexdigit(s[i + 1]) * 256 + Hexdigit(s[i + 2]) * 16 + Hexdigit(s[i + 3])

Utf8(cp) ==
  CASE cp <= 127   -> <<cp>>
    [] cp <= 2047  -> <<192 + cp \div 64, 128 + (cp % 64)>>
    [] cp <= 65535 -> <<224 + cp \div 4096, 128 + ((cp \div 64) % 64), 128 + (cp % 64)>>
    [] OTHER       -> <<240 + cp \div 262144, 128 + ((cp \div 4096) % 64),
                        128 + ((cp \div 64) % 64), 128 + (cp % 64)>>

Bad == [bytes |-> <<>>, taken |-> 0]

\* Wrong: any second escape is taken for the other half.
UnicodeEscapeAnyLow(s, i) ==
  LET high == Hex4(s, i + 2)
      low == Hex4(s, i + 8)
  IN IF high < 0 THEN Bad
     ELSE IF high \notin 55296..57343 THEN [bytes |-> Utf8(high), taken |-> 6]
     ELSE IF high >= 56320 \/ low < 0 THEN Bad
     ELSE [bytes |-> Utf8((high - 55296) * 1024 + (low % 1024) + 65536), taken |-> 12]

\* json_append_unicode_escape, with i at the backslash.
UnicodeEscape(s, i) ==
  LET high == Hex4(s, i + 2)
      low == Hex4(s, i + 8)
  IN IF high < 0 THEN Bad
     ELSE IF high \notin 55296..57343 THEN [bytes |-> Utf8(high), taken |-> 6]
     ELSE IF \/ high >= 56320
             \/ i + 7 > Len(s) \/ s[i + 6] # Backslash \/ s[i + 7] # 117
             \/ low \notin 56320..57343 THEN Bad
     ELSE [bytes |-> Utf8((high - 55296) * 1024 + (low - 56320) + 65536), taken |-> 12]

\* One character of a string token, escaped or not.
Character(s, i) ==
  IF s[i] # Backslash THEN [bytes |-> <<s[i]>>, taken |-> 1]
  ELSE IF i = Len(s) THEN Bad
  ELSE IF s[i + 1] = 117 THEN UnicodeEscape(s, i)
  ELSE IF s[i + 1] \in Itself THEN [bytes |-> <<s[i + 1]>>, taken |-> 2]
  ELSE LET named == {c \in DOMAIN Named : Named[c] = s[i + 1]}
       IN IF named = {} THEN Bad ELSE [bytes |-> <<Max(named)>>, taken |-> 2]

\* json_next_string_token: the bytes in json->tmp, or an error.
Unescaped(s) ==
  LET from[i \in 1 .. Len(s) + 1] ==
        IF i > Len(s) THEN [ok |-> TRUE, s |-> <<>>]
        ELSE LET c == Character(s, i) IN
             IF c = Bad THEN [ok |-> FALSE, s |-> <<>>]
             ELSE LET rest == from[i + c.taken]
                  IN [ok |-> rest.ok, s |-> c.bytes \o rest.s]
  IN from[1]

-----------------------------------------------------------------------------
(* Encoding                                                                 *)

StringToken(s) == [is |-> "string", s |-> EscapedString(s)]

Joined(texts) ==
  FlattenSeq([i \in DOMAIN texts |-> IF i = 1 THEN texts[i] ELSE <<Mark(",")>> \o texts[i]])

IsIndex(k) == k.is = "number" /\ k.n >= 1

\* Wrong: the number of items and not the highest index.
ArrayLengthCount(v) ==
  IF \E k \in Keys(v) : ~IsIndex(k) THEN -1 ELSE Cardinality(Keys(v))

\* lua_array_length: -1 for what is no array, -2 for the exception.
ArrayLength(v) ==
  LET numbers == {k \in Keys(v) : IsIndex(k)}
      max == Max({0} \cup {k.n : k \in numbers})
  IN IF numbers # Keys(v) THEN -1
     ELSE IF max > 2 * Cardinality(numbers) /\ max > SparseSafe THEN -2
     ELSE max

\* A number as a key is written as a string; the digits stand for themselves.
KeyToken(k) == IF k.is = "number" THEN [is |-> "string", s |-> <<48 + k.n>>] ELSE StringToken(k.s)

RECURSIVE AppendData(_, _)

AppendArray(v, depth, n) ==
  LET item(i) == IF Number(i) \in Keys(v) THEN v.f[Number(i)] ELSE Null
  IN <<Mark("[")>> \o Joined([i \in 1..n |-> AppendData(item(i), depth)]) \o <<Mark("]")>>

AppendObject(v, depth) ==
  LET keys == SetToSeq(Keys(v))
      member(k) == IF k.is \in {"number", "string"}
                     THEN <<KeyToken(k), Mark(":")>> \o AppendData(v.f[k], depth) ELSE Error
  IN <<Mark("{")>> \o Joined([i \in DOMAIN keys |-> member(keys[i])]) \o <<Mark("}")>>

AppendData(v, depth) ==
  CASE v.is = "string" -> <<StringToken(v.s)>>
    [] v.is \in {"number", "null"} -> <<v>>
    [] v.is = "table" ->
         LET n == ArrayLength(v) IN
         IF depth + 1 > MaxDepth \/ n = -2 THEN Error
         ELSE IF n > 0 THEN AppendArray(v, depth + 1, n)
         ELSE AppendObject(v, depth + 1)
    [] OTHER -> Error

Encode(v) == AppendData(v, 0)

-----------------------------------------------------------------------------
(* The buffer of the encoder: every append first makes room for itself      *)

\* calculate_new_size with the increment -2, for a length and the final NUL.
NewSize(size, len) ==
  LET doubled[n \in 0..100000] == IF n >= len + 1 THEN n ELSE doubled[2 * n]
  IN IF size > len + 1 THEN len + 1 ELSE doubled[size]

EnsureEmpty(buf, len) ==
  IF len > buf.size - buf.length - 1 THEN [buf EXCEPT !.size = NewSize(@, buf.length + len)] ELSE buf

\* overrun: history, an append that left no room for the NUL.
Extend(buf, len) ==
  [buf EXCEPT !.length = @ + len, !.overrun = @ \/ buf.length + len >= buf.size]

\* strbuf_append_string makes room as it goes; other bytes are appended unsafely.
AppendByte(buf, c) ==
  LET e == Len(Escaped(c))
  IN Extend(IF e > 1 THEN EnsureEmpty(buf, e) ELSE buf, e)

\* Wrong: room for the worst case but for the quotes.
RoomNoQuotes(s) == Len(s) * 6

\* json_append_string expects each byte to need an escape of six.
Room(s) == Len(s) * 6 + 2

AppendString(buf, s) ==
  Extend(FoldLeft(AppendByte, Extend(EnsureEmpty(buf, Room(s)), 1), s), 1)

\* FPCONV_G_FMT_BUFSIZE for a number, one or a few bytes for any other token.
AppendToken(buf, token) ==
  CASE token.is = "string" -> AppendString(buf, Unescaped(token.s).s)
    [] token.is = "number" -> Extend(EnsureEmpty(buf, 32), 1)
    [] token.is = "null"   -> Extend(EnsureEmpty(buf, 4), 4)
    [] OTHER               -> Extend(EnsureEmpty(buf, 1), 1)

\* An error stops the encoder with what the buffer has got until then.
Written(text) ==
  LET errors == {i \in DOMAIN text : text[i].is = "error"}
  IN IF errors = {} THEN text ELSE SubSeq(text, 1, Min(errors) - 1)

-----------------------------------------------------------------------------
(* Decoding: each operator takes the position of its first token and gives  *)
(* the value and the position after it, or an error                         *)

NoParse == [ok |-> FALSE, v |-> Null, at |-> 0]
At(text, i) == IF i \in DOMAIN text THEN text[i].is ELSE "end"

RECURSIVE ProcessValue(_, _, _)
RECURSIVE Elements(_, _, _, _)
RECURSIVE Members(_, _, _, _)

\* The loop of json_parse_array_context, from its n-th element on.
Elements(text, i, depth, f) ==
  LET e == ProcessValue(text, i, depth)
      items == f @@ (Number(Cardinality(DOMAIN f) + 1) :> e.v)
  IN IF ~e.ok THEN NoParse
     ELSE IF At(text, e.at) = "]" THEN [ok |-> TRUE, v |-> TableOf(items), at |-> e.at + 1]
     ELSE IF At(text, e.at) = "," THEN Elements(text, e.at + 1, depth, items)
     ELSE NoParse

\* That of json_parse_object_context; a key that comes again replaces its value.
Members(text, i, depth, f) ==
  IF At(text, i) # "string" \/ ~Unescaped(text[i].s).ok \/ At(text, i + 1) # ":" THEN NoParse
  ELSE LET e == ProcessValue(text, i + 2, depth)
           members == (String(Unescaped(text[i].s).s) :> e.v) @@ f
       IN IF ~e.ok THEN NoParse
          ELSE IF At(text, e.at) = "}" THEN [ok |-> TRUE, v |-> TableOf(members), at |-> e.at + 1]
          ELSE IF At(text, e.at) = "," THEN Members(text, e.at + 1, depth, members)
          ELSE NoParse

Empty == TableOf(<<>>)

Context(text, i, depth, end, Loop(_, _, _, _)) ==
  IF depth + 1 > MaxDepth THEN NoParse
  ELSE IF At(text, i + 1) = end THEN [ok |-> TRUE, v |-> Empty, at |-> i + 2]
  ELSE Loop(text, i + 1, depth + 1, <<>>)

ProcessValue(text, i, depth) ==
  CASE At(text, i) = "string" ->
         [ok |-> Unescaped(text[i].s).ok, v |-> String(Unescaped(text[i].s).s), at |-> i + 1]
    [] At(text, i) \in {"number", "null"} -> [ok |-> TRUE, v |-> text[i], at |-> i + 1]
    [] At(text, i) = "[" -> Context(text, i, depth, "]", Elements)
    [] At(text, i) = "{" -> Context(text, i, depth, "}", Members)
    [] OTHER -> NoParse

Decode(text) ==
  LET e == ProcessValue(text, 1, 0)
  IN IF e.ok /\ At(text, e.at) = "end" THEN e ELSE NoParse

-----------------------------------------------------------------------------
Idle == [call |-> "none"]

Init ==
  /\ encodeBuf = [size |-> DefaultSize, length |-> 0, overrun |-> FALSE]
  /\ last = Idle

JsonEncode(v) ==
  /\ last = Idle
  /\ encodeBuf' = FoldLeft(AppendToken, encodeBuf, Written(Encode(v)))
  /\ last' = [call |-> "encode", arg |-> v, text |-> Encode(v)]

JsonDecode(text) ==
  /\ last = Idle
  /\ last' = [call |-> "decode", arg |-> text, result |-> Decode(text)]
  /\ UNCHANGED encodeBuf

\* The caller has the result, and the buffer is empty again.
Taken ==
  /\ last # Idle
  /\ last' = Idle
  /\ encodeBuf' = [encodeBuf EXCEPT !.length = 0]

Next ==
  \/ \E v \in Values : JsonEncode(v)
  \/ \E text \in Texts : JsonDecode(text)
  \/ Taken

Spec == Init /\ [][Next]_vars

-----------------------------------------------------------------------------
(* What comes back of an encoded value: an array has null in its holes, the *)
(* keys of an object are strings, and one of two keys that are written in   *)
(* the same way is lost                                                     *)

RECURSIVE ComesBack(_, _)

KeyString(k) == String(Unescaped(KeyToken(k).s).s)

ComesBack(v, w) ==
  IF v.is # "table" THEN w = v
  ELSE /\ w.is = "table"
       /\ IF Keys(v) # {} /\ \A k \in Keys(v) : IsIndex(k)
            THEN LET n == Max({k.n : k \in Keys(v)}) IN
                 /\ Keys(w) = {Number(i) : i \in 1..n}
                 /\ \A k \in Keys(w) :
                      IF k \in Keys(v) THEN ComesBack(v.f[k], w.f[k]) ELSE w.f[k] = Null
            ELSE /\ Keys(w) = {KeyString(k) : k \in Keys(v)}
                 /\ \A k \in Keys(w) :
                      \E o \in Keys(v) : KeyString(o) = k /\ ComesBack(v.f[o], w.f[k])

(* The grammar of JSON, with the depth the decoder is limited to            *)

Hex == (48..57) \cup (65..70) \cup (97..102)
IsHex4(s) == s[1] = Backslash /\ s[2] = 117 /\ \A i \in 3..6 : s[i] \in Hex
Surrogate(s, second) == s[3] \in {68, 100} /\ s[4] \in second
HighDigit == {56, 57, 65, 66, 97, 98}
LowDigit == (67..70) \cup (99..102)

IsUnit(s) ==
  \/ Len(s) = 1 /\ s[1] # Backslash
  \/ Len(s) = 2 /\ s[1] = Backslash /\ s[2] \in {34, 47, 92, 98, 102, 110, 114, 116}
  \/ Len(s) = 6 /\ IsHex4(s) /\ ~Surrogate(s, HighDigit \cup LowDigit)
  \/ /\ Len(s) = 12
     /\ IsHex4(s) /\ Surrogate(s, HighDigit)
     /\ IsHex4(SubSeq(s, 7, 12)) /\ Surrogate(SubSeq(s, 7, 12), LowDigit)

IsString(s) ==
  LET legal[i \in 1 .. Len(s) + 1] ==
        \/ i = Len(s) + 1
        \/ \E n \in {1, 2, 6, 12} : /\ i + n <= Len(s) + 1
                                    /\ IsUnit(SubSeq(s, i, i + n - 1))
                                    /\ legal[i + n]
  IN legal[1]

RECURSIVE IsValue(_, _)

IsMember(t, d) ==
  /\ Len(t) > 2
  /\ t[1].is = "string" /\ IsString(t[1].s) /\ t[2].is = ":"
  /\ IsValue(SubSeq(t, 3, Len(t)), d)

IsList(t, d, Item(_, _)) ==
  LET list[i \in 1 .. Len(t) + 1] ==
        \E j \in i .. Len(t) : /\ Item(SubSeq(t, i, j), d)
                               /\ j = Len(t) \/ (t[j + 1].is = "," /\ list[j + 2])
  IN list[1]

IsEnclosed(t, left, right, d, Item(_, _)) ==
  /\ d > 0 /\ Len(t) > 1 /\ t[1].is = left /\ t[Len(t)].is = right
  /\ Len(t) = 2 \/ IsList(SubSeq(t, 2, Len(t) - 1), d - 1, Item)

IsValue(t, d) ==
  \/ Len(t) = 1 /\ t[1].is \in {"number", "null"}
  \/ Len(t) = 1 /\ t[1].is = "string" /\ IsString(t[1].s)
  \/ IsEnclosed(t, "[", "]", d, IsValue)
  \/ IsEnclosed(t, "{", "}", d, IsMember)

-----------------------------------------------------------------------------
(* Properties                                                               *)

(***************************************************************************)
(* What json_append_data writes without an error, json_process_value reads *)
(* and gives back the value, escapes, holes and keys included; and a value *)
(* that was read is written and read again unchanged.                      *)
(***************************************************************************)
RoundTrip ==
  /\ last.call = "encode" /\ ~Failed(last.text) =>
       Decode(last.text).ok /\ ComesBack(last.arg, Decode(last.text).v)
  /\ last.call = "decode" /\ last.result.ok =>
       Decode(Encode(last.result.v)).v = last.result.v

(***************************************************************************)
(* json_decode accepts the texts of the grammar within the depth limit and *)
(* no others: no comma too many, no unclosed or misplaced bracket, no half *)
(* of a surrogate pair.                                                    *)
(***************************************************************************)
DecodesJson == last.call = "decode" => (last.result.ok <=> IsValue(last.arg, MaxDepth))

(***************************************************************************)
(* The appends that json_append_string makes without a check stay inside   *)
(* the buffer, with room for the final NUL, whatever size the calls before *)
(* have left it; and json->tmp, made once as long as the text, holds every *)
(* string of it.                                                           *)
(***************************************************************************)
BuffersSuffice ==
  /\ ~encodeBuf.overrun
  /\ last.call = "decode" =>
       \A i \in DOMAIN last.arg :
         last.arg[i].is = "string" => Len(Unescaped(last.arg[i].s).s) <= Len(last.arg[i].s)
=============================================================================
