------------------------------- MODULE Chunks -------------------------------
(***************************************************************************)
(* Precompiled chunks: ldump.c writes a function as bytes, lundump.c reads *)
(* it back through the stream of lzio.c, whose reader hands out pieces of  *)
(* any size.                                                               *)
(***************************************************************************)
EXTENDS Bytes, SequencesExt

CONSTANTS
  IntSize, SizeSize, InstructionSize, NumberSize   (* sizeof of the C types *)

NULL == <<"none">>    \* instead of a string

-----------------------------------------------------------------------------
(* ldump.c                                                                  *)

Char(x) == Cells(x, 1)
IntCells(x) == Cells(x, IntSize)
VectorCells(v, size) == IntCells(Len(v)) \o FlattenSeq([i \in DOMAIN v |-> Cells(v[i], size)])

\* DumpString: a string counts its closing zero, none at all is a size of 0.
DumpString(s) ==
  IF s = NULL THEN Cells(0, SizeSize)
  ELSE Cells(Len(s) + 1, SizeSize) \o FlattenSeq([i \in DOMAIN s |-> Char(s[i])]) \o Char("zero")

DumpConstant(k) ==
  CASE k.type = "nil"     -> Char("nil")
    [] k.type = "boolean" -> Char("boolean") \o Char(k.v)
    [] k.type = "number"  -> Char("number") \o Cells(k.v, NumberSize)
    [] k.type = "string"  -> Char("string") \o DumpString(k.v)

DumpUpvalues(f) ==
  IntCells(Len(f.upvalues)) \o
  FlattenSeq([i \in DOMAIN f.upvalues |-> Char(f.upvalues[i].instack) \o Char(f.upvalues[i].idx)])

DumpLocVar(v) == DumpString(v.varname) \o IntCells(v.startpc) \o IntCells(v.endpc)
Kept(list, strip) == IF strip THEN <<>> ELSE list
DumpDebug(f, strip) ==
  LET names == Kept(f.upvalues, strip)
      vars == Kept(f.locvars, strip)
  IN DumpString(IF strip THEN NULL ELSE f.source) \o VectorCells(Kept(f.lineinfo, strip), IntSize) \o
     IntCells(Len(vars)) \o FlattenSeq([i \in DOMAIN vars |-> DumpLocVar(vars[i])]) \o
     IntCells(Len(names)) \o FlattenSeq([i \in DOMAIN names |-> DumpString(names[i].name)])

RECURSIVE DumpFunction(_, _)
DumpConstants(f, strip) ==
  IntCells(Len(f.k)) \o FlattenSeq([i \in DOMAIN f.k |-> DumpConstant(f.k[i])]) \o
  IntCells(Len(f.p)) \o FlattenSeq([i \in DOMAIN f.p |-> DumpFunction(f.p[i], strip)])
DumpFunction(f, strip) ==
  IntCells(f.linedefined) \o IntCells(f.lastlinedefined) \o Char(f.numparams) \o Char(f.is_vararg) \o
  Char(f.maxstacksize) \o VectorCells(f.code, InstructionSize) \o DumpConstants(f, strip) \o
  DumpUpvalues(f) \o DumpDebug(f, strip)

\* luaU_header: the signature, version and format, the sizes of the types, and a tail
\* that a conversion of texts would spoil.
Header ==
  <<Char("ESC")[1], Char("Lua")[1], Char("version")[1], Char("format")[1], Char("endianness")[1],
    Char("sizeof int")[1], Char("sizeof size_t")[1], Char("sizeof Instruction")[1],
    Char("sizeof lua_Number")[1], Char("integral")[1], Char("tail")[1]>>

Dump(f, strip) == Header \o DumpFunction(f, strip)

-----------------------------------------------------------------------------
(* lzio.c: what is left of the piece at hand, and the pieces to come        *)

\* luaZ_fill: an empty piece ends the stream.
CanFill(z) == z.blocks # <<>> /\ Head(z.blocks) # <<>>
Fill(z) == [p |-> Head(z.blocks), blocks |-> Tail(z.blocks)]

\* Wrong: the first byte of a piece is lost, luaZ_fill having taken it.
RECURSIVE ReadLosing(_, _, _)
ReadLosing(z, n, got) ==
  IF n = 0 THEN [z |-> z, got |-> got, missing |-> 0]
  ELSE IF z.p = <<>> /\ ~CanFill(z) THEN [z |-> z, got |-> got, missing |-> n]
  ELSE LET y == IF z.p = <<>> THEN [Fill(z) EXCEPT !.p = Tail(@)] ELSE z
           m == IF n <= Len(y.p) THEN n ELSE Len(y.p)
       IN ReadLosing([y EXCEPT !.p = Rest(@, m)], n - m, got \o SubSeq(y.p, 1, m))

\* luaZ_read
RECURSIVE Read(_, _, _)
Read(z, n, got) ==
  IF n = 0 THEN [z |-> z, got |-> got, missing |-> 0]
  ELSE IF z.p = <<>> /\ ~CanFill(z) THEN [z |-> z, got |-> got, missing |-> n]
  ELSE LET y == IF z.p = <<>> THEN Fill(z) ELSE z
           m == IF n <= Len(y.p) THEN n ELSE Len(y.p)
       IN Read([y EXCEPT !.p = Rest(@, m)], n - m, got \o SubSeq(y.p, 1, m))

-----------------------------------------------------------------------------
(* lundump.c: the state is the stream, what was read last, and the error    *)

Has(S, v) == [S EXCEPT !.v = v]
Failing(S, why) == [S EXCEPT !.error = IF @ = "" THEN why ELSE @]

LoadBlock(S, n) ==
  LET r == Read(S.z, n, <<>>) IN
  IF S.error # "" THEN S
  ELSE IF r.missing > 0 THEN Failing([S EXCEPT !.z = r.z], "truncated") ELSE [S EXCEPT !.z = r.z, !.v = r.got]

\* LoadVar; what bytes of several values make together is left open.
LoadVar(S, n) ==
  LET r == LoadBlock(S, n) IN
  IF r.error # "" THEN r
  ELSE IF Mixed(r.v) THEN Failing(r, "mixed") ELSE Has(r, Value(r.v))
LoadChar(S) == LoadVar(S, 1)
LoadInt(S) == LET r == LoadVar(S, IntSize) IN
  IF r.error # "" THEN [r EXCEPT !.v = 0]
  ELSE IF r.v < 0 THEN Failing(Has(r, 0), "corrupted") ELSE r

\* n values by Load, one after the other.
Many(S, n, Load(_)) ==
  FoldLeft(LAMBDA acc, i : LET r == Load(acc.S) IN [S |-> r, list |-> Append(acc.list, r.v)],
           [S |-> S, list |-> <<>>], [i \in 1..n |-> i])
Collected(r) == Has(r.S, r.list)
LoadVector(S, size) ==
  LET n == LoadInt(S) IN Collected(Many(n, n.v, LAMBDA s : LoadVar(s, size)))

LoadString(S) ==
  LET size == LoadVar(S, SizeSize) IN
  IF size.error # "" THEN size
  ELSE IF size.v = 0 THEN Has(size, NULL)
  ELSE LET s == Collected(Many(size, size.v, LoadChar)) IN Has(s, SubSeq(s.v, 1, size.v - 1))

LoadConstant(S) ==
  LET t == LoadChar(S)
      v == CASE t.v = "boolean" -> LoadChar(t)
             [] t.v = "number"  -> LoadVar(t, NumberSize)
             [] t.v = "string"  -> LoadString(t)
             [] OTHER           -> Has(t, "nothing")
  IN IF t.error # "" THEN t
     ELSE Has(v, IF t.v = "nil" THEN [type |-> "nil"] ELSE [type |-> t.v, v |-> v.v])

LoadUpvalue(S) ==
  LET instack == LoadChar(S)
      idx == LoadChar(instack)
  IN Has(idx, [instack |-> instack.v, idx |-> idx.v, name |-> NULL])

LoadLocVar(S) ==
  LET name == LoadString(S)
      start == LoadInt(name)
      end == LoadInt(start)
  IN Has(end, [varname |-> name.v, startpc |-> start.v, endpc |-> end.v])

\* LoadDebug gives names to as many upvalues as there are names.
Named(upvalues, names) ==
  [i \in DOMAIN upvalues |-> IF i \in DOMAIN names THEN [upvalues[i] EXCEPT !.name = names[i]] ELSE upvalues[i]]

RECURSIVE LoadFunction(_)
LoadFunction(S) ==
  IF S.error # "" THEN S
  ELSE LET first == LoadInt(S)
           last == LoadInt(first)
           params == LoadChar(last)
           vararg == LoadChar(params)
           stack == LoadChar(vararg)
           code == LoadVector(stack, InstructionSize)
           nk == LoadInt(code)
           k == Collected(Many(nk, nk.v, LoadConstant))
           np == LoadInt(k)
           p == Collected(Many(np, np.v, LoadFunction))
           nup == LoadInt(p)
           ups == Collected(Many(nup, nup.v, LoadUpvalue))
           source == LoadString(ups)
           lines == LoadVector(source, IntSize)
           nvars == LoadInt(lines)
           vars == Collected(Many(nvars, nvars.v, LoadLocVar))
           nnames == LoadInt(vars)
           names == Collected(Many(nnames, nnames.v, LoadString))
       IN Has(names,
            [linedefined |-> first.v, lastlinedefined |-> last.v, numparams |-> params.v, is_vararg |-> vararg.v,
             maxstacksize |-> stack.v, code |-> code.v, k |-> k.v, p |-> p.v,
             upvalues |-> Named(ups.v, names.v), source |-> source.v, lineinfo |-> lines.v, locvars |-> vars.v])

\* LoadHeader compares all of the header, whose first byte f_parser has read already.
LoadHeader(S) ==
  LET r == LoadBlock(S, Len(Header) - 1) IN
  IF r.error # "" \/ r.v = Tail(Header) THEN r ELSE Failing(r, "corrupted")

\* f_parser with checkmode: the first byte says what the chunk is, the mode what may be loaded.
Load(blocks, mode) ==
  LET z == [p |-> <<>>, blocks |-> blocks]
      c == Read(z, 1, <<>>)
      kind == IF c.missing = 0 /\ c.got[1] = Header[1] THEN "binary" ELSE "text"
  IN IF kind \notin mode THEN [z |-> z, v |-> NULL, error |-> "mode"]
     ELSE IF kind = "text" THEN [z |-> z, v |-> NULL, error |-> "parse"]
     ELSE LoadFunction(LoadHeader([z |-> c.z, v |-> NULL, error |-> ""]))

-----------------------------------------------------------------------------
(* Properties                                                               *)

\* The bytes as the reader hands them out, cut after the given places.
Pieces(bytes, cuts) ==
  LET ends == SelectSeq([k \in DOMAIN bytes |-> k], LAMBDA k : k \in cuts \/ k = Len(bytes))
  IN [i \in DOMAIN ends |-> SubSeq(bytes, IF i = 1 THEN 1 ELSE ends[i - 1] + 1, ends[i])]

RECURSIVE Stripped(_)
Stripped(f) == [f EXCEPT !.source = NULL, !.lineinfo = <<>>, !.locvars = <<>>,
  !.upvalues = [i \in DOMAIN @ |-> [@[i] EXCEPT !.name = NULL]],
  !.p = [i \in DOMAIN @ |-> Stripped(@[i])]]

\* Whatever pieces the reader hands out, what was dumped comes back, but for the names
\* and lines if they were stripped, and nothing is left in the stream.
UndumpReadsDump(f, strip, cuts) ==
  LET r == Load(Pieces(Dump(f, strip), cuts), {"binary"}) IN
  /\ r.error = "" /\ r.v = (IF strip THEN Stripped(f) ELSE f)
  /\ r.z.p = <<>> /\ r.z.blocks = <<>>

\* A chunk that ends early, or that another build has made, is refused.
RefusesOthers(f, cuts) ==
  LET bytes == Dump(f, FALSE) IN
  /\ \A n \in 0..Len(bytes) - 1 : Load(Pieces(SubSeq(bytes, 1, n), cuts), {"binary"}).error # ""
  /\ \A n \in DOMAIN Header : Load(<<[bytes EXCEPT ![n] = Char("other")[1]]>>, {"binary", "text"}).error # ""
=============================================================================
