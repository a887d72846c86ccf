------------------------------ MODULE Luabins ------------------------------
(***************************************************************************)
(* luabins, which saves a tuple of Lua values as a string and loads it     *)
(* back: a save buffer that grows by half, table headers that are written  *)
(* twice (first as a place holder, then with the sizes), and a load that   *)
(* trusts no size it reads.                                                *)
(*                                                                         *)
(* A value is [type, v]; a table has its entries in the order of lua_next  *)
(* and what lua_objlen says of it.  Strings and numbers are sequences of their *)
(* characters.                                                             *)
(***************************************************************************)
EXTENDS Bytes, FiniteSets, SequencesExt

LOCAL INSTANCE FiniteSetsExt

CONSTANTS
  LINT, LSIZET, LNUMBER,   (* bytes of a count, of a length, of a number *)
  MAXTUPLE, MAXTABLENESTING, MAXASIZE,
  SaveMinAlloc             (* LUABINS_SAVEMINALLOC *)

Tags == [nil |-> "-", false |-> "0", true |-> "1", number |-> "N", string |-> "S", table |-> "T"]
NaN == [type |-> "number", v |-> <<"nan">>]

-----------------------------------------------------------------------------
(* savebuffer.c: bytes up to end, the size of the buffer, how many more     *)
(* allocations succeed, whether the last one did, and whether a byte was    *)
(* ever written past the size.                                              *)

Empty(allocs) == [bytes |-> <<>>, size |-> 0, allocs |-> allocs, ok |-> TRUE, overrun |-> FALSE]

\* Wrong: the size grows just once.
NewSizeOnce(size, needed) == size + Max({size \div 2, SaveMinAlloc})
\* The sizes that lbsSB_grow tries: each adds half of the last to the increment.
NewSize(size, needed) ==
  LET first == Max({size \div 2, SaveMinAlloc})
      enough[add \in Nat, new \in Nat] ==
        IF new >= needed THEN new ELSE enough[add + (new \div 2), new + add + (new \div 2)]
  IN enough[first, size + first]

\* A failed allocation loses what was in the buffer.
lbsSB_grow(sb, delta) ==
  LET needed == Len(sb.bytes) + delta IN
  IF needed <= sb.size THEN [sb EXCEPT !.ok = TRUE]
  ELSE IF sb.allocs = 0 THEN [sb EXCEPT !.bytes = <<>>, !.size = 0, !.ok = FALSE]
  ELSE [sb EXCEPT !.size = NewSize(sb.size, needed), !.allocs = @ - 1, !.ok = TRUE]

\* lbsSB_overwrite at an offset; at the end it appends (lbsSB_write).
Put(sb, offset, cells) ==
  LET end == offset + Len(cells)
      bytes == SubSeq(sb.bytes, 1, offset) \o cells \o Rest(sb.bytes, end)
  IN [sb EXCEPT !.bytes = bytes, !.overrun = @ \/ Len(bytes) > sb.size]
lbsSB_write(sb, cells) ==
  LET g == lbsSB_grow(sb, Len(cells)) IN IF g.ok THEN Put(g, Len(g.bytes), cells) ELSE g
lbsSB_overwrite(sb, offset, cells) ==
  LET at == Min({offset, Len(sb.bytes)})
      g == IF at + Len(cells) > Len(sb.bytes) THEN lbsSB_grow(sb, Len(cells)) ELSE [sb EXCEPT !.ok = TRUE]
  IN IF g.ok THEN Put(g, at, cells) ELSE g

-----------------------------------------------------------------------------
(* write.c                                                                  *)

WriteTag(sb, type) == lbsSB_write(sb, Cells(Tags[type], 1))

\* Makes room first, so that the parts cannot fail.
writeTableHeaderAt(sb, offset, array_size, hash_size) ==
  LET g == lbsSB_grow(sb, 1 + LINT + LINT)
      at == Min({offset, Len(g.bytes)})
      tag == lbsSB_overwrite(g, at, Cells(Tags.table, 1))
      array == lbsSB_overwrite(tag, at + 1, Cells(array_size, LINT))
  IN IF g.ok THEN [lbsSB_overwrite(array, at + 1 + LINT, Cells(hash_size, LINT)) EXCEPT !.ok = TRUE] ELSE g

writeNumber(sb, n) ==
  LET g == lbsSB_grow(sb, 1 + LNUMBER) IN
  IF g.ok THEN lbsSB_write(WriteTag(g, "number"), Cells(n, LNUMBER)) ELSE g
writeString(sb, s) ==
  LET g == lbsSB_grow(sb, 1 + LSIZET + Len(s))
      length == lbsSB_write(WriteTag(g, "string"), Cells(Len(s), LSIZET))
  IN IF g.ok THEN lbsSB_write(length, FlattenSeq([i \in DOMAIN s |-> Cells(s[i], 1)])) ELSE g

-----------------------------------------------------------------------------
(* save.c: the buffer and an error                                          *)

Saved(sb) == [sb |-> sb, error |-> IF sb.ok THEN "" ELSE "ETOOLONG"]
SaveError(sb, error) == [sb |-> sb, error |-> error]

RECURSIVE save_value(_, _, _)

\* The result of the place holder is lost: only that of the room after it counts.
save_table(sb, t, nesting) ==
  LET header == Len(sb.bytes)
      room == lbsSB_grow(writeTableHeaderAt(sb, Len(sb.bytes), 0, 0), LINT + LINT)
      Pair(acc, e) ==
        LET key == save_value(acc.sb, e[1], nesting) IN
        IF acc.error # "" THEN acc ELSE IF key.error # "" THEN key ELSE save_value(key.sb, e[2], nesting)
      all == FoldLeft(Pair, Saved(room), t.entries)
      array_size == Min({Len(t.entries), t.objlen})
  IN IF nesting > MAXTABLENESTING THEN SaveError(sb, "ETOODEEP")
     ELSE IF all.error # "" THEN all
     ELSE Saved(writeTableHeaderAt(all.sb, header, array_size, Len(t.entries) - array_size))

save_value(sb, value, nesting) ==
  CASE value.type \in {"nil", "false", "true"} -> Saved(WriteTag(sb, value.type))
    [] value.type = "number" -> Saved(writeNumber(sb, value.v))
    [] value.type = "string" -> Saved(writeString(sb, value.v))
    [] value.type = "table"  -> save_table(sb, value, nesting + 1)
    [] OTHER                 -> SaveError(sb, "EBADTYPE")

\* luabins_save of a tuple.  Whether the tuple size could be written is not asked.
luabins_save(tuple, allocs) ==
  LET sized == lbsSB_write(Empty(allocs), Cells(Len(tuple), 1))
      Item(acc, value) == IF acc.error # "" THEN acc ELSE save_value(acc.sb, value, 0)
  IN IF Len(tuple) - 1 > MAXTUPLE THEN SaveError(Empty(allocs), "EFAILURE")
     ELSE FoldLeft(Item, SaveError(sized, ""), tuple)

-----------------------------------------------------------------------------
(* load.c: what is unread, whether the state is good, the value loaded last *)

Good(ls, v) == [ls EXCEPT !.v = v]
LoadError(ls, error) == [ls EXCEPT !.error = error]
Loading(bytes) == [unread |-> bytes, v |-> <<>>, error |-> ""]

\* lbsLS_eat
Eat(ls, n, error) ==
  IF Len(ls.unread) < n THEN LoadError([ls EXCEPT !.unread = <<>>], error)
  ELSE [ls EXCEPT !.unread = Rest(@, n), !.v = SubSeq(ls.unread, 1, n)]
ReadValue(ls, n) ==
  LET r == Eat(ls, n, "EBADDATA") IN
  IF r.error # "" THEN r ELSE IF Mixed(r.v) THEN LoadError(r, "mixed") ELSE Good(r, Value(r.v))

LMINLARGEVALUE == Min({1 + LINT + LINT, 1 + LSIZET})
\* Two entries may have a key of one byte, a boolean; all others are larger.
min_table_data_size(total) == IF total > 2 THEN 2 * 2 + (total - 2) * (LMINLARGEVALUE + 1) ELSE total * 2

RECURSIVE load_value(_)

\* The entry is the last of its key: lua_rawset writes over an earlier one.
RawSet(entries, k, v) == Append(SelectSeq(entries, LAMBDA e : e[1] # k), <<k, v>>)

load_table(ls) ==
  LET array == ReadValue(ls, LINT)
      hash == ReadValue(array, LINT)
      total == array.v + hash.v
      Pair(acc, i) ==
        LET key == load_value(acc)
            value == load_value(key)
        IN IF acc.error # "" THEN acc
           ELSE IF key.error # "" THEN key
           ELSE IF key.v.type = "nil" \/ key.v = NaN THEN LoadError(key, "EBADDATA")
           ELSE IF value.error # "" THEN value
           ELSE Good(value, RawSet(acc.v, key.v, value.v))
      all == FoldLeft(Pair, Good(hash, <<>>), [i \in 1..total |-> i])
  IN IF array.error # "" THEN array
     ELSE IF hash.error # "" THEN hash
     ELSE IF array.v \notin 0..MAXASIZE \/ hash.v < 0 \/ Len(hash.unread) < min_table_data_size(total)
       THEN LoadError(hash, "EBADSIZE")
     ELSE IF all.error # "" THEN all ELSE Good(all, [type |-> "table", entries |-> all.v])

load_string(ls) ==
  LET length == ReadValue(ls, LSIZET)
      s == Eat(length, length.v, "EBADSIZE")
  IN IF length.error # "" THEN length ELSE IF s.error # "" THEN s
     ELSE Good(s, [type |-> "string", v |-> [i \in DOMAIN s.v |-> s.v[i].of]])

load_value(ls) ==
  LET tag == ReadValue(ls, 1)
      types == {t \in DOMAIN Tags : Tags[t] = tag.v}
      number == ReadValue(tag, LNUMBER)
  IN CASE tag.error # "" -> tag
       [] tag.error = "" /\ types = {} -> LoadError(tag, "EBADDATA")
       [] tag.error = "" /\ types = {"number"} ->
            IF number.error # "" THEN number ELSE Good(number, [type |-> "number", v |-> number.v])
       [] tag.error = "" /\ types = {"string"} -> load_string(tag)
       [] tag.error = "" /\ types = {"table"} -> load_table(tag)
       [] OTHER -> Good(tag, [type |-> CHOOSE t \in types : TRUE])

luabins_load(bytes) ==
  LET n == ReadValue(Loading(bytes), 1)
      Item(acc, i) == LET r == load_value(acc) IN
        IF acc.error # "" THEN acc ELSE IF r.error # "" THEN r ELSE Good(r, Append(acc.v, r.v))
      all == FoldLeft(Item, Good(n, <<>>), [i \in 1..n.v |-> i])
  IN IF n.error # "" THEN n
     ELSE IF n.v > MAXTUPLE THEN LoadError(n, "EBADSIZE")
     ELSE IF all.error = "" /\ all.unread # <<>> THEN LoadError(all, "ETAILEFT") ELSE all

-----------------------------------------------------------------------------
(* Properties of a tuple                                                    *)

\* Which values can be saved, how deep, and what is left of one: a table is the set of its
\* entries.
RECURSIVE Savable(_, _), Plain(_)
Savable(value, depth) ==
  CASE value.type = "table" -> depth < MAXTABLENESTING /\
         \A i \in DOMAIN value.entries : \A x \in ToSet(value.entries[i]) : Savable(x, depth + 1)
    [] OTHER -> value.type \in DOMAIN Tags
Plain(value) ==
  IF value.type # "table" THEN value
  ELSE [type |-> "table", entries |-> {<<Plain(e[1]), Plain(e[2])>> : e \in ToSet(value.entries)}]

\* What can be saved is loaded as it was, the rest is refused.
SaveLoad(tuple, allocs) ==
  LET saved == luabins_save(tuple, allocs)
      loaded == luabins_load(saved.sb.bytes)
  IN IF \A i \in DOMAIN tuple : Savable(tuple[i], 0)
       THEN /\ saved.error = "" /\ loaded.error = ""
            /\ [i \in DOMAIN loaded.v |-> Plain(loaded.v[i])] = [i \in DOMAIN tuple |-> Plain(tuple[i])]
     ELSE saved.error \in {"EBADTYPE", "ETOODEEP"}

\* No part of what was saved, and nothing longer, is taken for a tuple.
RefusesCut(tuple, allocs) ==
  LET saved == luabins_save(tuple, allocs)
      bytes == saved.sb.bytes
  IN saved.error = "" =>
  /\ \A n \in 0..Len(bytes) - 1 : luabins_load(SubSeq(bytes, 1, n)).error # ""
  /\ luabins_load(bytes \o Cells(Tags.nil, 1)).error = "ETAILEFT"

\* Nor is what no save has written.
RefusesGarbage(bytes) == luabins_load(bytes).error # ""

\* No byte is written past the buffer, whichever allocation is the last to succeed.
StaysInBuffer(tuple, allocs) == ~luabins_save(tuple, allocs).sb.overrun
=============================================================================
