------------------------------- MODULE Table -------------------------------
(***************************************************************************)
(* The tables of the Lua runtime: an array part, and a hash part whose     *)
(* nodes are chained in one vector.  A key that does not find its main     *)
(* position free evicts a node that is not in its own, or goes to a free   *)
(* one; without any the table is rehashed.                                 *)
(*                                                                         *)
(* The hash of a key is given; a vector has 2^n nodes, numbered from 1, or *)
(* is dummynode.  A value is present (the key itself) or Nil.  Metatables, *)
(* and keys that the collector has marked as dead, are left out.           *)
(***************************************************************************)
EXTENDS Integers, Sequences, FiniteSets, FiniteSetsExt

CONSTANTS
  Numbers,  (* keys that are positive integers *)
  Strings,  (* other keys *)
  Hash,     (* of each key *)
  Powers,   (* bound: the sizes that a vector of nodes can have *)
  Nil, None

VARIABLES
  table,    (* [array, node, lastfree] *)
  cursor,   (* the key that next was given last; Nil at the beginning, None without a traversal *)
  visited,  (* history: the keys that the traversal has returned *)
  length    (* history: what luaH_getn has returned last *)

tableVars == <<table, cursor, visited, length>>

Keys == Numbers \cup Strings

\* Assumed of the constants: vectors can be as long as there are keys, and twice a
\* number that is a key is still one (MAX_INT).
TableLimits ==
  /\ IsFiniteSet(Keys) /\ Numbers \subseteq Nat \ {0} /\ Numbers \cap Strings = {}
  /\ Nil \notin Keys /\ None \notin Keys \cup {Nil} /\ \A S \in SUBSET Keys : S # None
  /\ Hash \in [Keys -> Nat]
  /\ \A p \in Powers : p \in Nat \ {0} /\ (p = 1 \/ \E q \in Powers : p = q + q)
  /\ \E m \in Powers : /\ \A p \in Powers : p <= m
                       /\ Cardinality(Keys) <= m /\ \A n \in Numbers : n < m

-----------------------------------------------------------------------------
(* Search                                                                   *)

FreeNode == [key |-> Nil, val |-> Nil, next |-> 0]
Setnodevector(n) ==
  IF n = 0 THEN <<>> ELSE [i \in 1..Min({p \in Powers : p >= n}) |-> FreeNode]

\* hashmod takes an odd number for numbers, lmod a power of two for strings.
Mainposition(node, k) ==
  LET size == Len(node)
      odd == IF size <= 2 THEN 1 ELSE size - 1
  IN 1 + IF k \in Numbers THEN Hash[k] % odd ELSE Hash[k] % size

\* From each node on, the nodes of its chain; none from 0, the end of one.
Chain(node) ==
  LET from[i \in 0..Len(node)] == IF i = 0 THEN {} ELSE {i} \cup from[node[i].next]
  IN from

\* Where the key stands: a node, or 0.
Find(node, k) ==
  LET found == IF node = <<>> THEN {} ELSE {i \in Chain(node)[Mainposition(node, k)] : node[i].key = k}
  IN IF found = {} THEN 0 ELSE CHOOSE i \in found : TRUE

InArray(t, k) == k \in Numbers /\ k <= Len(t.array)

Get(t, k) ==
  IF InArray(t, k) THEN t.array[k]
  ELSE LET i == Find(t.node, k) IN IF i = 0 THEN Nil ELSE t.node[i].val

-----------------------------------------------------------------------------
(* New keys                                                                 *)

\* getfreepos: from the last free node downwards, those that never had a key.
Getfreepos(t) == Max({0} \cup {i \in 1 .. t.lastfree - 1 : t.node[i].key = Nil})

\* Wrong: the chain of the node that is moved still goes by its old place.
EvictUnlinked(node, mp, n, k) ==
  [node EXCEPT ![n] = node[mp], ![mp] = [key |-> k, val |-> k, next |-> 0]]

\* The node at mp is not in its main position: it moves to n, and the key takes mp.
Evict(node, mp, n, k) ==
  LET before == CHOOSE i \in Chain(node)[Mainposition(node, node[mp].key)] : node[i].next = mp
  IN [node EXCEPT ![before].next = n, ![n] = node[mp], ![mp] = [key |-> k, val |-> k, next |-> 0]]

\* The node at mp stays; the key goes to n, behind it in the chain.
Chained(node, mp, n, k) ==
  [node EXCEPT ![mp].next = n, ![n] = [key |-> k, val |-> k, next |-> node[mp].next]]

Full(t, k) ==
  \/ t.node = <<>>
  \/ t.node[Mainposition(t.node, k)].val # Nil /\ Getfreepos(t) = 0

\* luaH_newkey of a table with a place for the key.
Place(t, k) ==
  LET mp == Mainposition(t.node, k)
      n == Getfreepos(t)
  IN IF t.node[mp].val = Nil
       THEN [t EXCEPT !.node[mp] = [key |-> k, val |-> k, next |-> t.node[mp].next]]
       ELSE [t EXCEPT !.lastfree = n,
                      !.node = IF Mainposition(t.node, t.node[mp].key) # mp
                                 THEN Evict(t.node, mp, n, k) ELSE Chained(t.node, mp, n, k)]

\* luaH_set with the key as its value, where no rehash is due.
Insert(t, k) ==
  IF InArray(t, k) THEN [t EXCEPT !.array[k] = k]
  ELSE IF Find(t.node, k) # 0 THEN [t EXCEPT !.node[Find(t.node, k)].val = k]
  ELSE Place(t, k)

-----------------------------------------------------------------------------
(* Rehash                                                                   *)

Used(t) == {k \in Keys : Get(t, k) # Nil}

\* The largest n such that more than n / 2 of the slots 1 to n are in use.
Computesizes(numbers) ==
  LET upTo(n) == Cardinality({k \in numbers : k <= n})
  IN Max({0} \cup {n \in Powers : 2 * upTo(n) > n /\ \E k \in numbers : k <= n /\ 2 * k > n})

\* The vanishing slice of the array first, then the old nodes from the last one down.
Moved(t, nasize) ==
  LET size == Len(t.node)
      live(old) == IF old.val = Nil THEN Nil ELSE old.key
  IN SubSeq(t.array, nasize + 1, Len(t.array)) \o [i \in 1..size |-> live(t.node[size + 1 - i])]

Resize(t, nasize, nhsize) ==
  LET node == Setnodevector(nhsize)
      fresh == [array |-> [i \in 1..nasize |-> IF i <= Len(t.array) THEN t.array[i] ELSE Nil],
                node |-> node, lastfree |-> Len(node) + 1]
      moved == Moved(t, nasize)
      after[i \in 0..Len(moved)] ==
        IF i = 0 THEN fresh
        ELSE IF moved[i] = Nil THEN after[i - 1] ELSE Insert(after[i - 1], moved[i])
  IN after[Len(moved)]

Rehash(t, k) ==
  LET used == Used(t) \cup {k}
      nasize == Computesizes(used \cap Numbers)
      inArray == {n \in used \cap Numbers : n <= nasize}
  IN Resize(t, nasize, Cardinality(used \ inArray))

\* luaH_set
SetKey(t, k) ==
  IF InArray(t, k) \/ Find(t.node, k) # 0 \/ ~Full(t, k) THEN Insert(t, k)
  ELSE Insert(Rehash(t, k), k)

\* A key that is not there stays away: lua_rawset creates a node for a nil too.
ClearKey(t, k) ==
  LET there == SetKey(t, k)
  IN IF InArray(there, k) THEN [there EXCEPT !.array[k] = Nil]
     ELSE [there EXCEPT !.node[Find(there.node, k)].val = Nil]

-----------------------------------------------------------------------------
(* Length and traversal                                                     *)

Absent(t, n) == n \notin Numbers \/ Get(t, n) = Nil

\* One binary search for a border between i (present, or 0) and j (absent): each
\* round makes it less far from the one to the other.
Halved(t, i, j) ==
  LET m == (i + j) \div 2 IN
  IF j - i <= 1 THEN <<i, j>> ELSE IF Absent(t, m) THEN <<i, m>> ELSE <<m, j>>

Between(t, i, j) ==
  LET after[r \in 0..j] == IF r = 0 THEN <<i, j>> ELSE Halved(t, after[r - 1][1], after[r - 1][2])
  IN after[j][1]

\* Doubles the number after j until it is absent.
UnboundSearch(t, j) ==
  LET absent == Min({n \in {(j + 1) * p : p \in Powers} : Absent(t, n)})
  IN Between(t, IF absent = j + 1 THEN j ELSE absent \div 2, absent)

Getn(t) ==
  LET j == Len(t.array) IN
  IF j > 0 /\ t.array[j] = Nil THEN Between(t, 0, j)
  ELSE IF t.node = <<>> THEN j
  ELSE UnboundSearch(t, j)

\* Positions of the traversal: the array, then the nodes; 0 before the first.
Findindex(t, k) ==
  IF k = Nil THEN 0 ELSE IF InArray(t, k) THEN k ELSE Len(t.array) + Find(t.node, k)

KeyAt(t, i) ==
  IF i <= Len(t.array) THEN t.array[i]
  ELSE LET n == t.node[i - Len(t.array)] IN IF n.val = Nil THEN Nil ELSE n.key

\* The keys after the one at a position, in the order of the traversal.
After(t, i) ==
  {j \in i + 1 .. Len(t.array) + Len(t.node) : KeyAt(t, j) # Nil}

-----------------------------------------------------------------------------
TableInit ==
  /\ table = [array |-> <<>>, node |-> <<>>, lastfree |-> 1]
  /\ cursor = None /\ visited = {} /\ length = None

\* A traversal goes on only while the program adds no entry.
Changes(k) ==
  /\ length' = None
  /\ IF Get(table, k) = Nil THEN cursor' = None /\ visited' = {} ELSE UNCHANGED <<cursor, visited>>

Set(k) == table' = SetKey(table, k) /\ Changes(k)

Clear(k) == table' = ClearKey(table, k) /\ Changes(k)

\* OP_SETLIST makes room in the array before it stores.
Resizearray(n) ==
  /\ cursor = None /\ n > Len(table.array)
  /\ table' = Resize(table, n, Len(table.node))
  /\ UNCHANGED <<cursor, visited, length>>

Begin == cursor' = Nil /\ visited' = {} /\ length' = None /\ UNCHANGED table

\* lua_next; a key that is not found any more is an error, after which the model has
\* no step.
NextKey ==
  /\ cursor # None
  /\ cursor # Nil => InArray(table, cursor) \/ Find(table.node, cursor) # 0
  /\ LET after == After(table, Findindex(table, cursor)) IN
     IF after = {} THEN cursor' = None /\ visited' = {}
     ELSE cursor' = KeyAt(table, Min(after)) /\ visited' = visited \cup {cursor'}
  /\ UNCHANGED <<table, length>>

\* The length does not depend on the traversal, so it is asked for outside of it.
Length ==
  /\ cursor = None /\ length' = Getn(table)
  /\ UNCHANGED <<table, cursor, visited>>

TableNext ==
  \/ \E k \in Keys : Set(k) \/ Clear(k)
  \/ \E n \in Numbers : Resizearray(n)
  \/ Begin \/ NextKey \/ Length

TableSpec == TableInit /\ [][TableNext]_tableVars

-----------------------------------------------------------------------------
(* Properties                                                               *)

M == INSTANCE Map WITH
       content <- [k \in Keys |-> Get(table, k)],
       visited <- IF cursor = None THEN None ELSE visited

\* However its nodes are moved, chained and rehashed, the table holds what was
\* stored, the length is a border of it, and a traversal that changes and clears
\* entries on its way still meets each of those that remain once.
StartsAsMap == M!Init
StepsAsMap == [M!Next]_(M!vars)
ImplementsMap == M!Spec
=============================================================================
