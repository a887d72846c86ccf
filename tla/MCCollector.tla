---------------------------- MODULE MCCollector ----------------------------
(***************************************************************************)
(* Small programs for the collector: the registry and up to four objects   *)
(* of given kinds, two stack slots, a few steps.  One run explores all     *)
(* programs of its set.                                                    *)
(***************************************************************************)
EXTENDS Collector

CONSTANTS a, b, c, d, e

MCObjects == {a, b, c, d, e}
MCLevels == {1, 2}

Uses(x, y, z, w) ==
  [o \in MCObjects |-> CASE o = a -> x [] o = b -> y [] o = c -> z [] o = d -> w [] OTHER -> "table"]
Works(kinds, fin, asks, n) == [kind |-> kinds, gc |-> fin, asks |-> asks, steps |-> n]

Tables2   == Works(Uses("table", "table", "unused", "unused"), {}, {"gen", "normal", "full"}, 4)
Userdata2 == Works(Uses("table", "userdata", "unused", "unused"), {a, b}, {"full"}, 4)
Young     == Works(Uses("table", "userdata", "unused", "unused"), {a, b}, {"gen"}, 5)
Ephemeral == Works(Uses("ephemeron", "table", "unused", "unused"), {}, {}, 5)
Closures  == Works(Uses("closure", "proto", "upval", "unused"), {}, {"gen"}, 6)
Coroutine == Works(Uses("thread", "proto", "upval", "closure"), {}, {}, 4)
Interning == Works(Uses("string", "allweak", "unused", "unused"), {}, {"full"}, 4)
WeakValue == Works(Uses("weakvalue", "table", "unused", "unused"), {b}, {}, 5)

MCPrograms == {Tables2, Userdata2, Young, Ephemeral, Closures, Coroutine, Interning, WeakValue}
JustUserdata == {[Userdata2 EXCEPT !.steps = 7, !.asks = {}]}
JustEphemeral == {[Ephemeral EXCEPT !.steps = 7, !.asks = {}]}

\* The defect of luaC_checkfinalizer (see the README) is kept out: no object is moved while it is to be swept.
Unmoved == ~strayed
=============================================================================
