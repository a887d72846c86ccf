------------------------------- MODULE Bytes -------------------------------
(***************************************************************************)
(* Memory as the serializers see it: a value of n bytes is n cells, so     *)
(* that a cut, or a wrong size, may go through the middle of one.  What    *)
(* cells of several values would make together is left open (Mixed).       *)
(***************************************************************************)
EXTENDS Integers, Sequences

Cells(v, n) == [b \in 1..n |-> [of |-> v, byte |-> b]]
Mixed(cells) == \E b \in DOMAIN cells : cells[b] # [of |-> cells[1].of, byte |-> b]
Value(cells) == cells[1].of
Rest(bytes, n) == SubSeq(bytes, n + 1, Len(bytes))
=============================================================================
