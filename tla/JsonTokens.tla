----------------------------- MODULE JsonTokens -----------------------------
(* Lua values and the tokens of a JSON text, as Json has them.              *)
EXTENDS Integers, Sequences, SequencesExt, TLC

Null == [is |-> "null"]
Number(n) == [is |-> "number", n |-> n]
String(s) == [is |-> "string", s |-> s]
Function == [is |-> "function"]
TableOf(f) == [is |-> "table", f |-> f]
Keys(v) == DOMAIN v.f

Mark(c) == [is |-> c]
=============================================================================
