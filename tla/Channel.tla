------------------------------ MODULE Channel ------------------------------
(***************************************************************************)
(* What the adapter relies on when it talks of messages: they arrive whole,*)
(* once, and in the order in which they were sent; only a connection that  *)
(* breaks loses some, and then the last ones.                              *)
(***************************************************************************)
EXTENDS Integers, Sequences

CONSTANT Limit    (* bound: messages sent in one connection *)

VARIABLES sent,     (* how many messages have been sent *)
          queue,    (* those that can still arrive, oldest first *)
          broken

vars == <<sent, queue, broken>>

Init == sent = 0 /\ queue = <<>> /\ broken = FALSE

Send ==
  /\ ~broken /\ sent < Limit
  /\ sent' = sent + 1 /\ queue' = Append(queue, sent + 1)
  /\ UNCHANGED broken

Receive == queue # <<>> /\ queue' = Tail(queue) /\ UNCHANGED <<sent, broken>>

Break ==
  /\ ~broken /\ broken' = TRUE
  /\ \E n \in 0..Len(queue) : queue' = SubSeq(queue, 1, n)
  /\ UNCHANGED sent

Next == Send \/ Receive \/ Break

Spec == Init /\ [][Next]_vars
=============================================================================
