---------------------------- MODULE RequestReply ----------------------------
(***************************************************************************)
(* What the debug adapter promises to the client about requests, without   *)
(* saying where they are handled: they are accepted in the order in which  *)
(* they were sent, several may be open at once (a stop inside of an        *)
(* evaluation is served before the evaluation is answered), and each is    *)
(* answered at most once, while it is open.  A request may be dropped      *)
(* without an answer; what was answered is never open again.               *)
(***************************************************************************)
EXTENDS Integers, Sequences

CONSTANT Ids      (* the identities of requests: numbers, in the order of sending *)

VARIABLES next,       (* the identity of the next request             *)
          pending,    (* sent and not accepted yet, oldest first      *)
          open,       (* accepted and neither answered nor dropped    *)
          answered

vars == <<next, pending, open, answered>>

Init == next = 1 /\ pending = <<>> /\ open = {} /\ answered = {}

Send ==
  /\ next \in Ids
  /\ pending' = Append(pending, next) /\ next' = next + 1
  /\ UNCHANGED <<open, answered>>

Accept ==
  /\ pending # <<>>
  /\ pending' = Tail(pending)
  /\ open' = open \cup {Head(pending)}
  /\ UNCHANGED <<next, answered>>

Reply(s) ==
  /\ s \in open
  /\ open' = open \ {s} /\ answered' = answered \cup {s}
  /\ UNCHANGED <<next, pending>>

\* A handler that raises, or a poll that dies, leaves its request unanswered.
Abandon(s) ==
  /\ s \in open
  /\ open' = open \ {s}
  /\ UNCHANGED <<next, pending, answered>>

\* A pause is dropped in a debug loop and answered by no response in poll.
Discard ==
  /\ pending # <<>>
  /\ pending' = Tail(pending)
  /\ UNCHANGED <<next, open, answered>>

\* The connection breaks: a suffix of what was sent does not arrive.
Lose ==
  /\ \E n \in 0..Len(pending) : pending' = SubSeq(pending, 1, n)
  /\ UNCHANGED <<next, open, answered>>

Next == Send \/ Accept \/ Discard \/ Lose \/ \E s \in Ids : Reply(s) \/ Abandon(s)

Spec == Init /\ [][Next]_vars
=============================================================================
