----------------------------- MODULE Coroutines -----------------------------
(***************************************************************************)
(* What the Lua manual promises of calls, errors and coroutines, without   *)
(* saying how: each thread has a stack of calls; an error goes to the      *)
(* innermost protected call of its own thread, or else ends the thread; a  *)
(* coroutine that yields keeps its calls and goes on with them later.      *)
(* Calls implements it.                                                    *)
(***************************************************************************)
EXTENDS Integers, Sequences, FiniteSets

CONSTANTS Threads, Main

VARIABLES
  calls,   (* of each thread: lua, pcall, each or resume, outermost first *)
  chain,   (* who has resumed whom, the running thread last *)
  status   (* of each thread: fresh, live or dead *)

vars == <<calls, chain, status>>
Running == chain[Len(chain)]
Stack == calls[Running]

Init ==
  /\ calls = [t \in Threads |-> IF t = Main THEN <<"pcall">> ELSE <<>>]
  /\ chain = <<Main>>
  /\ status = [t \in Threads |-> IF t = Main THEN "live" ELSE "fresh"]

\* Code calls something.
Enter(what) ==
  /\ Stack # <<>>
  /\ calls' = [calls EXCEPT ![Running] = Append(@, what)]
  /\ UNCHANGED <<chain, status>>

Leave ==
  /\ Len(Stack) > IF Running = Main THEN 1 ELSE 0
  /\ calls' = [calls EXCEPT ![Running] = SubSeq(@, 1, Len(@) - 1)]
  /\ UNCHANGED <<chain, status>>

\* The end of a coroutine, after its last call or with an error: back to the resumer.
Over ==
  /\ Running # Main
  /\ calls' = [calls EXCEPT ![Running] = <<>>]
  /\ status' = [status EXCEPT ![Running] = "dead"]
  /\ chain' = SubSeq(chain, 1, Len(chain) - 1)

Finish == Stack = <<>> /\ Over

Protected == {i \in DOMAIN Stack : Stack[i] = "pcall"}

Throw ==
  IF Protected = {} THEN Over
  ELSE \E i \in Protected :
         /\ \A j \in Protected : j <= i
         /\ calls' = [calls EXCEPT ![Running] = SubSeq(@, 1, i)]
         /\ UNCHANGED <<chain, status>>

Resume(t) ==
  /\ t \notin {chain[i] : i \in DOMAIN chain} /\ status[t] # "dead"
  /\ Stack # <<>> /\ Stack[Len(Stack)] = "resume"
  /\ calls' = [calls EXCEPT ![t] = IF status[t] = "fresh" THEN <<"lua">> ELSE @]
  /\ status' = [status EXCEPT ![t] = "live"]
  /\ chain' = Append(chain, t)

\* A C function without a continuation cannot be gone on with.
Yield ==
  /\ Running # Main /\ Stack # <<>> /\ \A i \in DOMAIN Stack : Stack[i] # "each"
  /\ chain' = SubSeq(chain, 1, Len(chain) - 1)
  /\ UNCHANGED <<calls, status>>

Next ==
  \/ \E what \in {"lua", "pcall", "each", "resume"} : Enter(what)
  \/ Leave \/ Finish \/ Throw \/ Yield
  \/ \E t \in Threads : Resume(t)

Spec == Init /\ [][Next]_vars
=============================================================================
