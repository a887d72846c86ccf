----------------------------- MODULE MCStepper -----------------------------
(* Small instances of Stepper for TLC. *)
EXTENDS Stepper, TLC

CONSTANTS co1, co2

TwoCoroutines == {co1, co2}
OnlyCreated == {}
OneWrapped == {co2}
HookEntries == {"halt"}
AllEntries == {"halt", "pause", "api", "apiCo"}

\* Coroutines that are made the same way are interchangeable.
AnyCoroutine == Permutations(TwoCoroutines)
=============================================================================
