--------------------------- MODULE MCDebugSession ---------------------------
(* Small instances of DebugSession for TLC. *)
EXTENDS DebugSession

BothApiKinds == {"api", "apiCo"}
NoApi == {}
=============================================================================
