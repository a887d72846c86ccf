------------------------------- MODULE MCGame -------------------------------
(* A small instance of Game for TLC. *)
EXTENDS Game, MCLaunch

\* Where the keys of Table hash to: two of the strings meet numbers.
LuaHash == [k \in Numbers \cup Strings |-> CASE k = 11 -> 0 [] k = 12 -> 4 [] k = 13 -> 3 [] OTHER -> k]
=============================================================================
