-------------------------------- MODULE Map --------------------------------
(***************************************************************************)
(* What a Lua program may expect of a table: it maps keys to values, its   *)
(* length is a border, and next visits each entry once as long as no entry *)
(* is added.  Table implements it.                                         *)
(***************************************************************************)
EXTENDS Integers

CONSTANTS
  Keys,
  Numbers,  (* the keys that are positive integers *)
  Nil, None

VARIABLES
  content,  (* of each key: its value or Nil; the value of a key is the key *)
  visited,  (* by the traversal under way, None if there is none *)
  length    (* the last length that was asked for, None after a change *)

vars == <<content, visited, length>>
Present == {k \in Keys : content[k] # Nil}

Init == content = [k \in Keys |-> Nil] /\ visited = None /\ length = None

Set(k, v) ==
  /\ \A j \in Keys : content'[j] = IF j = k THEN v ELSE content[j]
  /\ visited' = IF content[k] # Nil THEN visited ELSE None
  /\ length' = None

Begin == visited' = {} /\ length' = None /\ UNCHANGED content

Visit(k) ==
  /\ visited # None /\ k \in Present \ visited
  /\ visited' = visited \cup {k}
  /\ UNCHANGED <<content, length>>

End ==
  /\ visited # None /\ Present \subseteq visited
  /\ visited' = None
  /\ UNCHANGED <<content, length>>

Border(n) == (n = 0 \/ n \in Present) /\ n + 1 \notin Present \cap Numbers

Length ==
  /\ \E n \in {0} \cup Numbers : Border(n) /\ length' = n
  /\ UNCHANGED <<content, visited>>

Next ==
  \/ \E k \in Keys : Set(k, k) \/ Set(k, Nil) \/ Visit(k)
  \/ Begin \/ End \/ Length

Spec == Init /\ [][Next]_vars
=============================================================================
