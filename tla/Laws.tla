-------------------------------- MODULE Laws --------------------------------
(* Functions without state: a part takes one of its samples, and the laws   *)
(* that its results obey are evaluated for it.                              *)

CONSTANTS
  Samples,      (* of each part, the inputs *)
  Holds(_, _)   (* of each law, whether it does for an input *)

VARIABLES part, sample

Init == sample = <<>>
Take == part \in DOMAIN Samples /\ sample = <<>> /\ sample' \in Samples[part]

\* A law of a part.
Obeys(p, law) == part = p /\ sample # <<>> => Holds(law, sample)
=============================================================================
