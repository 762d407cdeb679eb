------------------------------ MODULE MCObjects -------------------------------
(* An instance of Objects for TLC, with the invariant of the proofs: two   *)
(* callers and two Objects.                                                *)
EXTENDS ObjectsInduction, TLC

CONSTANTS a, b, P, Q

\* Each caller has an Object of its own, or both have the same.
ApartOrShared == [{a, b} -> {P, Q}]

\* Nothing tells the callers apart, nor the Objects.
Places == Permutations({a, b}) \cup Permutations({P, Q})
===============================================================================
