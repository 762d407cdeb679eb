------------------------------- MODULE MCLocker -------------------------------
(***************************************************************************)
(* Instances of Locker for TLC: two callers in processes of their own.     *)
(***************************************************************************)
EXTENDS LockerInduction, TLC

CONSTANTS a, b, P, Q

\* Callers a and b, each with a Locker of its own.
ApartLockerOf == (a :> P) @@ (b :> Q)
ApartOwnerOf == ApartLockerOf
ShortTTL == (a :> 1) @@ (b :> 1)
MixedTTL == (a :> 2) @@ (b :> 1)
NoGrace == (a :> 0) @@ (b :> 0)
UnitGrace == (a :> 1) @@ (b :> 1)
SkewedClocks == (P :> 3) @@ (Q :> 0)
EqualClocks == (P :> 0) @@ (Q :> 0)

\* The callers may change places, each with its process, where nothing tells them apart.
Places == {p \in Permutations({a, b, P, Q}) :
               {p[a], p[b]} = {a, b} /\ (p[a] = a <=> p[P] = P)}
===============================================================================
