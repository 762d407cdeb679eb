--------------------------- MODULE LockerRefinement ---------------------------
(***************************************************************************)
(* The lock of Locker implements the promises of FencedLock: a state of    *)
(* the storage, the calls in flight and the callers is read as a state of  *)
(* FencedLock, and every step is then a step of FencedLock or none.        *)
(***************************************************************************)
EXTENDS Locker

LeaseHeld == lease # None /\ lease.held
LeaseSpan == IF lease = None THEN 0 ELSE lease.duration
TokenHeld == [c \in Callers |-> IF handle[c] = None THEN 0 ELSE handle[c].token]

Promise == INSTANCE FencedLock
           WITH Slack <- MaxDelay, granted <- grantedTo, held <- LeaseHeld,
                since <- writtenAt, span <- LeaseSpan, token <- TokenHeld

(* Storage faults, lost replies, late writes, crashes and the interleaving *)
(* of all calls included, the lock keeps the promises of FencedLock.       *)
KeepsPromise == Promise!Spec

(* No two callers hold a handle with the same fencing token.               *)
TokensDiffer == Promise!TokensDiffer
===============================================================================
