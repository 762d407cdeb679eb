---------------------------- MODULE HeldLockProofs ----------------------------
(***************************************************************************)
(* Theorems about HeldLock: whatever is lost, delayed or dies, and however *)
(* many callers there are, WithLock returns nil only if its caller had the *)
(* lock to itself, and it releases only when its renewals have stopped.    *)
(***************************************************************************)
EXTENDS HeldLock, TLAPS

\* A caller that has not acquired yet has no goroutine, and nothing to lose.
NothingBeforeAcquired ==
    \A c \in Callers : pc[c] = "acquire" => renewer[c] = "none" /\ c \notin intruded

\* A lease that another has taken is not the one that is stored, so that neither
\* Renew nor Release of its handle succeeds any more.
IntrudedHasLost ==
    \A c \in Callers : pc[c] \in Holding /\ c \in intruded => c \notin current

HeldInv ==
    /\ TypeOK /\ NothingBeforeAcquired /\ IntrudedHasLost
    /\ NilMeansExclusive /\ ReleaseRunsAlone

LEMMA InitHolds == Init => HeldInv
BY HeldLockAssumption
DEF Init, HeldInv, TypeOK, NothingBeforeAcquired, IntrudedHasLost, NilMeansExclusive,
    ReleaseRunsAlone, Holding

LEMMA StepsKeepTypes == TypeOK /\ [Next]_vars => TypeOK'
<1> SUFFICES ASSUME TypeOK, [Next]_vars PROVE TypeOK'
  OBVIOUS
<1> USE HeldLockAssumption DEF TypeOK, Holding
<1>1. ASSUME NEW c \in Callers, Acquired(c) PROVE TypeOK'
  BY <1>1 DEF Acquired, document, goroutine, contexts, outcome, bounds, Claimable, Stores, Intrude, Goto
<1>2. ASSUME NEW c \in Callers, LockHeld(c) PROVE TypeOK'
  BY <1>2 DEF LockHeld, document, goroutine, contexts, outcome, bounds, Claimable, Observed
<1>3. ASSUME NEW c \in Callers, AcquireFailed(c) PROVE TypeOK'
  BY <1>3 DEF AcquireFailed, document, goroutine, contexts, outcome, bounds, Claimable, Stores, Intrude, Goto, GivesUp, Fault
<1>4. ASSUME NEW c \in Callers, AcquireCancelled(c) PROVE TypeOK'
  BY <1>4 DEF AcquireCancelled, document, goroutine, contexts, outcome, bounds, Goto, GivesUp
<1>5. ASSUME NEW c \in Callers, RenewalStopped(c) PROVE TypeOK'
  BY <1>5 DEF RenewalStopped, document, goroutine, contexts, outcome, bounds, EndRenewal
<1>6. ASSUME NEW c \in Callers, RenewalCancelled(c) PROVE TypeOK'
  BY <1>6 DEF RenewalCancelled, document, goroutine, contexts, outcome, bounds, EndRenewal
<1>7. ASSUME NEW c \in Callers, RenewBegin(c) PROVE TypeOK'
  BY <1>7 DEF RenewBegin, document, goroutine, contexts, outcome, bounds, Valid
<1>8. ASSUME NEW c \in Callers, Renewed(c) PROVE TypeOK'
  BY <1>8 DEF Renewed, document, goroutine, contexts, outcome, bounds, Stores
<1>9. ASSUME NEW c \in Callers, RenewRefused(c) PROVE TypeOK'
  BY <1>9 DEF RenewRefused, document, goroutine, contexts, outcome, bounds, RenewalFails, EndRenewal, Valid
<1>10. ASSUME NEW c \in Callers, RenewFailed(c) PROVE TypeOK'
  BY <1>10 DEF RenewFailed, document, goroutine, contexts, outcome, bounds, RenewalFails, EndRenewal, Stores, Fault
<1>11. ASSUME NEW c \in Callers, RenewInterrupted(c) PROVE TypeOK'
  BY <1>11 DEF RenewInterrupted, document, goroutine, contexts, outcome, bounds, EndRenewal, Stores
<1>12. ASSUME NEW c \in Callers, CallbackReturns(c) PROVE TypeOK'
  BY <1>12 DEF CallbackReturns, document, goroutine, contexts, outcome, bounds, Goto
<1>13. ASSUME NEW c \in Callers, CallbackPanics(c) PROVE TypeOK'
  BY <1>13 DEF CallbackPanics, document, goroutine, contexts, outcome, bounds, Goto
<1>14. ASSUME NEW c \in Callers, Stopped(c) PROVE TypeOK'
  BY <1>14 DEF Stopped, document, goroutine, contexts, outcome, bounds, Goto, Quiet
<1>15. ASSUME NEW c \in Callers, Released(c) PROVE TypeOK'
  BY <1>15 DEF Released, document, goroutine, contexts, outcome, bounds, Goto, Return, Joined, Stores, Valid
<1>16. ASSUME NEW c \in Callers, ReleaseFailed(c) PROVE TypeOK'
  BY <1>16 DEF ReleaseFailed, document, goroutine, contexts, outcome, bounds, Goto, Return, Joined, Stores, Valid, Fault
<1>17. ASSUME NEW c \in Callers, ParentCancelled(c) PROVE TypeOK'
  BY <1>17 DEF ParentCancelled, document, goroutine, contexts, outcome, bounds
<1>18. ASSUME NEW c \in Callers, Crash(c) PROVE TypeOK'
  BY <1>18 DEF Crash, document, goroutine, contexts, outcome, bounds, Goto
<1>19. CASE Tick
  BY <1>19 DEF Tick, document, goroutine, contexts, outcome, bounds
<1>20. CASE UNCHANGED vars
  BY <1>20 DEF vars, document, goroutine, contexts, outcome, bounds
<1>21. QED
  BY <1>1, <1>2, <1>3, <1>4, <1>5, <1>6, <1>7, <1>8, <1>9, <1>10, <1>11, <1>12, <1>13, <1>14, <1>15, <1>16, <1>17, <1>18, <1>19, <1>20
  DEF Next, Acquire, Renewal, Finish, Failure

LEMMA StepsKeepInvariant == HeldInv /\ [Next]_vars => HeldInv'
<1> SUFFICES ASSUME HeldInv, [Next]_vars
             PROVE /\ NothingBeforeAcquired' /\ IntrudedHasLost'
                   /\ NilMeansExclusive' /\ ReleaseRunsAlone'
  BY StepsKeepTypes DEF HeldInv
<1> DEFINE Goal == /\ NothingBeforeAcquired /\ IntrudedHasLost
                   /\ NilMeansExclusive /\ ReleaseRunsAlone
<1> TypeOK
  BY DEF HeldInv
<1> USE HeldLockAssumption
    DEF HeldInv, TypeOK, NothingBeforeAcquired, IntrudedHasLost, NilMeansExclusive,
        ReleaseRunsAlone, Holding
<1>1. ASSUME NEW c \in Callers, Acquired(c) PROVE Goal'
  BY <1>1 DEF Acquired, document, goroutine, contexts, outcome, bounds, Claimable, Stores, Intrude, Goto
<1>2. ASSUME NEW c \in Callers, LockHeld(c) PROVE Goal'
  BY <1>2 DEF LockHeld, document, goroutine, contexts, outcome, bounds, Claimable, Observed
<1>3. ASSUME NEW c \in Callers, AcquireFailed(c) PROVE Goal'
  BY <1>3 DEF AcquireFailed, document, goroutine, contexts, outcome, bounds, Claimable, Stores, Intrude, Goto, GivesUp, Fault
<1>4. ASSUME NEW c \in Callers, AcquireCancelled(c) PROVE Goal'
  BY <1>4 DEF AcquireCancelled, document, goroutine, contexts, outcome, bounds, Goto, GivesUp
<1>5. ASSUME NEW c \in Callers, RenewalStopped(c) PROVE Goal'
  BY <1>5 DEF RenewalStopped, document, goroutine, contexts, outcome, bounds, EndRenewal
<1>6. ASSUME NEW c \in Callers, RenewalCancelled(c) PROVE Goal'
  BY <1>6 DEF RenewalCancelled, document, goroutine, contexts, outcome, bounds, EndRenewal
<1>7. ASSUME NEW c \in Callers, RenewBegin(c) PROVE Goal'
  BY <1>7 DEF RenewBegin, document, goroutine, contexts, outcome, bounds, Valid
<1>8. ASSUME NEW c \in Callers, Renewed(c) PROVE Goal'
  BY <1>8 DEF Renewed, document, goroutine, contexts, outcome, bounds, Stores
<1>9. ASSUME NEW c \in Callers, RenewRefused(c) PROVE Goal'
  BY <1>9 DEF RenewRefused, document, goroutine, contexts, outcome, bounds, RenewalFails, EndRenewal, Valid
<1>10. ASSUME NEW c \in Callers, RenewFailed(c) PROVE Goal'
  BY <1>10 DEF RenewFailed, document, goroutine, contexts, outcome, bounds, RenewalFails, EndRenewal, Stores, Fault
<1>11. ASSUME NEW c \in Callers, RenewInterrupted(c) PROVE Goal'
  BY <1>11 DEF RenewInterrupted, document, goroutine, contexts, outcome, bounds, EndRenewal, Stores
<1>12. ASSUME NEW c \in Callers, CallbackReturns(c) PROVE Goal'
  BY <1>12 DEF CallbackReturns, document, goroutine, contexts, outcome, bounds, Goto
<1>13. ASSUME NEW c \in Callers, CallbackPanics(c) PROVE Goal'
  BY <1>13 DEF CallbackPanics, document, goroutine, contexts, outcome, bounds, Goto
<1>14. ASSUME NEW c \in Callers, Stopped(c) PROVE Goal'
  BY <1>14 DEF Stopped, document, goroutine, contexts, outcome, bounds, Goto, Quiet
<1>15. ASSUME NEW c \in Callers, Released(c) PROVE Goal'
  BY <1>15 DEF Released, document, goroutine, contexts, outcome, bounds, Goto, Return, Joined, Stores, Valid
<1>16. ASSUME NEW c \in Callers, ReleaseFailed(c) PROVE Goal'
  BY <1>16 DEF ReleaseFailed, document, goroutine, contexts, outcome, bounds, Goto, Return, Joined, Stores, Valid, Fault
<1>17. ASSUME NEW c \in Callers, ParentCancelled(c) PROVE Goal'
  BY <1>17 DEF ParentCancelled, document, goroutine, contexts, outcome, bounds
<1>18. ASSUME NEW c \in Callers, Crash(c) PROVE Goal'
  BY <1>18 DEF Crash, document, goroutine, contexts, outcome, bounds, Goto
<1>19. CASE Tick
  BY <1>19 DEF Tick, document, goroutine, contexts, outcome, bounds
<1>20. CASE UNCHANGED vars
  BY <1>20 DEF vars, document, goroutine, contexts, outcome, bounds
<1>21. QED
  BY <1>1, <1>2, <1>3, <1>4, <1>5, <1>6, <1>7, <1>8, <1>9, <1>10, <1>11, <1>12, <1>13, <1>14, <1>15, <1>16, <1>17, <1>18, <1>19, <1>20
  DEF Next, Acquire, Renewal, Finish, Failure

(* Every reachable state has the types, and of two handles at most one is  *)
(* of the stored document (WithLock, any number of callers).               *)
THEOREM TypeCorrect == Spec => []TypeOK
<1>1. Init => TypeOK
  BY InitHolds DEF HeldInv
<1>2. QED
  BY <1>1, StepsKeepTypes, PTL DEF Spec

LEMMA Induction == Spec => []HeldInv
BY InitHolds, StepsKeepInvariant, PTL DEF Spec

(* WithLock returns nil only if nobody else acquired the lock between its  *)
(* acquisition and its release.                                            *)
THEOREM ExclusiveWhileHeld == Spec => []NilMeansExclusive
<1>1. HeldInv => NilMeansExclusive
  BY DEF HeldInv
<1>2. QED
  BY <1>1, Induction, PTL

(* Release and Renew of one handle are never under way together.           *)
THEOREM ReleaseAfterRenewals == Spec => []ReleaseRunsAlone
<1>1. HeldInv => ReleaseRunsAlone
  BY DEF HeldInv
<1>2. QED
  BY <1>1, Induction, PTL
===============================================================================
