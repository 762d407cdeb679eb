------------------------------- MODULE HeldLock -------------------------------
(***************************************************************************)
(* WithLock of store/lock.go: acquire a lock by polling, run a callback    *)
(* while a goroutine renews the lease, stop the goroutine, release.        *)
(*                                                                         *)
(* TryAcquire, Renew and Release are what module Locker shows them to be,  *)
(* one step per write here, and the stored lease is seen as each caller    *)
(* sees it: whether the caller's handle names the stored document, and for *)
(* how long the caller has watched that document. So the state is finite,  *)
(* time included, and what must happen eventually can be checked.          *)
(***************************************************************************)
EXTENDS Integers

CONSTANTS
    Callers,      \* goroutines that call WithLock once, in processes of their own
    Limit,        \* a lease duration and grace, in ticks of the renewal interval
    MaxFaults,    \* bound: storage failures
    MaxCrashes,   \* bound: processes that die
    Panics,       \* callers whose callback may panic
    Unseen,       \* a document that the caller has not observed
    None

ASSUME HeldLockAssumption ==
    /\ Limit \in Nat \ {0} /\ MaxFaults \in Nat /\ MaxCrashes \in Nat
    /\ Panics \subseteq Callers
    /\ Unseen \notin Nat /\ None \notin Callers

VARIABLES
    lease,        \* whose lease is stored and held, or None
    current,      \* callers whose handle has the ETag of the stored document
    age,          \* how long each caller has watched the stored document
    pc,           \* where WithLock is
    renewer,      \* where its renewal goroutine is
    renewErr,     \* what the goroutine sent to renewDone
    due,          \* whether the ticker has fired
    parent,       \* callers whose own context is cancelled
    cancelled,    \* callers whose workCtx is cancelled
    fnErr,        \* whether the callback returned an error
    errors,       \* the errors WithLock returned
    faults, crashes,
    intruded      \* history: callers whose lease another has taken before its release

document == <<lease, current, age>>
goroutine == <<renewer, renewErr, due>>
contexts == <<parent, cancelled>>
outcome == <<fnErr, errors>>
bounds == <<faults, crashes>>
vars == <<document, pc, goroutine, contexts, outcome, bounds, intruded>>

Holding == {"work", "stopping", "release"}
Goto(c, place) == pc' = [pc EXCEPT ![c] = place]

Init ==
    /\ lease = None /\ current = {} /\ age = [c \in Callers |-> Unseen]
    /\ pc = [c \in Callers |-> "acquire"]
    /\ renewer = [c \in Callers |-> "none"]
    /\ renewErr = [c \in Callers |-> "none"]
    /\ due = {}
    /\ parent = {} /\ cancelled = {}
    /\ fnErr = [c \in Callers |-> FALSE]
    /\ errors = [c \in Callers |-> {}]
    /\ faults = 0 /\ crashes = 0
    /\ intruded = {}

-------------------------------------------------------------------------------
(***************************************************************************)
(* The stored lease. A write replaces the document: nobody else's handle   *)
(* or observation is of it, nor the writer's if it did not get the reply.  *)
(***************************************************************************)
StoresBeside(c, owner, replied) ==  \* faulty: the ETag does not change with the document
    /\ lease' = owner
    /\ current' = IF replied /\ owner = c THEN current \cup {c} ELSE {}
    /\ age' = [d \in Callers |-> IF d = c /\ replied THEN 0 ELSE Unseen]
Stores(c, owner, replied) ==
    /\ lease' = owner
    /\ current' = IF replied /\ owner = c THEN {c} ELSE {}
    /\ age' = [d \in Callers |-> IF d = c /\ replied THEN 0 ELSE Unseen]

Fault == faults < MaxFaults /\ faults' = faults + 1 /\ UNCHANGED crashes

\* validateHandle: the handle is of the stored lease, and that has not run out.
Valid(c) == c \in current /\ lease = c /\ age[c] # Limit

ObservedAnew(c) == [age EXCEPT ![c] = 0]  \* faulty: dates the document again at every poll
Observed(c) == [age EXCEPT ![c] = IF @ = Unseen THEN 0 ELSE @]

-------------------------------------------------------------------------------
(***************************************************************************)
(* Acquire: TryAcquire until the lock is free or its lease has run out.    *)
(***************************************************************************)
Claimable(c) == lease = None \/ age[c] = Limit
Intrude(c) == intruded' = intruded \cup {d \in Callers \ {c} : pc[d] \in Holding}

Acquired(c) ==
    /\ pc[c] = "acquire" /\ Claimable(c)
    /\ Stores(c, c, TRUE)
    /\ Intrude(c)
    /\ Goto(c, "work")
    /\ renewer' = [renewer EXCEPT ![c] = "waiting"]
    /\ UNCHANGED <<renewErr, due, contexts, outcome, bounds>>

LockHeld(c) ==
    /\ pc[c] = "acquire" /\ ~Claimable(c)
    /\ age' = Observed(c)
    /\ UNCHANGED <<lease, current, pc, goroutine, contexts, outcome, bounds, intruded>>

GivesUp(c) ==
    /\ Goto(c, "done")
    /\ errors' = [errors EXCEPT ![c] = {"acquire"}]
    /\ UNCHANGED <<goroutine, contexts, fnErr>>

\* The claim may have been stored all the same.
AcquireFailed(c) ==
    /\ pc[c] = "acquire" /\ Fault
    /\ \/ Claimable(c) /\ Stores(c, c, FALSE) /\ Intrude(c)
       \/ UNCHANGED <<document, intruded>>
    /\ GivesUp(c)

AcquireCancelled(c) ==
    /\ pc[c] = "acquire" /\ c \in parent
    /\ GivesUp(c)
    /\ UNCHANGED <<document, bounds, intruded>>

-------------------------------------------------------------------------------
(***************************************************************************)
(* The renewal goroutine: a select of stopRenew, workCtx and the ticker.   *)
(***************************************************************************)
EndRenewal(c, err) ==
    /\ renewer' = [renewer EXCEPT ![c] = "ended"]
    /\ renewErr' = [renewErr EXCEPT ![c] = err]
    /\ due' = due \ {c}

RenewalStopped(c) ==
    /\ renewer[c] = "waiting" /\ pc[c] = "stopping"
    /\ EndRenewal(c, "nil")
    /\ UNCHANGED <<document, pc, contexts, outcome, bounds, intruded>>

RenewalCancelled(c) ==
    /\ renewer[c] = "waiting" /\ c \in cancelled
    /\ EndRenewal(c, "cancelled")
    /\ UNCHANGED <<document, pc, contexts, outcome, bounds, intruded>>

\* Renew has read the lease and found it valid.
RenewBegin(c) ==
    /\ renewer[c] = "waiting" /\ c \in due /\ Valid(c)
    /\ renewer' = [renewer EXCEPT ![c] = "renewing"]
    /\ due' = due \ {c}
    /\ UNCHANGED <<document, pc, renewErr, contexts, outcome, bounds, intruded>>

Renewed(c) ==
    /\ renewer[c] = "renewing" /\ c \in current
    /\ Stores(c, c, TRUE)
    /\ renewer' = [renewer EXCEPT ![c] = "waiting"]
    /\ UNCHANGED <<pc, renewErr, due, contexts, outcome, bounds, intruded>>

RenewalFailsQuietly(c) == EndRenewal(c, "failed") /\ UNCHANGED cancelled  \* faulty: no cancel()
RenewalFails(c) == EndRenewal(c, "failed") /\ cancelled' = cancelled \cup {c}

\* The lease is another's or has run out, before or after it was read.
RenewRefused(c) ==
    /\ \/ renewer[c] = "waiting" /\ c \in due /\ ~Valid(c)
       \/ renewer[c] = "renewing" /\ c \notin current
    /\ RenewalFails(c)
    /\ UNCHANGED <<document, pc, parent, outcome, bounds, intruded>>

\* The storage fails, and what was written cannot be read back either.
RenewFailed(c) ==
    /\ \/ renewer[c] = "waiting" /\ c \in due /\ UNCHANGED document
       \/ renewer[c] = "renewing" /\ UNCHANGED document
       \/ renewer[c] = "renewing" /\ c \in current /\ Stores(c, c, FALSE)
    /\ Fault
    /\ RenewalFails(c)
    /\ UNCHANGED <<pc, parent, outcome, intruded>>

\* The context of the call ends while it is under way.
RenewInterrupted(c) ==
    /\ renewer[c] = "renewing" /\ c \in cancelled
    /\ \/ UNCHANGED document
       \/ c \in current /\ Stores(c, c, FALSE)
    /\ EndRenewal(c, "cancelled")
    /\ UNCHANGED <<pc, contexts, outcome, bounds, intruded>>

-------------------------------------------------------------------------------
(***************************************************************************)
(* The callback, and what follows it.                                      *)
(***************************************************************************)
CallbackReturns(c) ==
    /\ pc[c] = "work"
    /\ \E failed \in BOOLEAN : fnErr' = [fnErr EXCEPT ![c] = failed]
    /\ Goto(c, "stopping")
    /\ UNCHANGED <<document, goroutine, contexts, errors, bounds, intruded>>

\* A panic that the caller recovers leaves the goroutine as it is.
CallbackPanics(c) ==
    /\ pc[c] = "work" /\ c \in Panics
    /\ Goto(c, "panicked")
    /\ UNCHANGED <<document, goroutine, contexts, outcome, bounds, intruded>>

QuietAlways(c) == TRUE  \* faulty: does not receive from renewDone
Quiet(c) == renewer[c] = "ended"
Stopped(c) ==
    /\ pc[c] = "stopping" /\ Quiet(c)
    /\ Goto(c, "release")
    /\ cancelled' = cancelled \cup {c}
    /\ UNCHANGED <<document, goroutine, parent, outcome, bounds, intruded>>

JoinedRenewal(c, released) ==  \* faulty: the error of Release is dropped
    IF renewErr[c] = "failed" THEN {"renewal"} ELSE IF fnErr[c] THEN {"callback"} ELSE {}
\* errors.Join of the callback's, the renewal's and the release's errors.
Joined(c, released) ==
    (IF fnErr[c] THEN {"callback"} ELSE {})
    \cup (IF renewErr[c] = "failed" \/ (renewErr[c] = "cancelled" /\ ~fnErr[c])
          THEN {"renewal"} ELSE {})
    \cup (IF released THEN {} ELSE {"release"})
Return(c, released) ==
    /\ errors' = [errors EXCEPT ![c] = Joined(c, released)]
    /\ Goto(c, "done")
    /\ UNCHANGED <<goroutine, contexts, fnErr>>

Released(c) ==
    /\ pc[c] = "release"
    /\ IF Valid(c) THEN Stores(c, None, TRUE) ELSE UNCHANGED document
    /\ Return(c, Valid(c))
    /\ UNCHANGED <<bounds, intruded>>

ReleaseFailed(c) ==
    /\ pc[c] = "release" /\ Fault
    /\ \/ UNCHANGED document
       \/ Valid(c) /\ Stores(c, None, FALSE)
    /\ Return(c, FALSE)
    /\ UNCHANGED intruded

-------------------------------------------------------------------------------
(***************************************************************************)
(* The surroundings.                                                       *)
(***************************************************************************)
ParentCancelled(c) ==
    /\ c \notin parent /\ pc[c] \notin {"done", "dead"}
    /\ parent' = parent \cup {c} /\ cancelled' = cancelled \cup {c}
    /\ UNCHANGED <<document, pc, goroutine, outcome, bounds, intruded>>

Crash(c) ==
    /\ crashes < MaxCrashes /\ pc[c] \notin {"done", "dead"}
    /\ crashes' = crashes + 1
    /\ Goto(c, "dead")
    /\ renewer' = [renewer EXCEPT ![c] = "none"]
    /\ due' = due \ {c}
    /\ UNCHANGED <<document, renewErr, contexts, outcome, faults, intruded>>

Tick ==
    /\ age' = [c \in Callers |-> IF age[c] \in 0..(Limit - 1) THEN age[c] + 1 ELSE age[c]]
    /\ due' = {c \in Callers : renewer[c] \in {"waiting", "renewing"}}
    /\ UNCHANGED <<lease, current, pc, renewer, renewErr, contexts, outcome, bounds, intruded>>

Acquire(c) == Acquired(c) \/ LockHeld(c)
Renewal(c) ==
    \/ RenewalStopped(c) \/ RenewalCancelled(c)
    \/ RenewBegin(c) \/ Renewed(c) \/ RenewRefused(c) \/ RenewInterrupted(c)
Finish(c) == Stopped(c) \/ Released(c)
Failure(c) == AcquireFailed(c) \/ RenewFailed(c) \/ ReleaseFailed(c) \/ Crash(c)

Next ==
    \/ \E c \in Callers :
           \/ Acquire(c) \/ AcquireCancelled(c) \/ Renewal(c) \/ Finish(c) \/ Failure(c)
           \/ CallbackReturns(c) \/ CallbackPanics(c) \/ ParentCancelled(c)
    \/ Tick

Spec == Init /\ [][Next]_vars

(***************************************************************************)
(* Fairness: goroutines run and time passes; select chooses at random      *)
(* among the cases that are ready, so that a stop or a cancellation is not *)
(* passed over for ever; and a callback returns once it is cancelled.      *)
(***************************************************************************)
FairSpec ==
    /\ Spec
    /\ WF_vars(Tick)
    /\ \A c \in Callers :
           /\ WF_vars(Acquire(c)) /\ WF_vars(Renewal(c)) /\ WF_vars(Finish(c))
           /\ SF_vars(RenewalStopped(c) \/ RenewalCancelled(c))
           /\ WF_vars(CallbackReturns(c) /\ c \in cancelled)

-------------------------------------------------------------------------------
(***************************************************************************)
(* Properties.                                                             *)
(***************************************************************************)

(* Types; and at most one handle is of the stored document, its owner's.   *)
TypeOK ==
    /\ lease \in Callers \cup {None}
    /\ current \subseteq {lease}
    /\ age \in [Callers -> 0..Limit \cup {Unseen}]
    /\ pc \in [Callers -> Holding \cup {"acquire", "done", "panicked", "dead"}]
    /\ renewer \in [Callers -> {"none", "waiting", "renewing", "ended"}]
    /\ renewErr \in [Callers -> {"none", "nil", "failed", "cancelled"}]
    /\ due \subseteq Callers /\ parent \subseteq cancelled /\ cancelled \subseteq Callers
    /\ fnErr \in [Callers -> BOOLEAN]
    /\ errors \in [Callers -> SUBSET {"acquire", "callback", "renewal", "release"}]
    /\ faults \in 0..MaxFaults /\ crashes \in 0..MaxCrashes
    /\ intruded \subseteq Callers

(* If WithLock returns nil then nobody else acquired the lock between its  *)
(* acquisition and its release, whatever renewals were late or lost.       *)
NilMeansExclusive ==
    \A c \in Callers : pc[c] = "done" /\ errors[c] = {} => c \notin intruded

(* Release never runs beside a Renew of the same handle.                   *)
ReleaseRunsAlone ==
    \A c \in Callers : pc[c] \in {"release", "done"} => renewer[c] \in {"none", "ended"}

(* "If renewal fails, the callback context is canceled and the renewal     *)
(* error is returned" (lock.go:354): a callback whose lease is no longer   *)
(* the stored one is cancelled at last, if it does not return before.      *)
LossCancels ==
    \A c \in Callers :
        pc[c] = "work" /\ c \notin current ~> pc[c] # "work" \/ c \in cancelled

(* A caller that polls gets the lock at last, or an error: also if the     *)
(* holder died, or failed without a handle for what it had stored. Only a  *)
(* callback that never returns can keep it out, and one that panicked,     *)
(* whose lease is renewed for ever.                                        *)
Kept(c) ==
    /\ c \in current
    /\ pc[c] = "work" \/ (pc[c] = "panicked" /\ renewer[c] # "ended")
PollingEnds ==
    \A c \in Callers : <>[](pc[c] # "acquire") \/ <>[](\E d \in Callers : Kept(d))
===============================================================================
