-------------------------------- MODULE Locker --------------------------------
(***************************************************************************)
(* The distributed lock of store/lock.go: one named lock, the lease        *)
(* document that represents it in a storage backend with linearizable      *)
(* conditional writes, and the callers that run TryAcquire, Renew, Release *)
(* and IsHeld on it through Locker objects.                                *)
(*                                                                         *)
(* A caller is a goroutine; the Locker object it calls (LockerOf) is       *)
(* shared with the other callers of its process and holds the observation  *)
(* from which takeover is decided. Every storage call is a request that    *)
(* the backend serves in one atomic step, later, and whose reply the       *)
(* caller consumes later still. A document's ETag is a hash of its         *)
(* content, so here the ETag of a document is the document.                *)
(***************************************************************************)
EXTENDS Integers, Sequences

CONSTANTS
    Callers,      \* goroutines that use the lock
    Lockers,      \* Locker objects, one per process
    LockerOf,     \* [Callers -> Lockers]
    OwnerOf,      \* [Callers -> owner names], after options
    TTL,          \* [Callers -> Nat \ {0}]: lease duration, after options
    Grace,        \* [Callers -> Nat]: clockSkew, the expiry grace
    Offset,       \* [Lockers -> Nat]: a process's clock minus true time
    Serials,      \* LeaseIDs a caller can draw are <<caller, serial>>
    Calls,        \* the operations callers call, a subset of Operations
    MaxDelay,     \* bound: age of a call's time sample while it is in use
    MaxTime,      \* bound: true time
    MaxVersion,   \* bound: no TryAcquire once the fencing token is this high
    MaxRevision,  \* bound: no new write of a document with this revision
    MaxFaults,    \* bound: storage faults and crashes
    None          \* the absent document, handle or observation

Operations == {"TryAcquire", "Renew", "Release", "IsHeld"}

ASSUME CallerAssumption ==
    /\ LockerOf \in [Callers -> Lockers]
    /\ TTL \in [Callers -> Nat \ {0}]
    /\ Grace \in [Callers -> Nat]
    /\ Offset \in [Lockers -> Nat]
    /\ Serials \subseteq Nat
    /\ Calls \subseteq Operations
ASSUME BoundAssumption ==
    {MaxDelay, MaxTime, MaxVersion, MaxRevision, MaxFaults} \subseteq Nat

Times == Nat
Owners == {OwnerOf[c] : c \in Callers}
LeaseIDs == Callers \X Serials

\* LockLease; AcquiredAt never changes under one LeaseID and is left out.
Leases == [version : Nat \ {0}, owner : Owners, id : LeaseIDs, held : BOOLEAN,
           duration : Nat \ {0}, revision : Nat \ {0}, expiresAt : Times]

Handles == [token : Nat \ {0}, owner : Owners, etag : Leases, expiresAt : Times]

ASSUME NoneAssumption == None \notin Leases /\ None \notin Handles

Observations == [etag : Leases, firstSeen : Times]
Replies == [status : {"pending", "ok", "precondition", "error"},
            doc : Leases \cup {None}]
Writes == [match : Leases \cup {None}, doc : Leases]

VARIABLES
    clock,        \* true time
    lease,        \* the stored document
    late,         \* writes whose call has returned but which may still land
    observed,     \* Locker.observed, per Locker
    handle,       \* the LockHandle each caller was given last
    pc,           \* the storage call each caller waits for, or "idle"
    now,          \* local variable now: the local time sampled by the call
    match,        \* what the pending write is conditional on
    want,         \* the document the call writes or tries to recover
    reply,        \* the reply to the pending storage call
    faults,       \* faults so far
    writtenAt,    \* history: when the stored document was written
    grantedTo,    \* history: whose claim created each fencing token
    working       \* history: callers that rely on their handle

call == <<pc, now, match, want, reply>>
stored == <<lease, writtenAt, grantedTo>>
holding == <<handle, working>>
vars == <<clock, stored, late, observed, holding, call, faults>>

\* Every write is followed, if it does not succeed, by a recovery read.
WriteSteps == {"create", "claim", "renewPut", "releasePut"}
RecoverSteps == {"createRefused", "createFailed", "claimRecover",
                 "renewRecover", "releaseRecover"}
ReadSteps == {"get", "renewGet", "releaseGet", "isHeldGet"} \cup RecoverSteps
Steps == {"idle"} \cup WriteSteps \cup ReadSteps

Pending == [status |-> "pending", doc |-> None]
Reply(status, doc) == [status |-> status, doc |-> doc]
LocalTime(c) == clock + Offset[LockerOf[c]]

Init ==
    /\ clock = 0
    /\ lease = None
    /\ late = {}
    /\ observed = [l \in Lockers |-> None]
    /\ handle = [c \in Callers |-> None]
    /\ pc = [c \in Callers |-> "idle"]
    /\ now = [c \in Callers |-> 0]
    /\ match = [c \in Callers |-> None]
    /\ want = [c \in Callers |-> None]
    /\ reply = [c \in Callers |-> Pending]
    /\ faults = 0
    /\ writtenAt = 0
    /\ grantedTo = << >>
    /\ working = {}

-------------------------------------------------------------------------------
(***************************************************************************)
(* What a call's steps are made of.                                        *)
(***************************************************************************)

\* Issue a storage read, or a write of doc conditional on the ETag etag
\* (None: IfNoMatch "*"), and wait at step s for the reply.
Read(c, s) ==
    /\ pc' = [pc EXCEPT ![c] = s]
    /\ reply' = [reply EXCEPT ![c] = Pending]
    /\ UNCHANGED <<match, want>>
Write(c, s, etag, doc) ==
    /\ pc' = [pc EXCEPT ![c] = s]
    /\ match' = [match EXCEPT ![c] = etag]
    /\ want' = [want EXCEPT ![c] = doc]
    /\ reply' = [reply EXCEPT ![c] = Pending]

Calling(c, op) == pc[c] = "idle" /\ op \in Calls

\* The call returns to its caller; its locals are gone.
Return(c) ==
    /\ pc' = [pc EXCEPT ![c] = "idle"]
    /\ now' = [now EXCEPT ![c] = 0]
    /\ match' = [match EXCEPT ![c] = None]
    /\ want' = [want EXCEPT ![c] = None]
    /\ reply' = [reply EXCEPT ![c] = Pending]

Answered(c, s) == pc[c] = s /\ reply[c].status # "pending"
Status(c) == reply[c].status
\* The document a Get returned; None when it failed or found none.
Doc(c) == reply[c].doc

\* recordObservation and canTakeOver on the observed map of c's Locker.
Observe(c, etag, time) ==
    observed' = [observed EXCEPT ![LockerOf[c]] = [etag |-> etag, firstSeen |-> time]]
WatchingAnyDocument(c, etag, time) ==  \* faulty: a renewal goes unnoticed
    observed[LockerOf[c]] # None /\ time >= observed[LockerOf[c]].firstSeen
Watching(c, etag, time) ==
    LET o == observed[LockerOf[c]]
    IN  o # None /\ o.etag = etag /\ time >= o.firstSeen
ElapsedByOwnTTL(c, etag, time) ==      \* faulty: the taker's TTL, not the lease's
    time >= observed[LockerOf[c]].firstSeen + TTL[c] + Grace[c]
ElapsedGraceOnly(c, etag, time) ==     \* faulty: the duration is left out
    time >= observed[LockerOf[c]].firstSeen + Grace[c]
Elapsed(c, etag, time) ==
    time >= observed[LockerOf[c]].firstSeen + etag.duration + Grace[c]
CanTakeOver(c, etag, time, answer) ==
    \/ /\ ~Watching(c, etag, time)
       /\ Observe(c, etag, time)
       /\ answer = FALSE
    \/ /\ Watching(c, etag, time)
       /\ UNCHANGED observed
       /\ answer = Elapsed(c, etag, time)

\* handleFromLease; the ETag is the document.
HandleOf(doc) == [token |-> doc.version, owner |-> doc.owner, etag |-> doc,
                  expiresAt |-> doc.expiresAt]

\* TryAcquire returns a handle for doc.
Granted(c, doc) ==
    /\ handle' = [handle EXCEPT ![c] = HandleOf(doc)]
    /\ working' = working \cup {c}
    /\ Observe(c, doc, now[c])
    /\ Return(c)

\* A LeaseID no document in the system carries: randomLockID never repeats.
Documents ==
    {lease} \cup {want[c] : c \in Callers} \cup {match[c] : c \in Callers}
    \cup {reply[c].doc : c \in Callers} \cup {w.doc : w \in late}
    \cup {handle[c].etag : c \in {d \in Callers : handle[d] # None}}
    \cup {observed[l].etag : l \in {k \in Lockers : observed[k] # None}}
UsedIDs == {d.id : d \in Documents \ {None}}
FreshIDs(c) == {<<c, n>> : n \in Serials} \ UsedIDs
NewLeaseID(c) == CHOOSE id \in FreshIDs(c) : TRUE

NewLeaseUncounted(c, version, revision, time) ==  \* faulty: counts from zero
    [version |-> version - 1, owner |-> OwnerOf[c], id |-> NewLeaseID(c),
     held |-> TRUE, duration |-> TTL[c], revision |-> revision,
     expiresAt |-> time + TTL[c]]
NewLeaseFirstRevision(c, version, revision, time) ==  \* faulty: revisions restart
    [version |-> version, owner |-> OwnerOf[c], id |-> NewLeaseID(c),
     held |-> TRUE, duration |-> TTL[c], revision |-> 1, expiresAt |-> time + TTL[c]]
NewLease(c, version, revision, time) ==
    [version |-> version, owner |-> OwnerOf[c], id |-> NewLeaseID(c),
     held |-> TRUE, duration |-> TTL[c], revision |-> revision,
     expiresAt |-> time + TTL[c]]

-------------------------------------------------------------------------------
(***************************************************************************)
(* TryAcquire. Acquire is a caller that calls TryAcquire again.            *)
(***************************************************************************)

TryAcquire(c) ==
    /\ Calling(c, "TryAcquire") /\ handle[c] = None
    /\ lease # None => lease.version < MaxVersion /\ lease.revision < MaxRevision
    /\ FreshIDs(c) # {}
    /\ now' = [now EXCEPT ![c] = LocalTime(c)]
    /\ Write(c, "create", None, NewLease(c, 1, 1, LocalTime(c)))
    /\ UNCHANGED <<clock, stored, late, observed, holding, faults>>

AcquireAssumed(c) ==  \* faulty: an error is taken for success
    /\ Answered(c, "create") \/ Answered(c, "claim")
    /\ Status(c) \in {"ok", "error"}
    /\ Granted(c, want[c])
    /\ UNCHANGED <<clock, stored, late, faults>>
\* Create or the claiming Put succeeded.
AcquireWritten(c) ==
    /\ Answered(c, "create") \/ Answered(c, "claim")
    /\ Status(c) = "ok"
    /\ Granted(c, want[c])
    /\ UNCHANGED <<clock, stored, late, faults>>

\* Any failed write is followed by recoverLeaseWrite's Get.
WriteFailed(c) ==
    /\ Status(c) \in {"precondition", "error"}
    /\ \/ Answered(c, "create") /\ Status(c) = "precondition" /\ Read(c, "createRefused")
       \/ Answered(c, "create") /\ Status(c) = "error" /\ Read(c, "createFailed")
       \/ Answered(c, "claim") /\ Read(c, "claimRecover")
       \/ Answered(c, "renewPut") /\ Read(c, "renewRecover")
       \/ Answered(c, "releasePut") /\ Read(c, "releaseRecover")
    /\ UNCHANGED <<clock, stored, late, observed, holding, now, faults>>

RecoveredByToken(c) ==    \* faulty: somebody else's claim is taken for one's own
    Doc(c) # None /\ Doc(c).version = want[c].version /\ Doc(c).revision = want[c].revision
RecoveredByLeaseID(c) ==  \* faulty: Held is not compared
    Doc(c) # None /\ Doc(c).id = want[c].id
\* recoverLeaseWrite finds exactly the document the call wrote.
Recovered(c) == Doc(c) = want[c]

AcquireRecovered(c) ==
    /\ \E s \in {"createRefused", "createFailed", "claimRecover"} : Answered(c, s)
    /\ Recovered(c)
    /\ Granted(c, want[c])
    /\ UNCHANGED <<clock, stored, late, faults>>

\* Create was refused: another document is there, read it.
ReadExisting(c) ==
    /\ Answered(c, "createRefused")
    /\ ~Recovered(c)
    /\ Read(c, "get")
    /\ UNCHANGED <<clock, stored, late, observed, holding, now, faults>>

\* The lease read back is the one Create was to write.
FoundOwnLease(c) ==
    /\ Answered(c, "get") /\ Doc(c) # None
    /\ Doc(c).id = want[c].id
    /\ Granted(c, Doc(c))
    /\ UNCHANGED <<clock, stored, late, faults>>

\* LockHeld: the lease has not been watched for long enough.
LockHeld(c) ==
    /\ Answered(c, "get") /\ Doc(c) # None
    /\ Doc(c).id # want[c].id
    /\ Doc(c).held
    /\ CanTakeOver(c, Doc(c), now[c], FALSE)
    /\ Return(c)
    /\ UNCHANGED <<clock, stored, late, holding, faults>>

\* Claim a free or expired lease under the next version, if it is unchanged.
Claim(c) ==
    /\ Answered(c, "get") /\ Doc(c) # None
    /\ Doc(c).id # want[c].id
    /\ IF Doc(c).held THEN CanTakeOver(c, Doc(c), now[c], TRUE) ELSE UNCHANGED observed
    /\ FreshIDs(c) # {}
    /\ Write(c, "claim", Doc(c),
             NewLease(c, Doc(c).version + 1, Doc(c).revision + 1, now[c]))
    /\ UNCHANGED <<clock, stored, late, holding, now, faults>>

\* The ways TryAcquire returns an error without having decided anything.
AcquireFailed(c) ==
    /\ \/ Answered(c, "createFailed") /\ ~Recovered(c)
       \/ Answered(c, "claimRecover") /\ ~Recovered(c)
       \/ Answered(c, "get") /\ Doc(c) = None
    /\ Return(c)
    /\ UNCHANGED <<clock, stored, late, observed, holding, faults>>

-------------------------------------------------------------------------------
(***************************************************************************)
(* Renew, Release and IsHeld.                                              *)
(***************************************************************************)

Renew(c) ==
    /\ Calling(c, "Renew") /\ handle[c] # None
    /\ handle[c].etag.revision < MaxRevision
    /\ now' = [now EXCEPT ![c] = LocalTime(c)]
    /\ Read(c, "renewGet")
    /\ UNCHANGED <<clock, stored, late, observed, holding, faults>>

\* validateHandle up to its last check, and Release's own checks.
Current(c) ==
    /\ Doc(c) # None
    /\ Doc(c).owner = handle[c].owner /\ Doc(c).held
    /\ Doc(c).version = handle[c].token
    /\ Doc(c) = handle[c].etag

RenewValidated(c) ==
    /\ Answered(c, "renewGet")
    /\ Current(c)
    /\ CanTakeOver(c, Doc(c), now[c], FALSE)
    /\ Write(c, "renewPut", handle[c].etag,
             [Doc(c) EXCEPT !.held = TRUE, !.duration = TTL[c], !.revision = @ + 1,
                            !.expiresAt = now[c] + TTL[c]])
    /\ UNCHANGED <<clock, stored, late, holding, now, faults>>

Renewed(c) ==
    /\ \/ Answered(c, "renewPut") /\ Status(c) = "ok"
       \/ Answered(c, "renewRecover") /\ Recovered(c)
    /\ handle' = [handle EXCEPT ![c].etag = want[c], ![c].expiresAt = want[c].expiresAt]
    /\ UNCHANGED working
    /\ Observe(c, want[c], now[c])
    /\ Return(c)
    /\ UNCHANGED <<clock, stored, late, faults>>

RenewFailed(c) ==
    /\ \/ /\ Answered(c, "renewGet") /\ ~Current(c)
          /\ UNCHANGED observed
       \/ /\ Answered(c, "renewGet") /\ Current(c)
          /\ CanTakeOver(c, Doc(c), now[c], TRUE)
       \/ /\ Answered(c, "renewRecover") /\ ~Recovered(c)
          /\ UNCHANGED observed
    /\ Return(c)
    /\ UNCHANGED <<clock, stored, late, holding, faults>>

Release(c) ==
    /\ Calling(c, "Release") /\ handle[c] # None
    /\ handle[c].etag.revision < MaxRevision
    /\ now' = [now EXCEPT ![c] = LocalTime(c)]
    /\ working' = working \ {c}
    /\ Read(c, "releaseGet")
    /\ UNCHANGED <<clock, stored, late, observed, handle, faults>>

ReleaseValidated(c) ==
    /\ Answered(c, "releaseGet")
    /\ Current(c)
    /\ Write(c, "releasePut", handle[c].etag,
             [Doc(c) EXCEPT !.held = FALSE, !.revision = @ + 1, !.expiresAt = now[c]])
    /\ UNCHANGED <<clock, stored, late, observed, holding, now, faults>>

\* The caller forgets a handle once Release has succeeded.
Released(c) ==
    /\ \/ Answered(c, "releasePut") /\ Status(c) = "ok"
       \/ Answered(c, "releaseRecover") /\ Recovered(c)
    /\ Observe(c, want[c], now[c])
    /\ handle' = [handle EXCEPT ![c] = None]
    /\ UNCHANGED working
    /\ Return(c)
    /\ UNCHANGED <<clock, stored, late, faults>>

ReleaseFailed(c) ==
    /\ \/ Answered(c, "releaseGet") /\ ~Current(c)
       \/ Answered(c, "releaseRecover") /\ ~Recovered(c)
    /\ Return(c)
    /\ UNCHANGED <<clock, stored, late, observed, holding, faults>>

\* A caller that stops using its handle without releasing it.
Abandon(c) ==
    /\ pc[c] = "idle" /\ handle[c] # None
    /\ handle' = [handle EXCEPT ![c] = None]
    /\ working' = working \ {c}
    /\ UNCHANGED <<clock, stored, late, observed, call, faults>>

IsHeld(c) ==
    /\ Calling(c, "IsHeld")
    /\ Read(c, "isHeldGet")
    /\ UNCHANGED <<clock, stored, late, observed, holding, now, faults>>

\* IsHeld samples the clock after its Get, and records what it saw.
IsHeldAnswered(c) ==
    /\ Answered(c, "isHeldGet")
    /\ IF Doc(c) # None /\ Doc(c).held
       THEN \E answer \in BOOLEAN : CanTakeOver(c, Doc(c), LocalTime(c), answer)
       ELSE UNCHANGED observed
    /\ Return(c)
    /\ UNCHANGED <<clock, stored, late, holding, faults>>

-------------------------------------------------------------------------------
(***************************************************************************)
(* The backend: linearizable conditional reads and writes behind Store's   *)
(* retrier, which re-issues a call that failed with a retriable error.     *)
(***************************************************************************)

Waiting(c) == pc[c] # "idle" /\ Status(c) = "pending"
Answer(c, r) == reply' = [reply EXCEPT ![c] = r]

StoreUnchecked(etag, doc) ==  \* faulty: the condition is not evaluated
    /\ lease' = doc
    /\ writtenAt' = clock
    /\ grantedTo' = IF etag = None \/ doc.version # etag.version
                    THEN Append(grantedTo, doc.id[1]) ELSE grantedTo
\* A conditional write takes effect now if its condition holds.
Store(etag, doc) ==
    IF lease = etag
    THEN /\ lease' = doc
         /\ writtenAt' = clock
         /\ grantedTo' = IF etag = None \/ doc.version # etag.version
                         THEN Append(grantedTo, doc.id[1]) ELSE grantedTo
    ELSE UNCHANGED stored

ServeRead(c) ==
    /\ Waiting(c) /\ pc[c] \in ReadSteps
    /\ Answer(c, Reply("ok", lease))
    /\ UNCHANGED <<clock, stored, late, observed, holding, pc, now, match, want, faults>>

ServeWrite(c) ==
    /\ Waiting(c) /\ pc[c] \in WriteSteps
    /\ Store(match[c], want[c])
    /\ Answer(c, Reply(IF lease = match[c] THEN "ok" ELSE "precondition", None))
    /\ UNCHANGED <<clock, late, observed, holding, pc, now, match, want, faults>>

\* A fault: the call fails for good, or Store re-issues the same request.
Fault == faults < MaxFaults /\ faults' = faults + 1
FailOrRetry(c) == reply' = reply \/ Answer(c, Reply("error", None))

CallFails(c) ==
    /\ Waiting(c) /\ Fault
    /\ Answer(c, Reply("error", None))
    /\ UNCHANGED <<clock, stored, late, observed, holding, pc, now, match, want>>

\* The write took effect but its reply was lost.
ReplyLost(c) ==
    /\ Waiting(c) /\ pc[c] \in WriteSteps /\ Fault
    /\ Store(match[c], want[c])
    /\ FailOrRetry(c)
    /\ UNCHANGED <<clock, late, observed, holding, pc, now, match, want>>

\* The call timed out while its write was still on its way.
WriteDelayed(c) ==
    /\ Waiting(c) /\ pc[c] \in WriteSteps /\ Fault
    /\ late' = late \cup {[match |-> match[c], doc |-> want[c]]}
    /\ FailOrRetry(c)
    /\ UNCHANGED <<clock, stored, observed, holding, pc, now, match, want>>

LateWriteArrives(w) ==
    /\ Store(w.match, w.doc)
    /\ late' = late \ {w}
    /\ UNCHANGED <<clock, observed, holding, call, faults>>

-------------------------------------------------------------------------------
(***************************************************************************)
(* Time and crashes.                                                       *)
(***************************************************************************)

Sampled(c) == pc[c] \notin {"idle", "isHeldGet"}

\* Time passes, but no call uses a sample of the clock older than MaxDelay.
Tick ==
    /\ clock < MaxTime
    /\ \A c \in Callers : Sampled(c) => LocalTime(c) < now[c] + MaxDelay
    /\ clock' = clock + 1
    /\ UNCHANGED <<stored, late, observed, holding, call, faults>>

\* A process dies: its callers, its handles and its observations are gone;
\* the writes it had in flight may still land.
Crash(l) ==
    LET dead == {c \in Callers : LockerOf[c] = l}
        inFlight == {c \in dead : Waiting(c) /\ pc[c] \in WriteSteps}
    IN  /\ Fault
        /\ late' = late \cup {[match |-> match[c], doc |-> want[c]] : c \in inFlight}
        /\ observed' = [observed EXCEPT ![l] = None]
        /\ handle' = [c \in Callers |-> IF c \in dead THEN None ELSE handle[c]]
        /\ working' = working \ dead
        /\ pc' = [c \in Callers |-> IF c \in dead THEN "idle" ELSE pc[c]]
        /\ now' = [c \in Callers |-> IF c \in dead THEN 0 ELSE now[c]]
        /\ match' = [c \in Callers |-> IF c \in dead THEN None ELSE match[c]]
        /\ want' = [c \in Callers |-> IF c \in dead THEN None ELSE want[c]]
        /\ reply' = [c \in Callers |-> IF c \in dead THEN Pending ELSE reply[c]]
        /\ UNCHANGED <<clock, stored>>

-------------------------------------------------------------------------------
Acquiring(c) ==
    \/ TryAcquire(c) \/ AcquireWritten(c) \/ AcquireRecovered(c) \/ ReadExisting(c)
    \/ FoundOwnLease(c) \/ LockHeld(c) \/ Claim(c) \/ AcquireFailed(c)
Renewing(c) == Renew(c) \/ RenewValidated(c) \/ Renewed(c) \/ RenewFailed(c)
Releasing(c) == Release(c) \/ ReleaseValidated(c) \/ Released(c) \/ ReleaseFailed(c) \/ Abandon(c)
Asking(c) == IsHeld(c) \/ IsHeldAnswered(c)
Serving(c) ==
    \/ ServeRead(c) \/ ServeWrite(c) \/ CallFails(c) \/ ReplyLost(c) \/ WriteDelayed(c)

Next ==
    \/ \E c \in Callers :
           Acquiring(c) \/ WriteFailed(c) \/ Renewing(c) \/ Releasing(c) \/ Asking(c) \/ Serving(c)
    \/ \E w \in late : LateWriteArrives(w)
    \/ \E l \in Lockers : Crash(l)
    \/ Tick

Spec == Init /\ [][Next]_vars

-------------------------------------------------------------------------------
(***************************************************************************)
(* Properties.                                                             *)
(***************************************************************************)

CallTypeOK ==
    /\ pc \in [Callers -> Steps]
    /\ now \in [Callers -> Times]
    /\ match \in [Callers -> Leases \cup {None}]
    /\ want \in [Callers -> Leases \cup {None}]
    /\ reply \in [Callers -> Replies]

(* Every variable has the shape its declaration says.                      *)
TypeOK ==
    /\ clock \in Times
    /\ lease \in Leases \cup {None}
    /\ late \subseteq Writes
    /\ observed \in [Lockers -> Observations \cup {None}]
    /\ handle \in [Callers -> Handles \cup {None}]
    /\ CallTypeOK
    /\ faults \in 0..MaxFaults
    /\ writtenAt \in Times
    /\ grantedTo \in Seq(Callers)
    /\ working \subseteq Callers

(* A handle carries a fencing token that its caller's own claim created    *)
(* (so no two callers ever hold the same token), whatever replies were     *)
(* lost and whatever a recovery read found: TryAcquire, recoverLeaseWrite. *)
HandlesWereGranted ==
    \A c \in Callers :
        handle[c] # None =>
            /\ handle[c].token \in DOMAIN grantedTo
            /\ grantedTo[handle[c].token] = c

(* A handle's ETag names a document that was stored: the current one, or   *)
(* one of a lower revision. Success is never reported for a write that did *)
(* not happen, not even after a lost reply: Renew, recoverLeaseWrite.      *)
HandlesWereStored ==
    \A c \in Callers :
        handle[c] # None =>
            /\ lease # None
            /\ lease = handle[c].etag \/ lease.revision > handle[c].etag.revision
            /\ lease.version >= handle[c].token

(* Two callers never both rely on an unexpired handle, provided no call    *)
(* takes longer than the grace it allows a lease (MaxDelay <= Grace).      *)
Unexpired(c) == LocalTime(c) < handle[c].expiresAt
MutualExclusion ==
    \A c, d \in working : c # d => ~(Unexpired(c) /\ Unexpired(d))

(* The stored document only changes by a fresh acquisition under the next  *)
(* token, or by a renewal or release of a held lease under its own token;  *)
(* each bumps the revision. No late, repeated or stale write rewinds it:   *)
(* released leases stay in storage for this (lock.go:23).                  *)
Acquired(old, new) ==
    new.held /\ new.version = old.version + 1 /\ new.id # old.id
Extended(old, new) ==
    old.held /\ new.version = old.version /\ new.id = old.id /\ new.owner = old.owner
FencingSequence ==
    [][lease' # lease =>
         IF lease = None
         THEN lease'.version = 1 /\ lease'.revision = 1
         ELSE /\ lease' # None
              /\ lease'.revision = lease.revision + 1
              /\ Acquired(lease, lease') \/ Extended(lease, lease')]_vars

(* A held lease is taken over only after it has been in storage, unchanged, *)
(* for its own duration plus the taker's grace, less the time the taker's  *)
(* call may have taken (TryAcquire, canTakeOver).                          *)
TakenOver(slack) ==
    lease # None /\ lease.held /\ lease' # lease /\ lease'.version # lease.version
        => clock + slack >= writtenAt + lease.duration + Grace[lease'.id[1]]
TakeoverWaits == [][TakenOver(MaxDelay)]_vars

(* When Release returns nil, the lease it released is no longer held,      *)
(* also when it learnt of its success from a recovery read.                *)
ReleaseTakesEffect ==
    [][\A c \in Callers :
         Released(c) => ~(lease.held /\ lease.version = handle[c].token)]_vars
===============================================================================
