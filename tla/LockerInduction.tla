--------------------------- MODULE LockerInduction ----------------------------
(***************************************************************************)
(* The inductive invariant from which the safety of Locker follows.        *)
(***************************************************************************)
EXTENDS LockerRefinement

AcquireSteps == {"create", "createRefused", "createFailed", "get", "claim", "claimRecover"}
UpdateSteps == {"renewPut", "renewRecover", "releasePut", "releaseRecover"}
HandleSteps == {"renewGet", "releaseGet"} \cup UpdateSteps

\* doc was stored at some time: it is the stored document, or its
\* revision has been passed, and its token went to the caller that drew its
\* LeaseID.
Past(doc) ==
    /\ lease # None
    /\ doc = lease \/ doc.revision < lease.revision
    /\ doc.version <= lease.version
    /\ grantedTo[doc.version] = doc.id[1]

\* A write of doc conditional on etag may be stored whenever its condition
\* holds: it continues the fencing sequence, and the lease it takes over
\* has waited.
Due(etag, doc) ==
    etag.held /\ etag = lease =>
        clock + MaxDelay >= writtenAt + etag.duration + Grace[doc.id[1]]
GoodWrite(etag, doc) ==
    IF etag = None
    THEN doc.held /\ doc.version = 1 /\ doc.revision = 1
    ELSE /\ Past(etag)
         /\ doc.revision = etag.revision + 1
         /\ \/ Extended(etag, doc)
            \/ Acquired(etag, doc) /\ Due(etag, doc)

StoredOK ==
    /\ writtenAt <= clock
    /\ lease = None => grantedTo = << >>
    /\ lease # None => Past(lease) /\ Len(grantedTo) = lease.version

LateOK == \A w \in late : GoodWrite(w.match, w.doc)

\* What canTakeOver relies on: a document is not first seen before it is
\* written, but for the age of the sample it was seen with.
ObservedFacts(l) ==
    observed[l] # None =>
        /\ Past(observed[l].etag)
        /\ observed[l].etag = lease =>
               observed[l].firstSeen + MaxDelay >= writtenAt + Offset[l]
ObservedOK == \A l \in Lockers : ObservedFacts(l)

HandleFacts(c) ==
    handle[c] # None =>
        /\ Past(handle[c].etag)
        /\ handle[c].token = handle[c].etag.version
        /\ handle[c].etag.id[1] = c
HandleOK == \A c \in Callers : HandleFacts(c)

\* A call's sample of the clock is at most MaxDelay old.
NowFacts(c) ==
    Sampled(c) => now[c] <= LocalTime(c) /\ LocalTime(c) <= now[c] + MaxDelay
NowOK == \A c \in Callers : NowFacts(c)

\* What a call knows of the documents it handles.
CallFacts(c) ==
    /\ pc[c] \in AcquireSteps \cup UpdateSteps => want[c] # None /\ want[c].id[1] = c
    /\ pc[c] \in HandleSteps => handle[c] # None
    /\ pc[c] \in UpdateSteps => want[c].version = handle[c].token
    /\ pc[c] \in WriteSteps => GoodWrite(match[c], want[c])
    /\ pc[c] \in WriteSteps /\ Status(c) = "ok" => Past(want[c])
    /\ Doc(c) # None => Past(Doc(c))
CallOK == \A c \in Callers : CallFacts(c)

IInv == TypeOK /\ StoredOK /\ LateOK /\ ObservedOK /\ HandleOK /\ NowOK /\ CallOK

-------------------------------------------------------------------------------
(***************************************************************************)
(* What ReleaseTakesEffect needs besides.                                  *)
(***************************************************************************)

\* The documents that a reply tells c were stored: the one a Get returned, or
\* the one it wrote.
Told(c) ==
    ({Doc(c)} \ {None})
    \cup (IF pc[c] \in WriteSteps /\ Status(c) = "ok" THEN {want[c]} ELSE {})

\* A release writes a document that is not held, and once a reply tells of such
\* a document, its token is never held again.
ReleaseFacts(c) ==
    /\ pc[c] \in {"releasePut", "releaseRecover"} => ~want[c].held
    /\ \A doc \in Told(c) : ~doc.held /\ doc.version = lease.version => ~lease.held
ReleaseInv == \A c \in Callers : ReleaseFacts(c)

-------------------------------------------------------------------------------
(***************************************************************************)
(* What MutualExclusion needs besides, when MaxDelay <= Grace: that whoever *)
(* relies on a lease that has been superseded relies on an expired one.    *)
(***************************************************************************)

\* The LeaseIDs under which c works, or will if its TryAcquire succeeds.
ReliedOn(c) ==
    (IF c \in working /\ handle[c] # None THEN {handle[c].etag.id} ELSE {})
    \cup (IF pc[c] \in AcquireSteps THEN {want[c].id} ELSE {})

\* The documents c knows to have been stored.
Known(c) == Told(c) \cup (IF handle[c] # None THEN {handle[c].etag} ELSE {})

\* The steps of a call fit what its caller has and had.
WorkFacts(c) ==
    /\ c \in working => handle[c] # None
    /\ handle[c] # None => handle[c].expiresAt = handle[c].etag.expiresAt
    /\ pc[c] \in AcquireSteps => handle[c] = None
    /\ pc[c] \in {"releaseGet", "releasePut", "releaseRecover"} => c \notin working
    /\ pc[c] \in UpdateSteps => want[c].id = handle[c].etag.id
WorkOK == \A c \in Callers : WorkFacts(c)

\* A held document promises what its writer's TTL allows at the time it is
\* stored; nobody relies on a lease that a document says is released.
Fits(doc, time) ==
    LET c == doc.id[1]
    IN  /\ doc.duration = TTL[c]
        /\ doc.expiresAt <= time + Offset[LockerOf[c]] + TTL[c]
Sound(doc, time) ==
    doc # None =>
        IF doc.held THEN Fits(doc, time) ELSE \A d \in Callers : doc.id \notin ReliedOn(d)
SoundOK ==
    /\ Sound(lease, writtenAt)
    /\ \A w \in late : Sound(w.doc, clock)
    /\ \A c \in Callers : Sound(want[c], clock)

\* A document c knows and relies on is of the current lease or has expired.
Timely(c, doc) ==
    /\ doc.version = lease.version => doc.id = lease.id
    /\ doc.id \in ReliedOn(c) =>
           IF doc.version = lease.version
           THEN doc.expiresAt <= writtenAt + Offset[LockerOf[c]] + TTL[c]
           ELSE doc.expiresAt <= LocalTime(c)
TimelyOK == \A c \in Callers : \A doc \in Known(c) : Timely(c, doc)

ExclusionInv == WorkOK /\ SoundOK /\ TimelyOK
===============================================================================
