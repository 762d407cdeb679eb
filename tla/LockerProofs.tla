----------------------------- MODULE LockerProofs -----------------------------
EXTENDS LockerInduction, TLAPS

USE CallerAssumption, BoundAssumption, NoneAssumption

\* What the steps of a caller leave alone.
Backend == <<clock, lease, late, writtenAt, grantedTo>>
Alone(c) ==
    \A d \in Callers \ {c} :
        /\ pc'[d] = pc[d] /\ now'[d] = now[d] /\ match'[d] = match[d]
        /\ want'[d] = want[d] /\ reply'[d] = reply[d] /\ handle'[d] = handle[d]

LEMMA PastFrame ==
    ASSUME UNCHANGED Backend, NEW doc
    PROVE  Past(doc)' <=> Past(doc)
BY DEF Past, Backend

LEMMA GoodWriteFrame ==
    ASSUME UNCHANGED Backend, NEW etag, NEW doc
    PROVE  GoodWrite(etag, doc)' <=> GoodWrite(etag, doc)
BY DEF GoodWrite, Past, Due, Extended, Acquired, Backend

\* A caller's step that leaves the backend alone preserves the invariant if
\* it does so for what concerns that caller.
LEMMA HandlerStep ==
    ASSUME IInv, NEW c \in Callers, UNCHANGED Backend, Alone(c), TypeOK',
           CallFacts(c)', NowFacts(c)', HandleFacts(c)', ObservedOK'
    PROVE  IInv'
<1>1. StoredOK' BY PastFrame DEF IInv, StoredOK, Past, Backend
<1>2. LateOK' BY DEF IInv, LateOK, GoodWrite, Past, Due, Extended, Acquired, Backend
<1>3. HandleOK' BY DEF IInv, HandleOK, HandleFacts, Past, Backend, Alone
<1>4. NowOK' BY DEF IInv, NowOK, NowFacts, LocalTime, Sampled, Backend, Alone
<1>5. CallOK'
  <2> SUFFICES ASSUME NEW d \in Callers \ {c} PROVE CallFacts(d)'
    BY DEF CallOK
  <2> QED BY DEF IInv, CallOK, CallFacts, GoodWrite, Past, Due, Extended, Acquired, Backend, Alone, Status, Doc
<1> QED BY <1>1, <1>2, <1>3, <1>4, <1>5 DEF IInv

LEMMA NewLeaseFacts ==
    ASSUME NEW c \in Callers, FreshIDs(c) # {}, NEW v \in Nat \ {0}, NEW r \in Nat \ {0},
           NEW t \in Times
    PROVE  /\ NewLease(c, v, r, t) \in Leases
           /\ NewLease(c, v, r, t).id \notin UsedIDs /\ NewLease(c, v, r, t).id[1] = c
           /\ NewLease(c, v, r, t).version = v /\ NewLease(c, v, r, t).revision = r
           /\ NewLease(c, v, r, t).held
<1>1. NewLeaseID(c) \in FreshIDs(c) BY DEF NewLeaseID
<1> QED BY <1>1 DEF NewLease, FreshIDs, LeaseIDs, Leases, Owners, Times

LEMMA ReturnFacts ==
    ASSUME TypeOK, NEW c \in Callers, Return(c)
    PROVE  CallTypeOK' /\ CallFacts(c)' /\ NowFacts(c)'
BY DEF Return, TypeOK, CallTypeOK, CallFacts, NowFacts, Sampled, Steps, Times, Replies,
       Pending, Doc, AcquireSteps, UpdateSteps, HandleSteps, WriteSteps

\* A document seen with a sample of at most MaxDelay ago.
Recent(c, time) == time \in Times /\ time <= LocalTime(c) /\ LocalTime(c) <= time + MaxDelay

LEMMA ObserveFacts ==
    ASSUME IInv, NEW c \in Callers, UNCHANGED Backend, NEW doc \in Leases, NEW time,
           Observe(c, doc, time), Past(doc), Recent(c, time)
    PROVE  ObservedOK' /\ observed' \in [Lockers -> Observations \cup {None}]
<1>1. observed' \in [Lockers -> Observations \cup {None}]
  BY DEF IInv, TypeOK, Observe, Observations, Recent
<1>2. ASSUME NEW l \in Lockers PROVE ObservedFacts(l)'
  <2>1. CASE l = LockerOf[c]
    BY <2>1, PastFrame DEF IInv, TypeOK, StoredOK, Observe, Recent, ObservedFacts, LocalTime, Backend, Times
  <2>2. CASE l # LockerOf[c]
    BY <2>2, PastFrame DEF IInv, TypeOK, ObservedOK, Observe, ObservedFacts, Backend
  <2> QED BY <2>1, <2>2
<1> QED BY <1>1, <1>2 DEF ObservedOK

LEMMA UnobservedFacts ==
    ASSUME IInv, UNCHANGED Backend, UNCHANGED observed
    PROVE  ObservedOK' /\ observed' \in [Lockers -> Observations \cup {None}]
BY DEF IInv, TypeOK, ObservedOK, ObservedFacts, Past, Backend

LEMMA CanTakeOverFacts ==
    ASSUME IInv, NEW c \in Callers, UNCHANGED Backend, NEW doc \in Leases, NEW time,
           NEW answer, CanTakeOver(c, doc, time, answer), Past(doc), Recent(c, time)
    PROVE  /\ ObservedOK' /\ observed' \in [Lockers -> Observations \cup {None}]
           /\ answer = TRUE /\ doc = lease =>
                  clock + MaxDelay >= writtenAt + doc.duration + Grace[c]
<1>1. CASE Observe(c, doc, time) /\ answer = FALSE
  BY <1>1, ObserveFacts
<1>2. CASE Watching(c, doc, time) /\ UNCHANGED observed /\ answer = Elapsed(c, doc, time)
  <2>1. ASSUME answer = TRUE, doc = lease
        PROVE  clock + MaxDelay >= writtenAt + doc.duration + Grace[c]
    <3> DEFINE l == LockerOf[c]
    <3>1. l \in Lockers /\ observed[l] # None /\ observed[l].etag = lease
      BY <1>2, <2>1 DEF Watching
    <3>2. observed[l].firstSeen \in Nat /\ writtenAt \in Nat /\ clock \in Nat /\ Offset[l] \in Nat
      BY <3>1 DEF IInv, TypeOK, Times, Observations
    <3>3. observed[l].firstSeen + MaxDelay >= writtenAt + Offset[l]
      BY <3>1 DEF IInv, ObservedOK, ObservedFacts
    <3>4. time >= observed[l].firstSeen + doc.duration + Grace[c]
      BY <1>2, <2>1 DEF Elapsed
    <3>5. time <= clock + Offset[l] /\ time \in Nat
      BY DEF Recent, LocalTime, Times
    <3>6. doc.duration \in Nat /\ Grace[c] \in Nat /\ MaxDelay \in Nat
      BY DEF Leases
    <3> QED BY <3>2, <3>3, <3>4, <3>5, <3>6
  <2> QED BY <1>2, <2>1, UnobservedFacts
<1> QED BY <1>1, <1>2 DEF CanTakeOver

LEMMA GrantedStep ==
    ASSUME IInv, NEW c \in Callers, UNCHANGED <<Backend, faults>>, NEW doc \in Leases,
           Granted(c, doc), Past(doc), doc.id[1] = c, Sampled(c)
    PROVE  IInv'
<1>1. Recent(c, now[c]) BY DEF IInv, NowOK, NowFacts, Recent, TypeOK, CallTypeOK
<1>2. ObservedOK' /\ observed' \in [Lockers -> Observations \cup {None}]
  BY <1>1, ObserveFacts DEF Granted
<1>3. handle' \in [Callers -> Handles \cup {None}] /\ working' \subseteq Callers
  BY DEF IInv, TypeOK, Granted, HandleOf, Handles, Leases, Owners, Times
<1>4. CallTypeOK' /\ CallFacts(c)' /\ NowFacts(c)'
  BY ReturnFacts DEF Granted, IInv
<1>5. TypeOK' BY <1>2, <1>3, <1>4 DEF IInv, TypeOK, Backend
<1>6. HandleFacts(c)'
  BY PastFrame DEF IInv, TypeOK, Granted, HandleFacts, HandleOf, Backend
<1>7. Alone(c) BY DEF IInv, TypeOK, CallTypeOK, Granted, Return, Alone
<1> QED BY <1>2, <1>4, <1>5, <1>6, <1>7, HandlerStep

LEMMA ReadFacts ==
    ASSUME TypeOK, NEW c \in Callers, NEW s \in ReadSteps, Read(c, s)
    PROVE  /\ pc' \in [Callers -> Steps] /\ pc'[c] = s
           /\ UNCHANGED <<match, want>>
           /\ reply' \in [Callers -> Replies] /\ ~(Doc(c)' # None)
           /\ \A d \in Callers \ {c} : pc'[d] = pc[d] /\ reply'[d] = reply[d]
BY DEF TypeOK, CallTypeOK, Read, Steps, Replies, Pending, Doc

LEMMA WriteFacts ==
    ASSUME TypeOK, NEW c \in Callers, NEW s \in WriteSteps, NEW etag \in Leases \cup {None},
           NEW doc \in Leases, Write(c, s, etag, doc)
    PROVE  /\ pc' \in [Callers -> Steps] /\ pc'[c] = s
           /\ match' \in [Callers -> Leases \cup {None}] /\ match'[c] = etag
           /\ want' \in [Callers -> Leases \cup {None}] /\ want'[c] = doc
           /\ reply' \in [Callers -> Replies] /\ ~(Doc(c)' # None) /\ ~(Status(c)' = "ok")
           /\ \A d \in Callers \ {c} : /\ pc'[d] = pc[d] /\ reply'[d] = reply[d]
                                       /\ match'[d] = match[d] /\ want'[d] = want[d]
BY DEF TypeOK, CallTypeOK, Write, Steps, Replies, Pending, Doc, Status

\* A call that goes on to a read at step s, with want and handle as before.
LEMMA ReadOn ==
    ASSUME IInv, NEW c \in Callers, NEW s \in ReadSteps, Read(c, s), Sampled(c),
           UNCHANGED <<Backend, observed, handle, working, now, faults>>,
           s \in AcquireSteps => pc[c] \in AcquireSteps,
           s \in UpdateSteps => pc[c] \in UpdateSteps,
           s \in HandleSteps => pc[c] \in HandleSteps
    PROVE  IInv'
<1>1. TypeOK' BY ReadFacts DEF IInv, TypeOK, CallTypeOK, Backend
<1>2. CallFacts(c)'
  BY ReadFacts DEF IInv, CallOK, CallFacts, ReadSteps, WriteSteps, RecoverSteps
<1>3. NowFacts(c)' BY ReadFacts DEF IInv, NowOK, NowFacts, LocalTime, Backend
<1>4. HandleFacts(c)' BY PastFrame DEF IInv, HandleOK, HandleFacts
<1>5. Alone(c) BY ReadFacts DEF IInv, Alone
<1> QED BY <1>1, <1>2, <1>3, <1>4, <1>5, UnobservedFacts, HandlerStep DEF Backend

\* A call that returns with the handle as before, or with none.
LEMMA ReturnStep ==
    ASSUME IInv, NEW c \in Callers, Return(c), UNCHANGED <<Backend, faults, working>>,
           UNCHANGED handle \/ handle' = [handle EXCEPT ![c] = None],
           ObservedOK', observed' \in [Lockers -> Observations \cup {None}]
    PROVE  IInv'
<1>1. CallTypeOK' /\ CallFacts(c)' /\ NowFacts(c)' BY ReturnFacts DEF IInv
<1>2. TypeOK' BY <1>1 DEF IInv, TypeOK, Backend
<1>3. HandleFacts(c)' BY PastFrame DEF IInv, TypeOK, HandleOK, HandleFacts
<1>4. Alone(c) BY DEF IInv, TypeOK, CallTypeOK, Return, Alone
<1> QED BY <1>1, <1>2, <1>3, <1>4, HandlerStep

LEMMA TryAcquireStep ==
    ASSUME IInv, NEW c \in Callers, TryAcquire(c)
    PROVE  IInv'
<1> DEFINE doc == NewLease(c, 1, 1, LocalTime(c))
<1>1. LocalTime(c) \in Times BY DEF IInv, TypeOK, LocalTime, Times
<1>2. doc \in Leases /\ doc.id[1] = c /\ doc.version = 1 /\ doc.revision = 1 /\ doc.held
  BY <1>1, NewLeaseFacts DEF TryAcquire
<1>3. Write(c, "create", None, doc) /\ now' = [now EXCEPT ![c] = LocalTime(c)]
  BY DEF TryAcquire
<1>4. UNCHANGED <<Backend, observed, handle, working, faults>>
  BY DEF TryAcquire, Backend, stored, holding
<1> HIDE DEF doc
<1>5. /\ pc' \in [Callers -> Steps] /\ pc'[c] = "create"
      /\ match' \in [Callers -> Leases \cup {None}] /\ match'[c] = None
      /\ want' \in [Callers -> Leases \cup {None}] /\ want'[c] = doc
      /\ reply' \in [Callers -> Replies] /\ ~(Doc(c)' # None) /\ ~(Status(c)' = "ok")
      /\ \A d \in Callers \ {c} : /\ pc'[d] = pc[d] /\ reply'[d] = reply[d]
                                  /\ match'[d] = match[d] /\ want'[d] = want[d]
  BY <1>2, <1>3, WriteFacts DEF IInv, WriteSteps
<1>6. TypeOK' BY <1>1, <1>3, <1>4, <1>5 DEF IInv, TypeOK, CallTypeOK, Backend
<1>7. CallFacts(c)'
  BY <1>2, <1>5 DEF CallFacts, GoodWrite, HandleSteps, UpdateSteps
<1>8. NowFacts(c)'
  BY <1>1, <1>3, <1>4 DEF IInv, TypeOK, CallTypeOK, NowFacts, LocalTime, Backend, Times
<1>9. HandleFacts(c)' BY <1>4, PastFrame DEF IInv, HandleOK, HandleFacts
<1>10. Alone(c) BY <1>3, <1>4, <1>5 DEF IInv, TypeOK, CallTypeOK, Alone
<1> QED BY <1>4, <1>6, <1>7, <1>8, <1>9, <1>10, UnobservedFacts, HandlerStep

\* What a read returned was stored, and is a lease.
LEMMA DocFacts ==
    ASSUME IInv, NEW c \in Callers, Doc(c) # None
    PROVE  Doc(c) \in Leases /\ Past(Doc(c))
BY DEF IInv, TypeOK, CallTypeOK, CallOK, CallFacts, Doc, Replies

LEMMA AcquireWrittenStep ==
    ASSUME IInv, NEW c \in Callers, AcquireWritten(c)
    PROVE  IInv'
<1>1. want[c] \in Leases /\ Past(want[c]) /\ want[c].id[1] = c
  BY DEF IInv, TypeOK, CallTypeOK, CallOK, CallFacts, AcquireWritten, Answered, AcquireSteps, WriteSteps
<1>2. Sampled(c) BY DEF AcquireWritten, Answered, Sampled
<1> QED BY <1>1, <1>2, GrantedStep DEF AcquireWritten, Backend, stored

LEMMA AcquireRecoveredStep ==
    ASSUME IInv, NEW c \in Callers, AcquireRecovered(c)
    PROVE  IInv'
<1>1. want[c] # None /\ want[c].id[1] = c /\ Doc(c) = want[c]
  BY DEF IInv, CallOK, CallFacts, AcquireRecovered, Recovered, Answered, AcquireSteps
<1>2. Sampled(c) BY DEF AcquireRecovered, Answered, Sampled
<1> QED BY <1>1, <1>2, DocFacts, GrantedStep DEF AcquireRecovered, Backend, stored

LEMMA FoundOwnLeaseStep ==
    ASSUME IInv, NEW c \in Callers, FoundOwnLease(c)
    PROVE  IInv'
<1>1. want[c].id[1] = c /\ Doc(c) # None /\ Doc(c).id = want[c].id
  BY DEF IInv, CallOK, CallFacts, FoundOwnLease, Answered, AcquireSteps
<1>2. Sampled(c) BY DEF FoundOwnLease, Answered, Sampled
<1> QED BY <1>1, <1>2, DocFacts, GrantedStep DEF FoundOwnLease, Backend, stored

LEMMA WriteFailedStep ==
    ASSUME IInv, NEW c \in Callers, WriteFailed(c)
    PROVE  IInv'
<1>1. UNCHANGED <<Backend, observed, handle, working, now, faults>>
  BY DEF WriteFailed, Backend, stored, holding
<1>2. PICK s \in RecoverSteps :
          /\ Read(c, s)
          /\ s \in AcquireSteps => pc[c] \in AcquireSteps
          /\ s \in HandleSteps => pc[c] \in UpdateSteps
  BY DEF WriteFailed, Answered, RecoverSteps, AcquireSteps, HandleSteps, UpdateSteps
<1>3. Sampled(c) BY DEF WriteFailed, Answered, Sampled
<1> QED BY <1>1, <1>2, <1>3, ReadOn DEF ReadSteps, HandleSteps

LEMMA ReadExistingStep ==
    ASSUME IInv, NEW c \in Callers, ReadExisting(c)
    PROVE  IInv'
BY ReadOn DEF ReadExisting, Answered, Sampled, Backend, stored, holding, ReadSteps,
   AcquireSteps, HandleSteps, UpdateSteps

LEMMA SampleIsRecent ==
    ASSUME IInv, NEW c \in Callers, Sampled(c)
    PROVE  Recent(c, now[c])
BY DEF IInv, NowOK, NowFacts, Recent, TypeOK, CallTypeOK

LEMMA LockHeldStep ==
    ASSUME IInv, NEW c \in Callers, LockHeld(c)
    PROVE  IInv'
<1>1. Doc(c) \in Leases /\ Past(Doc(c)) BY DocFacts DEF LockHeld
<1>2. Recent(c, now[c]) BY SampleIsRecent DEF LockHeld, Answered, Sampled
<1>3. ObservedOK' /\ observed' \in [Lockers -> Observations \cup {None}]
  BY <1>1, <1>2, CanTakeOverFacts DEF LockHeld, Backend, stored
<1> QED BY <1>3, ReturnStep DEF LockHeld, Backend, stored, holding

LEMMA AcquireFailedStep ==
    ASSUME IInv, NEW c \in Callers, AcquireFailed(c)
    PROVE  IInv'
BY UnobservedFacts, ReturnStep DEF AcquireFailed, Backend, stored, holding

\* A call that goes on to a conditional write.
LEMMA WriteOn ==
    ASSUME IInv, NEW c \in Callers, NEW s \in WriteSteps, NEW etag \in Leases \cup {None},
           NEW doc \in Leases, Write(c, s, etag, doc), Sampled(c),
           UNCHANGED <<Backend, handle, working, now, faults>>,
           ObservedOK', observed' \in [Lockers -> Observations \cup {None}],
           GoodWrite(etag, doc), doc.id[1] = c,
           s \in UpdateSteps => handle[c] # None /\ doc.version = handle[c].token
    PROVE  IInv'
<1>1. TypeOK' BY WriteFacts DEF IInv, TypeOK, CallTypeOK, Backend
<1>2. CallFacts(c)'
  <2>1. GoodWrite(match[c], want[c])' BY WriteFacts, GoodWriteFrame DEF IInv, GoodWrite, Past, Due, Backend
  <2> QED BY <2>1, WriteFacts DEF IInv, CallFacts, HandleSteps, UpdateSteps, WriteSteps
<1>3. NowFacts(c)' BY WriteFacts DEF IInv, NowOK, NowFacts, LocalTime, Backend
<1>4. HandleFacts(c)' BY PastFrame DEF IInv, HandleOK, HandleFacts
<1>5. Alone(c) BY WriteFacts DEF IInv, Alone
<1> QED BY <1>1, <1>2, <1>3, <1>4, <1>5, HandlerStep

LEMMA ClaimStep ==
    ASSUME IInv, NEW c \in Callers, Claim(c)
    PROVE  IInv'
<1> DEFINE old == Doc(c)
           doc == NewLease(c, old.version + 1, old.revision + 1, now[c])
<1>1. old \in Leases /\ old # None /\ Past(old) BY DocFacts DEF Claim
<1>2. doc \in Leases /\ doc.id \notin UsedIDs /\ doc.id[1] = c /\ doc.version = old.version + 1
      /\ doc.revision = old.revision + 1 /\ doc.held
  <2>1. now[c] \in Times BY DEF IInv, TypeOK, CallTypeOK
  <2>2. old.version + 1 \in Nat \ {0} /\ old.revision + 1 \in Nat \ {0} BY <1>1 DEF Leases
  <2>3. FreshIDs(c) # {} BY DEF Claim
  <2> HIDE DEF old
  <2> QED BY <2>1, <2>2, <2>3, NewLeaseFacts
<1>3. doc.id # old.id
  <2>1. old \in Documents \ {None} BY <1>1 DEF Documents, Doc
  <2>2. old.id \in UsedIDs BY <2>1 DEF UsedIDs
  <2> QED BY <1>2, <2>2
<1>4. Recent(c, now[c]) BY SampleIsRecent DEF Claim, Answered, Sampled
<1>5. /\ ObservedOK' /\ observed' \in [Lockers -> Observations \cup {None}]
      /\ Due(old, doc)
  <2>1. CASE old.held
    <3>1. CanTakeOver(c, old, now[c], TRUE) BY <2>1 DEF Claim
    <3> QED BY <1>1, <1>2, <1>4, <3>1, CanTakeOverFacts DEF Claim, Due, Backend, stored
  <2>2. CASE ~old.held
    BY <2>2, UnobservedFacts DEF Claim, Due, Backend, stored
  <2> QED BY <2>1, <2>2
<1>6. GoodWrite(old, doc) BY <1>1, <1>2, <1>3, <1>5 DEF GoodWrite, Acquired
<1>7. Write(c, "claim", old, doc) BY DEF Claim
<1>8. Sampled(c) /\ UNCHANGED <<Backend, handle, working, now, faults>>
  BY DEF Claim, Answered, Sampled, Backend, stored, holding
<1> HIDE DEF doc, old
<1> QED BY <1>1, <1>2, <1>5, <1>6, <1>7, <1>8, WriteOn DEF WriteSteps, UpdateSteps

\* A call starts with a sample of the clock and a read.
LEMMA StartRead ==
    ASSUME IInv, NEW c \in Callers, NEW s \in {"renewGet", "releaseGet"}, handle[c] # None,
           now' = [now EXCEPT ![c] = LocalTime(c)], Read(c, s),
           UNCHANGED <<Backend, observed, handle, faults>>, working' \subseteq Callers
    PROVE  IInv'
<1>1. s \in ReadSteps BY DEF ReadSteps
<1>2. LocalTime(c) \in Times BY DEF IInv, TypeOK, LocalTime, Times
<1>3. TypeOK' BY <1>1, <1>2, ReadFacts DEF IInv, TypeOK, CallTypeOK, Backend
<1>4. CallFacts(c)'
  BY <1>1, ReadFacts DEF IInv, CallFacts, AcquireSteps, UpdateSteps, WriteSteps
<1>5. NowFacts(c)'
  BY <1>2 DEF IInv, TypeOK, CallTypeOK, NowFacts, LocalTime, Backend, Times
<1>6. HandleFacts(c)' BY PastFrame DEF IInv, HandleOK, HandleFacts
<1>7. Alone(c) BY <1>1, ReadFacts DEF IInv, TypeOK, CallTypeOK, Alone
<1> QED BY <1>3, <1>4, <1>5, <1>6, <1>7, UnobservedFacts, HandlerStep

LEMMA RenewStep ==
    ASSUME IInv, NEW c \in Callers, Renew(c)
    PROVE  IInv'
BY StartRead DEF Renew, Backend, stored, holding, IInv, TypeOK

LEMMA ReleaseStep ==
    ASSUME IInv, NEW c \in Callers, Release(c)
    PROVE  IInv'
BY StartRead DEF Release, Backend, stored, IInv, TypeOK

\* The document a validated renewal or release is based on.
LEMMA CurrentFacts ==
    ASSUME IInv, NEW c \in Callers, Current(c), pc[c] \in HandleSteps
    PROVE  /\ handle[c] # None /\ handle[c] \in Handles
           /\ Doc(c) \in Leases /\ Past(Doc(c)) /\ Doc(c).held
           /\ handle[c].etag = Doc(c) /\ handle[c].token = Doc(c).version
           /\ Doc(c).id[1] = c
<1>1. handle[c] # None BY DEF IInv, CallOK, CallFacts
<1>2. Doc(c) \in Leases /\ Past(Doc(c)) BY DocFacts DEF Current
<1> QED BY <1>1, <1>2 DEF IInv, TypeOK, HandleOK, HandleFacts, Current

LEMMA RenewValidatedStep ==
    ASSUME IInv, NEW c \in Callers, RenewValidated(c)
    PROVE  IInv'
<1> DEFINE old == Doc(c)
           doc == [old EXCEPT !.held = TRUE, !.duration = TTL[c], !.revision = @ + 1,
                              !.expiresAt = now[c] + TTL[c]]
<1>1. /\ handle[c] # None /\ old \in Leases /\ Past(old) /\ old.held
      /\ handle[c].etag = old /\ handle[c].token = old.version /\ old.id[1] = c
  BY CurrentFacts DEF RenewValidated, Answered, HandleSteps
<1>2. now[c] + TTL[c] \in Times BY DEF IInv, TypeOK, CallTypeOK, Times
<1>3. doc \in Leases /\ doc.id = old.id /\ doc.owner = old.owner /\ doc.version = old.version
      /\ doc.revision = old.revision + 1
  <2>1. old.revision + 1 \in Nat \ {0} /\ TTL[c] \in Nat \ {0} BY <1>1 DEF Leases
  <2> QED BY <1>1, <1>2, <2>1 DEF Leases
<1>4. Recent(c, now[c]) BY SampleIsRecent DEF RenewValidated, Answered, Sampled
<1>5. ObservedOK' /\ observed' \in [Lockers -> Observations \cup {None}]
  BY <1>1, <1>4, CanTakeOverFacts DEF RenewValidated, Backend, stored
<1>6. GoodWrite(old, doc) BY <1>1, <1>3 DEF GoodWrite, Extended
<1>7. Write(c, "renewPut", old, doc) BY <1>1 DEF RenewValidated
<1>8. Sampled(c) /\ UNCHANGED <<Backend, handle, working, now, faults>>
  BY DEF RenewValidated, Answered, Sampled, Backend, stored, holding
<1> HIDE DEF doc, old
<1> QED BY <1>1, <1>3, <1>5, <1>6, <1>7, <1>8, WriteOn DEF WriteSteps

LEMMA ReleaseValidatedStep ==
    ASSUME IInv, NEW c \in Callers, ReleaseValidated(c)
    PROVE  IInv'
<1> DEFINE old == Doc(c)
           doc == [old EXCEPT !.held = FALSE, !.revision = @ + 1, !.expiresAt = now[c]]
<1>1. /\ handle[c] # None /\ old \in Leases /\ Past(old) /\ old.held
      /\ handle[c].etag = old /\ handle[c].token = old.version /\ old.id[1] = c
  BY CurrentFacts DEF ReleaseValidated, Answered, HandleSteps
<1>2. now[c] \in Times BY DEF IInv, TypeOK, CallTypeOK
<1>3. doc \in Leases /\ doc.id = old.id /\ doc.owner = old.owner /\ doc.version = old.version
      /\ doc.revision = old.revision + 1
  <2>1. old.revision + 1 \in Nat \ {0} BY <1>1 DEF Leases
  <2> QED BY <1>1, <1>2, <2>1 DEF Leases
<1>4. GoodWrite(old, doc) BY <1>1, <1>3 DEF GoodWrite, Extended
<1>5. Write(c, "releasePut", old, doc) BY <1>1 DEF ReleaseValidated
<1>6. Sampled(c) /\ UNCHANGED <<Backend, observed, handle, working, now, faults>>
  BY DEF ReleaseValidated, Answered, Sampled, Backend, stored, holding
<1>7. ObservedOK' /\ observed' \in [Lockers -> Observations \cup {None}]
  BY <1>6, UnobservedFacts
<1> HIDE DEF doc, old
<1> QED BY <1>1, <1>3, <1>4, <1>5, <1>6, <1>7, WriteOn DEF WriteSteps

\* The update a caller confirms was stored, and keeps the token of its handle.
LEMMA UpdateFacts ==
    ASSUME IInv, NEW c \in Callers,
           \/ pc[c] \in {"renewPut", "releasePut"} /\ Status(c) = "ok"
           \/ pc[c] \in {"renewRecover", "releaseRecover"} /\ Recovered(c)
    PROVE  /\ want[c] \in Leases /\ Past(want[c]) /\ want[c].id[1] = c
           /\ handle[c] \in Handles /\ want[c].version = handle[c].token
           /\ Recent(c, now[c])
<1>1. want[c] # None /\ want[c].id[1] = c /\ handle[c] # None /\ want[c].version = handle[c].token
  BY DEF IInv, CallOK, CallFacts, UpdateSteps, HandleSteps
<1>2. Past(want[c])
  BY <1>1, DocFacts DEF IInv, CallOK, CallFacts, WriteSteps, Recovered
<1>3. Recent(c, now[c]) BY SampleIsRecent DEF Sampled
<1> QED BY <1>1, <1>2, <1>3 DEF IInv, TypeOK, CallTypeOK

LEMMA RenewedStep ==
    ASSUME IInv, NEW c \in Callers, Renewed(c)
    PROVE  IInv'
<1>1. UNCHANGED <<Backend, faults, working>> /\ Return(c) /\ Observe(c, want[c], now[c])
      /\ handle' = [handle EXCEPT ![c].etag = want[c], ![c].expiresAt = want[c].expiresAt]
  BY DEF Renewed, Backend, stored
<1>2. /\ want[c] \in Leases /\ Past(want[c]) /\ want[c].id[1] = c
      /\ handle[c] \in Handles /\ want[c].version = handle[c].token
      /\ Recent(c, now[c])
  BY UpdateFacts DEF Renewed, Answered
<1>3. ObservedOK' /\ observed' \in [Lockers -> Observations \cup {None}]
  BY <1>1, <1>2, ObserveFacts
<1>4. CallTypeOK' /\ CallFacts(c)' /\ NowFacts(c)' BY <1>1, ReturnFacts DEF IInv
<1>5. handle' \in [Callers -> Handles \cup {None}] /\ handle'[c].token = handle[c].token
      /\ handle'[c].etag = want[c]
  BY <1>1, <1>2 DEF IInv, TypeOK, Handles, Leases
<1>6. TypeOK' BY <1>1, <1>3, <1>4, <1>5 DEF IInv, TypeOK, Backend
<1>7. HandleFacts(c)' BY <1>1, <1>2, <1>5, PastFrame DEF HandleFacts
<1>8. Alone(c) BY <1>1 DEF IInv, TypeOK, CallTypeOK, Return, Alone
<1> QED BY <1>1, <1>3, <1>4, <1>6, <1>7, <1>8, HandlerStep

LEMMA ReleasedStep ==
    ASSUME IInv, NEW c \in Callers, Released(c)
    PROVE  IInv'
<1>1. want[c] \in Leases /\ Past(want[c]) /\ Recent(c, now[c])
  BY UpdateFacts DEF Released, Answered
<1> QED BY <1>1, ObserveFacts, ReturnStep DEF Released, Backend, stored

LEMMA RenewFailedStep ==
    ASSUME IInv, NEW c \in Callers, RenewFailed(c)
    PROVE  IInv'
<1>1. UNCHANGED <<Backend, faults, working, handle>> /\ Return(c)
  BY DEF RenewFailed, Backend, stored, holding
<1>2. CASE UNCHANGED observed BY <1>1, <1>2, UnobservedFacts, ReturnStep
<1>3. CASE Answered(c, "renewGet") /\ Current(c) /\ CanTakeOver(c, Doc(c), now[c], TRUE)
  <2>1. Doc(c) \in Leases /\ Past(Doc(c)) BY <1>3, DocFacts DEF Current
  <2>2. Recent(c, now[c]) BY <1>3, SampleIsRecent DEF Answered, Sampled
  <2> QED BY <1>1, <1>3, <2>1, <2>2, CanTakeOverFacts, ReturnStep
<1> QED BY <1>2, <1>3 DEF RenewFailed

LEMMA ReleaseFailedStep ==
    ASSUME IInv, NEW c \in Callers, ReleaseFailed(c)
    PROVE  IInv'
BY UnobservedFacts, ReturnStep DEF ReleaseFailed, Backend, stored, holding

LEMMA IsHeldStep ==
    ASSUME IInv, NEW c \in Callers, IsHeld(c)
    PROVE  IInv'
<1>1. UNCHANGED <<Backend, observed, handle, working, now, faults>> /\ Read(c, "isHeldGet")
  BY DEF IsHeld, Backend, stored, holding
<1>2. /\ pc' \in [Callers -> Steps] /\ pc'[c] = "isHeldGet" /\ UNCHANGED <<match, want>>
      /\ reply' \in [Callers -> Replies] /\ ~(Doc(c)' # None)
      /\ \A d \in Callers \ {c} : pc'[d] = pc[d] /\ reply'[d] = reply[d]
  BY <1>1, ReadFacts DEF IInv, ReadSteps
<1>3. TypeOK' BY <1>1, <1>2 DEF IInv, TypeOK, CallTypeOK, Backend
<1>4. CallFacts(c)' /\ NowFacts(c)'
  BY <1>2 DEF CallFacts, NowFacts, Sampled, AcquireSteps, UpdateSteps, HandleSteps, WriteSteps
<1>5. HandleFacts(c)' BY <1>1, PastFrame DEF IInv, HandleOK, HandleFacts
<1>6. Alone(c) BY <1>1, <1>2 DEF Alone
<1> QED BY <1>1, <1>3, <1>4, <1>5, <1>6, UnobservedFacts, HandlerStep

LEMMA IsHeldAnsweredStep ==
    ASSUME IInv, NEW c \in Callers, IsHeldAnswered(c)
    PROVE  IInv'
<1>1. UNCHANGED <<Backend, faults, working, handle>> /\ Return(c)
  BY DEF IsHeldAnswered, Backend, stored, holding
<1>2. CASE UNCHANGED observed BY <1>1, <1>2, UnobservedFacts, ReturnStep
<1>3. CASE Doc(c) # None /\ \E answer \in BOOLEAN : CanTakeOver(c, Doc(c), LocalTime(c), answer)
  <2>1. Doc(c) \in Leases /\ Past(Doc(c)) BY <1>3, DocFacts
  <2>2. Recent(c, LocalTime(c)) BY DEF Recent, LocalTime, IInv, TypeOK, Times
  <2> QED BY <1>1, <1>3, <2>1, <2>2, CanTakeOverFacts, ReturnStep
<1> QED BY <1>2, <1>3 DEF IsHeldAnswered

LEMMA AbandonStep ==
    ASSUME IInv, NEW c \in Callers, Abandon(c)
    PROVE  IInv'
<1>1. UNCHANGED <<Backend, faults, call, observed>> /\ working' \subseteq Callers
      /\ handle' = [handle EXCEPT ![c] = None] /\ pc[c] = "idle"
  BY DEF Abandon, Backend, stored, IInv, TypeOK
<1>2. TypeOK' BY <1>1 DEF IInv, TypeOK, CallTypeOK, Backend, call
<1>3. CallFacts(c)'
  BY <1>1, PastFrame DEF IInv, CallOK, CallFacts, call, AcquireSteps, UpdateSteps, HandleSteps,
     WriteSteps, Doc
<1>4. NowFacts(c)' BY <1>1 DEF NowFacts, Sampled, call
<1>5. HandleFacts(c)' /\ Alone(c) BY <1>1 DEF IInv, TypeOK, HandleFacts, Alone, call
<1> QED BY <1>1, <1>2, <1>3, <1>4, <1>5, UnobservedFacts, HandlerStep

-------------------------------------------------------------------------------
\* Storing a good write makes it the stored document, keeps what was stored
\* before it in the past, and keeps every other write good.
LEMMA StoreFacts ==
    ASSUME IInv, NEW etag \in Leases \cup {None}, NEW doc \in Leases, GoodWrite(etag, doc),
           Store(etag, doc), UNCHANGED clock
    PROVE  /\ lease' \in Leases \cup {None} /\ writtenAt' \in Times /\ grantedTo' \in Seq(Callers)
           /\ StoredOK'
           /\ lease = etag => Past(doc)' /\ lease' = doc
           /\ \A d \in Leases : Past(d) => Past(d)' /\ (d = lease' => d = lease /\ UNCHANGED writtenAt)
<1>1. CASE lease # etag
  BY <1>1 DEF Store, IInv, TypeOK, StoredOK, Past, stored
<1>2. CASE lease = etag /\ etag = None
  <2>1. lease' = doc /\ writtenAt' = clock /\ grantedTo' = Append(grantedTo, doc.id[1])
    BY <1>2 DEF Store
  <2>2. grantedTo = << >> /\ doc.version = 1 BY <1>2 DEF IInv, StoredOK, GoodWrite
  <2>3. doc.id[1] \in Callers BY DEF Leases, LeaseIDs
  <2>4. grantedTo' = <<doc.id[1]>> BY <2>1, <2>2, <2>3
  <2>5. Past(doc)' /\ Len(grantedTo') = doc.version BY <2>1, <2>2, <2>4 DEF Past, Leases
  <2>6. \A d : ~Past(d) BY <1>2 DEF Past
  <2> QED BY <1>2, <2>1, <2>3, <2>4, <2>5, <2>6 DEF IInv, TypeOK, StoredOK, Times
<1>3. CASE lease = etag /\ etag # None
  <2>1. lease' = doc /\ writtenAt' = clock /\ lease \in Leases /\ Len(grantedTo) = lease.version
        /\ Past(lease) /\ grantedTo \in Seq(Callers) /\ clock \in Times
    BY <1>3 DEF Store, IInv, TypeOK, StoredOK
  <2>2. doc.id[1] \in Callers BY DEF Leases, LeaseIDs
  <2>3. doc.revision = lease.revision + 1 /\ lease.revision \in Nat /\ lease.version \in Nat \ {0}
    BY <1>3, <2>1 DEF GoodWrite, Leases
  <2>4. /\ grantedTo' \in Seq(Callers) /\ Len(grantedTo') = doc.version
        /\ grantedTo'[doc.version] = doc.id[1] /\ doc.version >= lease.version
        /\ \A n \in 1..lease.version : grantedTo'[n] = grantedTo[n]
    <3>1. CASE doc.version = lease.version /\ doc.id = lease.id
      <4>1. grantedTo' = grantedTo BY <1>3, <2>1, <3>1 DEF Store
      <4> QED BY <2>1, <2>3, <3>1, <4>1 DEF Past
    <3>2. CASE doc.version = lease.version + 1
      <4>1. grantedTo' = Append(grantedTo, doc.id[1])
        BY <1>3, <2>3, <3>2 DEF Store
      <4> QED BY <2>1, <2>2, <2>3, <3>2, <4>1
    <3> QED BY <1>3, <3>1, <3>2 DEF GoodWrite, Extended, Acquired
  <2>5. Past(doc)'
    <3>1. doc \in Leases /\ doc # None BY DEF Leases
    <3> QED BY <2>1, <2>4, <3>1 DEF Past, Leases
  <2>6. ASSUME NEW d \in Leases, Past(d) PROVE Past(d)' /\ d # lease'
    <3>1. d.revision < doc.revision /\ d.version \in 1..lease.version
          /\ grantedTo[d.version] = d.id[1]
      <4>1. d.revision \in Nat /\ d.version \in Nat \ {0} /\ doc.revision \in Nat BY <2>6 DEF Leases
      <4>2. d = lease \/ d.revision < lease.revision BY <2>6 DEF Past
      <4>3. d.version <= lease.version /\ grantedTo[d.version] = d.id[1] BY <2>6 DEF Past
      <4> QED BY <2>3, <4>1, <4>2, <4>3
    <3>2. d.version <= doc.version /\ grantedTo'[d.version] = d.id[1]
      <4>1. d.version \in Nat /\ doc.version \in Nat BY <2>6 DEF Leases
      <4>2. doc.version >= lease.version BY <2>4
      <4>3. d.version <= lease.version /\ lease.version \in Nat BY <2>3, <3>1
      <4>4. d.version <= doc.version BY <4>1, <4>2, <4>3
      <4>5. grantedTo'[d.version] = grantedTo[d.version] BY <2>4, <3>1
      <4> QED BY <3>1, <4>4, <4>5
    <3>3. d # doc /\ doc # None
      <4>1. d.revision \in Nat BY <2>6 DEF Leases
      <4> QED BY <3>1, <4>1
    <3> QED BY <2>1, <3>1, <3>2, <3>3 DEF Past
  <2> QED BY <1>3, <2>1, <2>4, <2>5, <2>6 DEF StoredOK, Times
<1> QED BY <1>1, <1>2, <1>3

\* The store goes on from what it was: what was stored stays in the past, and
\* no document comes back.
Evolves ==
    /\ UNCHANGED clock
    /\ lease' \in Leases \cup {None} /\ writtenAt' \in Times /\ grantedTo' \in Seq(Callers)
    /\ StoredOK'
    /\ \A d \in Leases : Past(d) => Past(d)' /\ (d = lease' => d = lease /\ UNCHANGED writtenAt)

LEMMA UnchangedEvolves ==
    ASSUME IInv, UNCHANGED <<clock, stored>>
    PROVE  Evolves
BY DEF Evolves, IInv, TypeOK, StoredOK, Past, stored

LEMMA StoreEvolves ==
    ASSUME IInv, NEW etag \in Leases \cup {None}, NEW doc \in Leases, GoodWrite(etag, doc),
           Store(etag, doc), UNCHANGED clock
    PROVE  Evolves
BY StoreFacts DEF Evolves

LEMMA GoodWriteStays ==
    ASSUME Evolves, NEW etag \in Leases \cup {None}, NEW doc \in Leases, GoodWrite(etag, doc)
    PROVE  GoodWrite(etag, doc)'
<1>1. CASE etag = None BY <1>1 DEF GoodWrite
<1>2. CASE etag # None
  <2>1. Past(etag)' /\ (etag = lease' => etag = lease /\ UNCHANGED writtenAt)
    BY <1>2 DEF GoodWrite, Evolves
  <2>2. ASSUME Due(etag, doc) PROVE Due(etag, doc)'
    BY <2>1, <2>2 DEF Due, Evolves
  <2> QED BY <1>2, <2>1, <2>2 DEF GoodWrite, Extended, Acquired
<1> QED BY <1>1, <1>2

LEMMA EvolvedFacts ==
    ASSUME IInv, Evolves, UNCHANGED <<observed, handle>>
    PROVE  ObservedOK' /\ HandleOK'
<1>1. ASSUME NEW l \in Lockers PROVE ObservedFacts(l)'
  <2>1. CASE observed[l] # None
    <3>1. observed[l].etag \in Leases BY <2>1 DEF IInv, TypeOK, Observations
    <3>2. ObservedFacts(l) BY DEF IInv, ObservedOK
    <3> QED BY <2>1, <3>1, <3>2 DEF ObservedFacts, Evolves
  <2> QED BY <2>1 DEF ObservedFacts
<1>2. ASSUME NEW c \in Callers PROVE HandleFacts(c)'
  <2>1. CASE handle[c] # None
    <3>1. handle[c].etag \in Leases BY <2>1 DEF IInv, TypeOK, Handles
    <3>2. HandleFacts(c) BY DEF IInv, HandleOK
    <3> QED BY <2>1, <3>1, <3>2 DEF HandleFacts, Evolves
  <2> QED BY <2>1 DEF HandleFacts
<1> QED BY <1>1, <1>2 DEF ObservedOK, HandleOK

\* The pending write of a call, and every late write, is a good one.
LEMMA PendingWrite ==
    ASSUME IInv, NEW c \in Callers, pc[c] \in WriteSteps
    PROVE  match[c] \in Leases \cup {None} /\ want[c] \in Leases /\ GoodWrite(match[c], want[c])
BY DEF IInv, TypeOK, CallTypeOK, CallOK, CallFacts, WriteSteps, AcquireSteps, UpdateSteps

\* The backend answers c with r, or leaves its request pending.
LEMMA ServingStep ==
    ASSUME IInv, Evolves, NEW c \in Callers, NEW r \in Replies,
           reply' = [reply EXCEPT ![c] = r] \/ UNCHANGED reply,
           r.doc # None => Past(r.doc)',
           pc[c] \in WriteSteps /\ r.status = "ok" => Past(want[c])',
           UNCHANGED <<observed, handle, working, pc, now, match, want>>,
           \/ UNCHANGED late
           \/ pc[c] \in WriteSteps /\ late' = late \cup {[match |-> match[c], doc |-> want[c]]},
           faults' \in 0..MaxFaults
    PROVE  IInv'
<1>1. reply' \in [Callers -> Replies]
      /\ \A d \in Callers : reply'[d] = reply[d] \/ (d = c /\ reply'[d] = r)
  BY DEF IInv, TypeOK, CallTypeOK
<1>2. TypeOK'
  <2>1. late' \subseteq Writes
    <3>1. pc[c] \in WriteSteps => [match |-> match[c], doc |-> want[c]] \in Writes
      BY PendingWrite DEF Writes
    <3> QED BY <3>1 DEF IInv, TypeOK
  <2>2. clock' \in Times BY DEF Evolves, IInv, TypeOK
  <2> QED BY <1>1, <2>1, <2>2 DEF IInv, TypeOK, CallTypeOK, Evolves
<1>3. LateOK'
  <2> SUFFICES ASSUME NEW w \in late' PROVE GoodWrite(w.match, w.doc)'
    BY DEF LateOK
  <2>1. w.match \in Leases \cup {None} /\ w.doc \in Leases /\ GoodWrite(w.match, w.doc)
    <3>1. CASE w \in late BY <3>1 DEF IInv, TypeOK, LateOK, Writes
    <3>2. CASE w \notin late
      <4>1. pc[c] \in WriteSteps /\ w.match = match[c] /\ w.doc = want[c] BY <3>2
      <4> QED BY <4>1, PendingWrite
    <3> QED BY <3>1, <3>2
  <2> QED BY <2>1, GoodWriteStays DEF GoodWrite, Past, Due, Extended, Acquired
<1>4. NowOK'
  BY DEF IInv, NowOK, NowFacts, Sampled, LocalTime, Evolves
<1>5. CallOK'
  <2> SUFFICES ASSUME NEW d \in Callers PROVE CallFacts(d)'
    BY DEF CallOK
  <2>1. CallFacts(d) /\ want[d] \in Leases \cup {None} /\ reply[d].doc \in Leases \cup {None}
    BY DEF IInv, CallOK, TypeOK, CallTypeOK, Replies
  <2>2. (pc[d] \in WriteSteps => GoodWrite(match[d], want[d]))'
    BY PendingWrite, GoodWriteStays DEF GoodWrite, Past, Due, Extended, Acquired
  <2>3. (Doc(d) # None => Past(Doc(d)))'
    BY <1>1, <2>1 DEF CallFacts, Doc, Evolves, Past
  <2>4. (pc[d] \in WriteSteps /\ Status(d) = "ok" => Past(want[d]))'
    <3>1. CASE reply'[d] = reply[d]
      BY <2>1, <3>1 DEF CallFacts, Status, Evolves, AcquireSteps, UpdateSteps, WriteSteps
    <3>2. CASE d = c /\ reply'[d] = r
      BY <3>2 DEF Status
    <3> QED BY <1>1, <3>1, <3>2
  <2> QED BY <2>1, <2>2, <2>3, <2>4 DEF CallFacts, GoodWrite, Past, Due, Extended, Acquired
<1> QED BY <1>2, <1>3, <1>4, <1>5, EvolvedFacts DEF IInv, Evolves

LEMMA ServeReadStep ==
    ASSUME IInv, NEW c \in Callers, ServeRead(c)
    PROVE  IInv'
<1>1. Reply("ok", lease) \in Replies BY DEF Reply, Replies, IInv, TypeOK
<1>2. Evolves BY UnchangedEvolves DEF ServeRead
<1>4. pc[c] \notin WriteSteps
  BY DEF ServeRead, WriteSteps, ReadSteps, RecoverSteps
<1>5. UNCHANGED <<observed, handle, working, pc, now, match, want, late, stored>>
      /\ reply' = [reply EXCEPT ![c] = Reply("ok", lease)] /\ faults' \in 0..MaxFaults
  BY DEF ServeRead, Answer, holding, IInv, TypeOK
<1>6. Reply("ok", lease).doc # None => Past(Reply("ok", lease).doc)
  BY DEF Reply, IInv, StoredOK
<1> DEFINE r == Reply("ok", lease)
<1>7. r \in Replies /\ (r.doc # None => Past(r.doc)) /\ r.doc = lease
  BY <1>1, <1>6 DEF Reply
<1> HIDE DEF r
<1>8. PICK q \in Replies : q = r BY <1>7
<1>9. q.doc # None => Past(q.doc)' BY <1>7, <1>8, <1>5 DEF Past, stored
<1> QED BY <1>2, <1>4, <1>5, <1>8, <1>9, ServingStep DEF r

LEMMA ServeWriteStep ==
    ASSUME IInv, NEW c \in Callers, ServeWrite(c)
    PROVE  IInv'
<1>1. match[c] \in Leases \cup {None} /\ want[c] \in Leases /\ GoodWrite(match[c], want[c])
  BY PendingWrite DEF ServeWrite
<1>2. Store(match[c], want[c]) /\ UNCHANGED clock BY DEF ServeWrite
<1>3. Evolves BY <1>1, <1>2, StoreEvolves
<1>4. PICK m \in Leases \cup {None}, d \in Leases : m = match[c] /\ d = want[c] BY <1>1
<1>5. lease = match[c] => Past(d)' BY <1>1, <1>2, <1>4, StoreFacts
<1>6. PICK r \in Replies : /\ reply' = [reply EXCEPT ![c] = r] /\ r.doc = None
                           /\ r.status = "ok" => lease = match[c]
  <2>1. Reply(IF lease = match[c] THEN "ok" ELSE "precondition", None) \in Replies
    BY DEF Reply, Replies
  <2> QED BY <2>1 DEF ServeWrite, Answer, Reply
<1>7. UNCHANGED <<observed, handle, working, pc, now, match, want, late>>
      /\ faults' \in 0..MaxFaults
  BY DEF ServeWrite, holding, IInv, TypeOK
<1>8. r.status = "ok" => Past(want[c])' BY <1>4, <1>5, <1>6, <1>7 DEF Past
<1> QED BY <1>3, <1>6, <1>7, <1>8, ServingStep

LEMMA FaultFacts ==
    ASSUME IInv, Fault
    PROVE  faults' \in 0..MaxFaults
BY DEF IInv, TypeOK, Fault

LEMMA ErrorReply == Reply("error", None) \in Replies /\ Reply("error", None).doc = None
                    /\ Reply("error", None).status # "ok"
BY DEF Reply, Replies

LEMMA CallFailsStep ==
    ASSUME IInv, NEW c \in Callers, CallFails(c)
    PROVE  IInv'
<1>1. Evolves BY UnchangedEvolves DEF CallFails
<1> QED BY <1>1, ErrorReply, FaultFacts, ServingStep DEF CallFails, Answer, holding

LEMMA ReplyLostStep ==
    ASSUME IInv, NEW c \in Callers, ReplyLost(c)
    PROVE  IInv'
<1>1. match[c] \in Leases \cup {None} /\ want[c] \in Leases /\ GoodWrite(match[c], want[c])
  BY PendingWrite DEF ReplyLost
<1>2. Evolves BY <1>1, StoreEvolves DEF ReplyLost
<1> QED BY <1>2, ErrorReply, FaultFacts, ServingStep DEF ReplyLost, FailOrRetry, Answer, holding

LEMMA WriteDelayedStep ==
    ASSUME IInv, NEW c \in Callers, WriteDelayed(c)
    PROVE  IInv'
<1>1. Evolves BY UnchangedEvolves DEF WriteDelayed
<1> QED BY <1>1, ErrorReply, FaultFacts, ServingStep DEF WriteDelayed, FailOrRetry, Answer, holding

\* A step of the backend that answers nobody.
LEMMA BackgroundStep ==
    ASSUME IInv, Evolves, UNCHANGED <<observed, handle, working, call, faults>>,
           late' \subseteq late
    PROVE  IInv'
<1>1. TypeOK' BY DEF Evolves, IInv, TypeOK, CallTypeOK, call
<1>2. LateOK'
  <2> SUFFICES ASSUME NEW w \in late PROVE GoodWrite(w.match, w.doc)'
    BY DEF LateOK
  <2> QED BY GoodWriteStays DEF IInv, TypeOK, LateOK, Writes
<1>3. NowOK' BY DEF IInv, NowOK, NowFacts, Sampled, LocalTime, Evolves, call
<1>4. ASSUME NEW d \in Callers PROVE CallFacts(d)'
  <2>1. CallFacts(d) /\ want[d] \in Leases \cup {None} /\ reply[d].doc \in Leases \cup {None}
    BY DEF IInv, CallOK, TypeOK, CallTypeOK, Replies
  <2>2. (pc[d] \in WriteSteps => GoodWrite(match[d], want[d]))'
    BY PendingWrite, GoodWriteStays DEF GoodWrite, Past, Due, Extended, Acquired, call
  <2>3. (Doc(d) # None => Past(Doc(d)))'
    BY <2>1 DEF CallFacts, Doc, Evolves, Past, call
  <2>4. (pc[d] \in WriteSteps /\ Status(d) = "ok" => Past(want[d]))'
    BY <2>1 DEF CallFacts, Status, Evolves, AcquireSteps, UpdateSteps, WriteSteps, call, Past
  <2> QED BY <2>1, <2>2, <2>3, <2>4 DEF CallFacts, call
<1> QED BY <1>1, <1>2, <1>3, <1>4, EvolvedFacts DEF IInv, CallOK, Evolves

LEMMA LateWriteArrivesStep ==
    ASSUME IInv, NEW w \in late, LateWriteArrives(w)
    PROVE  IInv'
<1>1. w.match \in Leases \cup {None} /\ w.doc \in Leases /\ GoodWrite(w.match, w.doc)
  BY DEF IInv, TypeOK, LateOK, Writes
<1>2. Evolves BY <1>1, StoreEvolves DEF LateWriteArrives
<1> QED BY <1>2, BackgroundStep DEF LateWriteArrives, holding

\* Time passing makes no write less due and no sample too old.
LEMMA TickStep ==
    ASSUME IInv, Tick
    PROVE  IInv'
<1>1. clock' = clock + 1 /\ clock \in Nat /\ writtenAt \in Nat
      /\ UNCHANGED <<lease, writtenAt, grantedTo, late, observed, handle, working, call, faults>>
  BY DEF Tick, IInv, TypeOK, Times, stored, holding
<1>2. TypeOK' BY <1>1 DEF IInv, TypeOK, CallTypeOK, Times, call
<1>3. StoredOK' BY <1>1 DEF IInv, StoredOK, Past
<1>4. ASSUME NEW etag \in Leases \cup {None}, NEW doc \in Leases, GoodWrite(etag, doc)
      PROVE  GoodWrite(etag, doc)'
  <2>1. etag # None => etag.duration \in Nat /\ doc.id[1] \in Callers
    BY DEF Leases, LeaseIDs
  <2>2. etag # None /\ Due(etag, doc) => Due(etag, doc)' BY <1>1, <2>1 DEF Due
  <2> QED BY <1>1, <1>4, <2>2 DEF GoodWrite, Past, Extended, Acquired
<1>5. LateOK' BY <1>1, <1>4 DEF IInv, LateOK, TypeOK, Writes
<1>6. ObservedOK' BY <1>1 DEF IInv, ObservedOK, ObservedFacts, Past
<1>7. HandleOK' BY <1>1 DEF IInv, HandleOK, HandleFacts, Past
<1>8. NowOK'
  <2> SUFFICES ASSUME NEW c \in Callers, Sampled(c)
               PROVE  now[c] <= LocalTime(c)' /\ LocalTime(c)' <= now[c] + MaxDelay
    BY <1>1 DEF NowOK, NowFacts, Sampled, call
  <2>1. LocalTime(c) < now[c] + MaxDelay BY DEF Tick
  <2>2. LocalTime(c) \in Nat /\ LocalTime(c)' = LocalTime(c) + 1 /\ now[c] \in Nat
    BY <1>1 DEF LocalTime, IInv, TypeOK, CallTypeOK, Times
  <2>3. now[c] <= LocalTime(c) BY DEF IInv, NowOK, NowFacts
  <2> QED BY <2>1, <2>2, <2>3
<1>9. CallOK'
  <2> SUFFICES ASSUME NEW d \in Callers PROVE CallFacts(d)'
    BY DEF CallOK
  <2>1. (pc[d] \in WriteSteps => GoodWrite(match[d], want[d]))'
    BY <1>1, <1>4, PendingWrite DEF call, GoodWrite, Past, Due, Extended, Acquired
  <2> QED BY <1>1, <2>1 DEF IInv, CallOK, CallFacts, Doc, Status, Past, call
<1> QED BY <1>2, <1>3, <1>5, <1>6, <1>7, <1>8, <1>9 DEF IInv

LEMMA CrashStep ==
    ASSUME IInv, NEW l \in Lockers, Crash(l)
    PROVE  IInv'
<1> DEFINE dead == {c \in Callers : LockerOf[c] = l}
           inFlight == {c \in dead : Waiting(c) /\ pc[c] \in WriteSteps}
<1>1. /\ late' = late \cup {[match |-> match[c], doc |-> want[c]] : c \in inFlight}
      /\ observed' = [observed EXCEPT ![l] = None]
      /\ handle' = [c \in Callers |-> IF c \in dead THEN None ELSE handle[c]]
      /\ working' = working \ dead
      /\ pc' = [c \in Callers |-> IF c \in dead THEN "idle" ELSE pc[c]]
      /\ now' = [c \in Callers |-> IF c \in dead THEN 0 ELSE now[c]]
      /\ match' = [c \in Callers |-> IF c \in dead THEN None ELSE match[c]]
      /\ want' = [c \in Callers |-> IF c \in dead THEN None ELSE want[c]]
      /\ reply' = [c \in Callers |-> IF c \in dead THEN Pending ELSE reply[c]]
  BY DEF Crash
<1>2. UNCHANGED <<clock, stored>> /\ faults' \in 0..MaxFaults
  BY FaultFacts DEF Crash
<1>3. Evolves BY <1>2, UnchangedEvolves
<1>4. ASSUME NEW w \in late' PROVE w \in Writes /\ GoodWrite(w.match, w.doc)
  <2>1. CASE w \in late BY <2>1 DEF IInv, TypeOK, LateOK
  <2>2. CASE w \notin late
    <3>1. PICK c \in inFlight : w = [match |-> match[c], doc |-> want[c]] BY <1>1, <2>2
    <3> QED BY <3>1, PendingWrite DEF Writes
  <2> QED BY <2>1, <2>2
<1>5. LateOK'
  BY <1>2, <1>4 DEF LateOK, GoodWrite, Past, Due, Extended, Acquired, stored
<1>6. TypeOK'
  <2>1. CallTypeOK'
    BY <1>1 DEF IInv, TypeOK, CallTypeOK, Steps, Times, Replies, Pending
  <2>2. observed' \in [Lockers -> Observations \cup {None}] /\ working' \subseteq Callers
        /\ handle' \in [Callers -> Handles \cup {None}]
    BY <1>1 DEF IInv, TypeOK
  <2> QED BY <1>2, <1>4, <2>1, <2>2 DEF IInv, TypeOK, stored
<1>7. ObservedOK'
  <2> SUFFICES ASSUME NEW k \in Lockers PROVE ObservedFacts(k)'
    BY DEF ObservedOK
  <2>1. CASE k = l BY <1>1, <2>1 DEF IInv, TypeOK, ObservedFacts
  <2>2. CASE k # l
    BY <1>1, <1>2, <2>2 DEF IInv, TypeOK, ObservedOK, ObservedFacts, Past, stored
  <2> QED BY <2>1, <2>2
<1>8. ASSUME NEW c \in Callers PROVE HandleFacts(c)' /\ NowFacts(c)' /\ CallFacts(c)'
  <2>1. CASE c \in dead
    BY <1>1, <2>1 DEF HandleFacts, NowFacts, CallFacts, Sampled, Doc, Pending,
       AcquireSteps, UpdateSteps, HandleSteps, WriteSteps
  <2>2. CASE c \notin dead
    <3>1. /\ handle'[c] = handle[c] /\ pc'[c] = pc[c] /\ now'[c] = now[c] /\ match'[c] = match[c]
          /\ want'[c] = want[c] /\ reply'[c] = reply[c]
      BY <1>1, <2>2
    <3>2. HandleFacts(c)' BY <1>2, <3>1 DEF IInv, HandleOK, HandleFacts, Past, stored
    <3>3. NowFacts(c)' BY <1>2, <3>1 DEF IInv, NowOK, NowFacts, Sampled, LocalTime
    <3>4. CallFacts(c)'
      BY <1>2, <3>1 DEF IInv, CallOK, CallFacts, Doc, Status, GoodWrite, Past, Due, Extended,
         Acquired, stored
    <3> QED BY <3>2, <3>3, <3>4
  <2> QED BY <2>1, <2>2
<1> QED BY <1>3, <1>5, <1>6, <1>7, <1>8 DEF IInv, HandleOK, NowOK, CallOK, Evolves

-------------------------------------------------------------------------------
LEMMA InitEstablishes == Init => IInv
<1> SUFFICES ASSUME Init PROVE IInv OBVIOUS
<1>1. TypeOK
  BY DEF Init, TypeOK, CallTypeOK, Times, Steps, Replies, Pending
<1>2. StoredOK /\ LateOK /\ ObservedOK /\ HandleOK
  BY DEF Init, StoredOK, LateOK, ObservedOK, ObservedFacts, HandleOK, HandleFacts
<1>3. NowOK /\ CallOK
  BY DEF Init, NowOK, NowFacts, Sampled, CallOK, CallFacts, Doc, Pending, AcquireSteps,
     UpdateSteps, HandleSteps, WriteSteps
<1> QED BY <1>1, <1>2, <1>3 DEF IInv

LEMMA StutterPreserves == IInv /\ UNCHANGED vars => IInv'
<1> SUFFICES ASSUME IInv, UNCHANGED vars PROVE IInv' OBVIOUS
<1>1. Evolves BY UnchangedEvolves DEF vars, stored
<1> QED BY <1>1, BackgroundStep DEF vars, holding

LEMMA NextPreserves == IInv /\ Next => IInv'
<1> SUFFICES ASSUME IInv, Next PROVE IInv' OBVIOUS
<1>1. ASSUME NEW c \in Callers, Acquiring(c) PROVE IInv'
  BY <1>1, TryAcquireStep, AcquireWrittenStep, AcquireRecoveredStep, ReadExistingStep,
     FoundOwnLeaseStep, LockHeldStep, ClaimStep, AcquireFailedStep DEF Acquiring
<1>2. ASSUME NEW c \in Callers, WriteFailed(c) PROVE IInv' BY <1>2, WriteFailedStep
<1>3. ASSUME NEW c \in Callers, Renewing(c) PROVE IInv'
  BY <1>3, RenewStep, RenewValidatedStep, RenewedStep, RenewFailedStep DEF Renewing
<1>4. ASSUME NEW c \in Callers, Releasing(c) PROVE IInv'
  BY <1>4, ReleaseStep, ReleaseValidatedStep, ReleasedStep, ReleaseFailedStep, AbandonStep
     DEF Releasing
<1>5. ASSUME NEW c \in Callers, Asking(c) PROVE IInv'
  BY <1>5, IsHeldStep, IsHeldAnsweredStep DEF Asking
<1>6. ASSUME NEW c \in Callers, Serving(c) PROVE IInv'
  BY <1>6, ServeReadStep, ServeWriteStep, CallFailsStep, ReplyLostStep, WriteDelayedStep
     DEF Serving
<1>7. ASSUME NEW w \in late, LateWriteArrives(w) PROVE IInv' BY <1>7, LateWriteArrivesStep
<1>8. ASSUME NEW l \in Lockers, Crash(l) PROVE IInv' BY <1>8, CrashStep
<1>9. ASSUME Tick PROVE IInv' BY <1>9, TickStep
<1> QED BY <1>1, <1>2, <1>3, <1>4, <1>5, <1>6, <1>7, <1>8, <1>9 DEF Next

(* The induction invariant holds in every state.                           *)
THEOREM Induction == Spec => []IInv
BY InitEstablishes, NextPreserves, StutterPreserves, PTL DEF Spec

(* Every variable keeps its type, in particular no caller ever works with  *)
(* the absent document where it needs a lease.                             *)
THEOREM TypeCorrect == Spec => []TypeOK
<1>1. IInv => TypeOK BY DEF IInv
<1> QED BY <1>1, Induction, PTL

(* A handle's fencing token was created by its caller's own claim.         *)
THEOREM GrantedHandles == Spec => []HandlesWereGranted
<1>1. IInv => HandlesWereGranted
  <2> SUFFICES ASSUME IInv, NEW c \in Callers, handle[c] # None
               PROVE  handle[c].token \in DOMAIN grantedTo /\ grantedTo[handle[c].token] = c
    BY DEF HandlesWereGranted
  <2>1. handle[c].etag \in Leases BY DEF IInv, TypeOK, Handles
  <2>2. HandleFacts(c) BY DEF IInv, HandleOK
  <2>3. lease # None /\ Len(grantedTo) = lease.version /\ grantedTo \in Seq(Callers)
    BY <2>2 DEF IInv, HandleFacts, Past, StoredOK, TypeOK
  <2>4. /\ handle[c].token = handle[c].etag.version /\ handle[c].etag.version <= lease.version
        /\ grantedTo[handle[c].etag.version] = handle[c].etag.id[1] /\ handle[c].etag.id[1] = c
    BY <2>2 DEF HandleFacts, Past
  <2>5. lease.version \in Nat /\ handle[c].etag.version \in Nat \ {0}
    <3>1. lease \in Leases BY <2>2 DEF IInv, TypeOK, HandleFacts, Past
    <3> QED BY <2>1, <3>1 DEF Leases
  <2>6. handle[c].token \in 1..Len(grantedTo)
    <3>1. handle[c].etag.version \in 1..lease.version
      <4>1. handle[c].etag.version <= lease.version BY <2>4
      <4> QED BY <2>5, <4>1
    <3>2. Len(grantedTo) = lease.version BY <2>3
    <3> QED BY <2>4, <3>1, <3>2
  <2>7. DOMAIN grantedTo = 1..Len(grantedTo) BY <2>3
  <2> QED BY <2>4, <2>6, <2>7
<1> QED BY <1>1, Induction, PTL

(* A handle's ETag names a document that was stored.                       *)
THEOREM StoredHandles == Spec => []HandlesWereStored
<1>1. IInv => HandlesWereStored
  <2> SUFFICES ASSUME IInv, NEW c \in Callers, handle[c] # None
               PROVE  /\ lease # None
                      /\ lease = handle[c].etag \/ lease.revision > handle[c].etag.revision
                      /\ lease.version >= handle[c].token
    BY DEF HandlesWereStored
  <2>1. handle[c].etag \in Leases BY DEF IInv, TypeOK, Handles
  <2>2. HandleFacts(c) BY DEF IInv, HandleOK
  <2>3. /\ lease \in Leases
        /\ handle[c].etag = lease \/ handle[c].etag.revision < lease.revision
        /\ handle[c].token = handle[c].etag.version /\ handle[c].etag.version <= lease.version
    BY <2>2 DEF IInv, TypeOK, HandleFacts, Past
  <2>4. /\ lease.version \in Nat /\ lease.revision \in Nat
        /\ handle[c].etag.version \in Nat /\ handle[c].etag.revision \in Nat
    BY <2>1, <2>3 DEF Leases
  <2> QED BY <2>3, <2>4
<1> QED BY <1>1, Induction, PTL

(* No two callers hold a handle with the same fencing token.               *)
THEOREM DifferentTokens == Spec => []TokensDiffer
<1>1. HandlesWereGranted /\ TypeOK => TokensDiffer
  <2> SUFFICES ASSUME HandlesWereGranted, TypeOK, NEW c \in Callers, NEW d \in Callers,
                      c # d, TokenHeld[c] # 0
               PROVE  TokenHeld[c] # TokenHeld[d]
    BY DEF TokensDiffer, Promise!TokensDiffer
  <2>1. handle[c] # None /\ TokenHeld[c] = handle[c].token BY DEF TokenHeld
  <2>2. CASE handle[d] = None BY <2>2 DEF TokenHeld
  <2>3. CASE handle[d] # None BY <2>1, <2>3 DEF TokenHeld, HandlesWereGranted
  <2> QED BY <2>2, <2>3
<1> QED BY <1>1, GrantedHandles, TypeCorrect, PTL

-------------------------------------------------------------------------------
\* The stored document only changes when a good write is served or arrives.
LEMMA WhoWrites ==
    ASSUME IInv, Next, ~(UNCHANGED stored)
    PROVE  /\ UNCHANGED clock /\ UNCHANGED handle
           /\ \E etag \in Leases \cup {None}, doc \in Leases :
                  GoodWrite(etag, doc) /\ Store(etag, doc)
<1>1. ASSUME NEW c \in Callers, ServeWrite(c) \/ ReplyLost(c)
      PROVE  /\ UNCHANGED clock /\ UNCHANGED handle
             /\ \E etag \in Leases \cup {None}, doc \in Leases :
                  GoodWrite(etag, doc) /\ Store(etag, doc)
  <2>1. pc[c] \in WriteSteps /\ UNCHANGED clock /\ UNCHANGED handle /\ Store(match[c], want[c])
    BY <1>1 DEF ServeWrite, ReplyLost, holding
  <2> QED BY <2>1, PendingWrite
<1>2. ASSUME NEW w \in late, LateWriteArrives(w)
      PROVE  /\ UNCHANGED clock /\ UNCHANGED handle
             /\ \E etag \in Leases \cup {None}, doc \in Leases :
                  GoodWrite(etag, doc) /\ Store(etag, doc)
  <2>1. UNCHANGED clock /\ UNCHANGED handle /\ Store(w.match, w.doc)
    BY <1>2 DEF LateWriteArrives, holding
  <2>2. w.match \in Leases \cup {None} /\ w.doc \in Leases /\ GoodWrite(w.match, w.doc)
    BY DEF IInv, TypeOK, LateOK, Writes
  <2> QED BY <2>1, <2>2
<1>3. ASSUME NEW c \in Callers, Acquiring(c) \/ WriteFailed(c) \/ Asking(c) PROVE FALSE
  BY <1>3 DEF Acquiring, WriteFailed, Asking, TryAcquire, AcquireWritten, AcquireRecovered,
     ReadExisting, FoundOwnLease, LockHeld, Claim, AcquireFailed, IsHeld, IsHeldAnswered
<1>4. ASSUME NEW c \in Callers, Renewing(c) \/ Releasing(c) PROVE FALSE
  BY <1>4 DEF Renewing, Releasing, Renew, RenewValidated, Renewed, RenewFailed, Release,
     ReleaseValidated, Released, ReleaseFailed, Abandon
<1>5. ASSUME NEW c \in Callers, ServeRead(c) \/ CallFails(c) \/ WriteDelayed(c) PROVE FALSE
  BY <1>5 DEF ServeRead, CallFails, WriteDelayed
<1>6. ASSUME NEW l \in Lockers, Crash(l) PROVE FALSE BY <1>6 DEF Crash
<1>7. ASSUME Tick PROVE FALSE BY <1>7 DEF Tick
<1> QED BY <1>1, <1>2, <1>3, <1>4, <1>5, <1>6, <1>7 DEF Next, Serving

(* The stored document only changes along the fencing sequence.            *)
THEOREM Sequenced == Spec => FencingSequence
<1> DEFINE A == lease' # lease =>
                  IF lease = None
                  THEN lease'.version = 1 /\ lease'.revision = 1
                  ELSE /\ lease' # None
                       /\ lease'.revision = lease.revision + 1
                       /\ Acquired(lease, lease') \/ Extended(lease, lease')
<1>1. IInv /\ Next => A
  <2> SUFFICES ASSUME IInv, Next, lease' # lease PROVE A OBVIOUS
  <2>1. PICK etag \in Leases \cup {None}, doc \in Leases : GoodWrite(etag, doc) /\ Store(etag, doc)
    BY WhoWrites DEF stored
  <2>2. lease = etag /\ lease' = doc BY <2>1 DEF Store, stored
  <2> QED BY <2>1, <2>2 DEF GoodWrite
<1>2. UNCHANGED vars => A BY DEF vars, stored
<1>3. IInv /\ [Next]_vars => [A]_vars BY <1>1, <1>2
<1> HIDE DEF A
<1>4. Spec => [][A]_vars BY <1>3, Induction, PTL DEF Spec
<1> QED BY <1>4 DEF A, FencingSequence

(* A held lease is taken over only after it has waited for its duration and *)
(* the taker's grace, less MaxDelay.                                       *)
THEOREM TakeoverIsDue == Spec => TakeoverWaits
<1>1. IInv /\ Next => TakenOver(MaxDelay)
  <2> SUFFICES ASSUME IInv, Next, lease # None, lease.held, lease' # lease,
                      lease'.version # lease.version
               PROVE  clock + MaxDelay >= writtenAt + lease.duration + Grace[lease'.id[1]]
    BY DEF TakenOver
  <2>1. PICK etag \in Leases \cup {None}, doc \in Leases : GoodWrite(etag, doc) /\ Store(etag, doc)
    BY WhoWrites DEF stored
  <2>2. lease = etag /\ lease' = doc BY <2>1 DEF Store, stored
  <2> QED BY <2>1, <2>2 DEF GoodWrite, Due, Extended
<1>2. UNCHANGED vars => TakenOver(MaxDelay) BY DEF vars, stored, TakenOver
<1>3. IInv /\ [Next]_vars => [TakenOver(MaxDelay)]_vars BY <1>1, <1>2
<1> QED BY <1>3, Induction, PTL DEF Spec, TakeoverWaits

-------------------------------------------------------------------------------
LEMMA ToldFacts ==
    ASSUME IInv, NEW c \in Callers, NEW doc \in Told(c)
    PROVE  doc \in Leases /\ Past(doc)
<1>1. CASE doc = Doc(c) /\ doc # None BY <1>1, DocFacts
<1>2. CASE pc[c] \in WriteSteps /\ Status(c) = "ok" /\ doc = want[c]
  BY <1>2, PendingWrite DEF IInv, CallOK, CallFacts
<1> QED BY <1>1, <1>2 DEF Told

\* A step of d's call tells nobody anything new.
LEMMA ToldByHandler ==
    ASSUME IInv, NEW d \in Callers, NEW s \in Steps, pc' = [pc EXCEPT ![d] = s],
           reply' = [reply EXCEPT ![d] = Pending],
           \A c \in Callers \ {d} : want'[c] = want[c],
           NEW c \in Callers
    PROVE  /\ Told(c)' \subseteq Told(c)
           /\ c # d => pc'[c] = pc[c] /\ want'[c] = want[c]
           /\ c = d => pc'[c] = s
BY DEF IInv, TypeOK, CallTypeOK, Told, Doc, Status, Pending

\* Whatever c is newly told of is the stored document.
LEMMA ToldNext ==
    ASSUME IInv, Next, NEW c \in Callers
    PROVE  Told(c)' \subseteq Told(c) \cup {lease'}
<1>1. ASSUME NEW d \in Callers,
             \/ Acquiring(d) \/ WriteFailed(d) \/ Renewing(d) \/ Releasing(d) \/ Asking(d)
      PROVE  Told(c)' \subseteq Told(c)
  <2>1. CASE Abandon(d) BY <2>1 DEF Abandon, call, Told, Doc, Status
  <2>2. CASE ~Abandon(d)
    <3>1. /\ reply' = [reply EXCEPT ![d] = Pending]
          /\ \E s \in Steps : pc' = [pc EXCEPT ![d] = s]
          /\ \A e \in Callers \ {d} : want'[e] = want[e]
      BY <1>1, <2>2 DEF Acquiring, WriteFailed, Renewing, Releasing, Asking, TryAcquire,
         AcquireWritten, AcquireRecovered, ReadExisting, FoundOwnLease, LockHeld, Claim,
         AcquireFailed, Granted, Renew, RenewValidated, Renewed, RenewFailed, Release,
         ReleaseValidated, Released, ReleaseFailed, IsHeld, IsHeldAnswered, Read, Write, Return,
         Steps, WriteSteps, ReadSteps, RecoverSteps, IInv, TypeOK, CallTypeOK
    <3> QED BY <3>1, ToldByHandler
  <2> QED BY <2>1, <2>2
<1>2. ASSUME NEW d \in Callers, Serving(d) PROVE Told(c)' \subseteq Told(c) \cup {lease'}
  <2>1. UNCHANGED <<pc, want>>
    BY <1>2 DEF Serving, ServeRead, ServeWrite, CallFails, ReplyLost, WriteDelayed
  <2>2. CASE ServeRead(d)
    BY <2>1, <2>2 DEF ServeRead, Answer, Reply, Told, Doc, Status, stored, IInv, TypeOK,
       CallTypeOK, WriteSteps, ReadSteps, RecoverSteps
  <2>3. CASE ServeWrite(d)
    BY <2>1, <2>3 DEF ServeWrite, Store, Answer, Reply, Told, Doc, Status, IInv, TypeOK, CallTypeOK
  <2>4. CASE CallFails(d) \/ ReplyLost(d) \/ WriteDelayed(d)
    <3>1. PICK r \in Replies :
               /\ r.doc = None /\ r.status # "ok"
               /\ (reply' = [reply EXCEPT ![d] = r] \/ UNCHANGED reply)
      BY <2>4, ErrorReply DEF CallFails, ReplyLost, WriteDelayed, FailOrRetry, Answer, Reply
    <3>2. reply'[c] = reply[c] \/ reply'[c] = r
      BY <3>1 DEF IInv, TypeOK, CallTypeOK
    <3> QED BY <2>1, <3>1, <3>2 DEF Told, Doc, Status
  <2> QED BY <1>2, <2>2, <2>3, <2>4 DEF Serving
<1>3. ASSUME NEW l \in Lockers, Crash(l) PROVE Told(c)' \subseteq Told(c)
  BY <1>3 DEF Crash, Told, Doc, Status, Pending
<1>4. ASSUME Tick \/ \E w \in late : LateWriteArrives(w) PROVE Told(c)' \subseteq Told(c)
  BY <1>4 DEF Tick, LateWriteArrives, call, Told, Doc, Status
<1> QED BY <1>1, <1>2, <1>3, <1>4 DEF Next

\* What c wants when its release has got as far as the write.
LEMMA ReleaseWants ==
    ASSUME IInv, Next, NEW c \in Callers, ReleaseFacts(c),
           pc'[c] \in {"releasePut", "releaseRecover"}
    PROVE  ~want'[c].held
<1>1. CASE pc'[c] = pc[c] /\ want'[c] = want[c] BY <1>1 DEF ReleaseFacts
<1>2. ASSUME NEW d \in Callers, Acquiring(d) \/ Renewing(d) \/ Asking(d)
      PROVE  pc'[c] = pc[c] /\ want'[c] = want[c]
  BY <1>2 DEF Acquiring, Renewing, Asking, TryAcquire, AcquireWritten, AcquireRecovered,
     ReadExisting, FoundOwnLease, LockHeld, Claim, AcquireFailed, Granted, Renew, RenewValidated,
     Renewed, RenewFailed, IsHeld, IsHeldAnswered, Read, Write, Return, IInv, TypeOK, CallTypeOK
<1>3. ASSUME NEW d \in Callers, WriteFailed(d) PROVE ~want'[c].held
  BY <1>1, <1>3 DEF WriteFailed, Answered, Read, ReleaseFacts, IInv, TypeOK, CallTypeOK
<1>4. ASSUME NEW d \in Callers, Releasing(d) PROVE ~want'[c].held
  <2>1. CASE ReleaseValidated(d)
    <3>1. CASE c # d
      BY <1>1, <2>1, <3>1 DEF ReleaseValidated, Write, IInv, TypeOK, CallTypeOK
    <3>2. CASE c = d
      <4>1. Doc(c) \in Leases
        BY <2>1, <3>2, DocFacts DEF ReleaseValidated, Current
      <4>2. want'[c] = [Doc(c) EXCEPT !.held = FALSE, !.revision = @ + 1, !.expiresAt = now[c]]
        BY <2>1, <3>2 DEF ReleaseValidated, Write, IInv, TypeOK, CallTypeOK
      <4> QED BY <4>1, <4>2 DEF Leases
    <3> QED BY <3>1, <3>2
  <2>2. CASE Release(d) \/ Released(d) \/ ReleaseFailed(d) \/ Abandon(d)
    BY <1>1, <2>2 DEF Release, Released, ReleaseFailed, Abandon, call, Read, Return, IInv, TypeOK,
       CallTypeOK
  <2> QED BY <1>4, <2>1, <2>2 DEF Releasing
<1>5. ASSUME NEW d \in Callers, Serving(d) PROVE pc'[c] = pc[c] /\ want'[c] = want[c]
  BY <1>5 DEF Serving, ServeRead, ServeWrite, CallFails, ReplyLost, WriteDelayed
<1>6. ASSUME NEW l \in Lockers, Crash(l) PROVE pc'[c] = pc[c] /\ want'[c] = want[c]
  BY <1>6 DEF Crash
<1>7. ASSUME Tick \/ \E w \in late : LateWriteArrives(w)
      PROVE  pc'[c] = pc[c] /\ want'[c] = want[c]
  BY <1>7 DEF Tick, LateWriteArrives, call
<1> QED BY <1>1, <1>2, <1>3, <1>4, <1>5, <1>6, <1>7 DEF Next

\* No write gives a token back that was known to be released.
LEMMA StaysReleased ==
    ASSUME IInv, Next, NEW doc \in Leases, Past(doc), ~doc.held,
           doc.version = lease.version => ~lease.held,
           doc.version = lease'.version
    PROVE  ~lease'.held
<1>1. CASE UNCHANGED stored BY <1>1 DEF stored
<1>2. CASE ~(UNCHANGED stored)
  <2>1. PICK etag \in Leases \cup {None}, new \in Leases : GoodWrite(etag, new) /\ Store(etag, new)
    BY <1>2, WhoWrites
  <2>2. lease = etag /\ lease' = new BY <1>2, <2>1 DEF Store
  <2>3. lease # None /\ doc.version <= lease.version BY DEF Past
  <2>4. lease.version \in Nat /\ doc.version \in Nat BY <2>3 DEF IInv, TypeOK, Leases
  <2> QED BY <2>1, <2>2, <2>3, <2>4 DEF GoodWrite, Extended, Acquired
<1> QED BY <1>1, <1>2

LEMMA NextReleases ==
    ASSUME IInv, Next, ReleaseInv
    PROVE  ReleaseInv'
<1> SUFFICES ASSUME NEW c \in Callers PROVE ReleaseFacts(c)' BY DEF ReleaseInv
<1>1. ReleaseFacts(c) BY DEF ReleaseInv
<1>2. ASSUME NEW doc \in Told(c)', ~doc.held, doc.version = lease'.version
      PROVE  ~lease'.held
  <2>1. CASE doc = lease' BY <1>2, <2>1
  <2>2. CASE doc \in Told(c)
    <3>1. doc \in Leases /\ Past(doc) BY <2>2, ToldFacts
    <3> QED BY <1>1, <1>2, <2>2, <3>1, StaysReleased DEF ReleaseFacts
  <2> QED BY <2>1, <2>2, ToldNext
<1> QED BY <1>1, <1>2, ReleaseWants DEF ReleaseFacts

(* The invariant of released leases holds in every state.                  *)
THEOREM Releases == Spec => []ReleaseInv
<1>1. Init => ReleaseInv
  <2> SUFFICES ASSUME Init, NEW c \in Callers PROVE ReleaseFacts(c) BY DEF ReleaseInv
  <2>1. pc[c] = "idle" /\ reply[c] = Pending BY DEF Init
  <2>2. Told(c) = {} BY <2>1 DEF Told, Doc, Pending, WriteSteps
  <2> QED BY <2>1, <2>2 DEF ReleaseFacts
<1>2. UNCHANGED vars /\ ReleaseInv => ReleaseInv'
  BY DEF vars, stored, call, ReleaseInv, ReleaseFacts, Told, Doc, Status
<1>3. IInv /\ ReleaseInv /\ [Next]_vars => ReleaseInv' BY <1>2, NextReleases
<1> QED BY <1>1, <1>3, Induction, PTL DEF Spec

(* When Release returns nil, what it released is not held any more: not     *)
(* under its token, however late the writes are that still arrive.         *)
THEOREM ReleasesHold == Spec => ReleaseTakesEffect
<1> DEFINE A == \A c \in Callers :
                    Released(c) => ~(lease.held /\ lease.version = handle[c].token)
<1>1. IInv /\ ReleaseInv => A
  <2> SUFFICES ASSUME IInv, ReleaseInv, NEW c \in Callers, Released(c),
                      lease.version = handle[c].token
               PROVE  ~lease.held
    OBVIOUS
  <2>1. pc[c] \in {"releasePut", "releaseRecover"} /\ want[c] \in Told(c)
    BY DEF Released, Answered, Recovered, Told, WriteSteps, UpdateSteps, IInv, CallOK, CallFacts
  <2>2. want[c].version = handle[c].token BY <2>1 DEF IInv, CallOK, CallFacts, UpdateSteps
  <2> QED BY <2>1, <2>2 DEF ReleaseInv, ReleaseFacts
<1>2. IInv /\ ReleaseInv /\ [Next]_vars => [A]_vars BY <1>1
<1> HIDE DEF A
<1>3. Spec => [][A]_vars BY <1>2, Induction, Releases, PTL DEF Spec
<1> QED BY <1>3 DEF A, ReleaseTakesEffect

-------------------------------------------------------------------------------
LEMMA InitPromised == Init => Promise!Init
BY DEF Init, Promise!Init, LeaseHeld, LeaseSpan, TokenHeld

\* Every write of the lease document is a grant, an extension or a release.
LEMMA WritePromised ==
    ASSUME IInv, Next, ~(UNCHANGED stored)
    PROVE  Promise!Next \/ UNCHANGED Promise!vars
<1>1. PICK etag \in Leases \cup {None}, doc \in Leases : GoodWrite(etag, doc) /\ Store(etag, doc)
  BY WhoWrites
<1>2. /\ lease = etag /\ lease' = doc /\ writtenAt' = clock
      /\ grantedTo' = IF etag = None \/ doc.version # etag.version
                      THEN Append(grantedTo, doc.id[1]) ELSE grantedTo
  BY <1>1 DEF Store
<1>3. UNCHANGED clock /\ UNCHANGED TokenHeld BY WhoWrites DEF TokenHeld
<1>4. doc # None /\ doc.duration \in Nat /\ doc.id[1] \in Callers
  BY DEF Leases, LeaseIDs
<1>5. LeaseSpan' \in Nat /\ (LeaseHeld' <=> doc.held)
  BY <1>2, <1>4 DEF LeaseSpan, LeaseHeld
<1>6. CASE etag = None
  <2>1. ~LeaseHeld /\ doc.held BY <1>1, <1>2, <1>6 DEF LeaseHeld, GoodWrite
  <2>2. Promise!Grant(doc.id[1])
    BY <1>2, <1>3, <1>5, <1>6, <2>1 DEF Promise!Grant, Promise!Takeable
  <2> QED BY <1>4, <2>2 DEF Promise!Next
<1>7. CASE etag # None /\ Acquired(etag, doc)
  <2>1. etag.version \in Nat BY <1>7 DEF Leases
  <2>2. doc.version # etag.version /\ doc.held BY <1>7, <2>1 DEF Acquired
  <2>3. Promise!Takeable(doc.id[1])
    BY <1>1, <1>2, <1>7, <2>1, <2>2 DEF Promise!Takeable, LeaseHeld, LeaseSpan, GoodWrite, Due, Extended
  <2>4. Promise!Grant(doc.id[1])
    BY <1>2, <1>3, <1>5, <2>2, <2>3 DEF Promise!Grant
  <2> QED BY <1>4, <2>4 DEF Promise!Next
<1>8. CASE etag # None /\ Extended(etag, doc)
  <2>1. LeaseHeld /\ grantedTo' = grantedTo BY <1>2, <1>8 DEF LeaseHeld, Extended
  <2>2. CASE doc.held
    BY <1>2, <1>3, <1>5, <2>1, <2>2 DEF Promise!Extend, Promise!Next, LeaseHeld
  <2>3. CASE ~doc.held
    BY <1>2, <1>3, <1>5, <2>1, <2>3 DEF Promise!Free, Promise!Next, LeaseHeld
  <2> QED BY <2>2, <2>3
<1> QED BY <1>1, <1>6, <1>7, <1>8 DEF GoodWrite

\* What a step that does not write can do to the handles.
LEMMA HandlePromised ==
    ASSUME IInv, IInv', UNCHANGED <<clock, stored>>,
           \/ UNCHANGED handle
           \/ \E c \in Callers, doc \in Leases : handle' = [handle EXCEPT ![c] = HandleOf(doc)]
           \/ \E c \in Callers : Renewed(c)
           \/ \E gone \in SUBSET Callers :
                  handle' = [c \in Callers |-> IF c \in gone THEN None ELSE handle[c]]
    PROVE  Promise!Next \/ UNCHANGED Promise!vars
<1>1. UNCHANGED <<clock, grantedTo, LeaseHeld, writtenAt, LeaseSpan>>
  BY DEF stored, LeaseHeld, LeaseSpan
<1>2. CASE UNCHANGED handle BY <1>1, <1>2 DEF Promise!vars, TokenHeld
<1>3. ASSUME NEW c \in Callers, NEW doc \in Leases, handle' = [handle EXCEPT ![c] = HandleOf(doc)]
      PROVE  Promise!Next \/ UNCHANGED Promise!vars
  <2>1. HandleOf(doc) \in Handles BY DEF HandleOf, Handles, Leases, Owners
  <2>2. handle'[c] = HandleOf(doc) /\ HandleOf(doc) # None BY <1>3, <2>1 DEF IInv, TypeOK
  <2>3. TokenHeld' = [TokenHeld EXCEPT ![c] = doc.version]
    BY <1>3, <2>2 DEF TokenHeld, IInv, TypeOK, HandleOf
  <2>4. doc.version \in DOMAIN grantedTo /\ grantedTo[doc.version] = c
    <3>1. Past(doc)' /\ doc.id[1] = c
      BY <2>2 DEF IInv, HandleOK, HandleFacts, HandleOf
    <3>2. lease # None /\ doc.version <= lease.version /\ grantedTo[doc.version] = doc.id[1]
      BY <3>1 DEF Past, stored
    <3>3. lease \in Leases BY <3>2 DEF IInv, TypeOK
    <3>4. Len(grantedTo) = lease.version /\ grantedTo \in Seq(Callers)
      BY <3>2 DEF IInv, TypeOK, StoredOK
    <3>5. doc.version \in Nat \ {0} /\ lease.version \in Nat BY <3>3 DEF Leases
    <3>6. doc.version \in 1..lease.version BY <3>2, <3>5
    <3>7. DOMAIN grantedTo = 1..Len(grantedTo) BY <3>4
    <3> QED BY <3>1, <3>2, <3>4, <3>6, <3>7
  <2>5. Promise!Learn(c) BY <1>1, <2>3, <2>4 DEF Promise!Learn
  <2> QED BY <2>5 DEF Promise!Next
<1>4. ASSUME NEW c \in Callers, Renewed(c)
      PROVE  Promise!Next \/ UNCHANGED Promise!vars
  <2>1. handle[c] \in Handles /\ want[c] \in Leases
    BY <1>4, UpdateFacts DEF Renewed, Answered
  <2>2. handle' = [handle EXCEPT ![c].etag = want[c], ![c].expiresAt = want[c].expiresAt]
    BY <1>4 DEF Renewed
  <2>3. handle'[c].token = handle[c].token BY <2>1, <2>2 DEF IInv, TypeOK, Handles
  <2>4. handle[c] # None /\ handle'[c] # None
    <3>1. handle'[c] \in Handles BY <2>1, <2>2 DEF IInv, TypeOK, Handles, Leases
    <3> QED BY <2>1, <3>1
  <2>5. UNCHANGED TokenHeld BY <2>2, <2>3, <2>4 DEF TokenHeld, IInv, TypeOK
  <2> QED BY <1>1, <2>5 DEF Promise!vars
<1>5. ASSUME NEW gone \in SUBSET Callers,
             handle' = [c \in Callers |-> IF c \in gone THEN None ELSE handle[c]]
      PROVE  Promise!Next \/ UNCHANGED Promise!vars
  <2>1. TokenHeld' = [c \in Callers |-> IF c \in gone THEN 0 ELSE TokenHeld[c]]
    BY <1>5 DEF TokenHeld
  <2>2. Promise!Forget(gone) BY <1>1, <2>1 DEF Promise!Forget
  <2> QED BY <2>2 DEF Promise!Next
<1> QED BY <1>2, <1>3, <1>4, <1>5

LEMMA NextPromised ==
    ASSUME IInv, IInv', Next
    PROVE  Promise!Next \/ UNCHANGED Promise!vars
<1> DEFINE Goal == Promise!Next \/ UNCHANGED Promise!vars
<1>1. CASE ~(UNCHANGED stored) BY <1>1, WritePromised
<1>2. CASE Tick
  <2>1. Promise!Tick
    BY <1>2 DEF Tick, Promise!Tick, stored, holding, LeaseHeld, LeaseSpan, TokenHeld
  <2> QED BY <2>1 DEF Promise!Next
<1>3. ASSUME NEW c \in Callers, Acquiring(c), UNCHANGED stored PROVE Goal
  <2>1. CASE AcquireWritten(c)
    <3>1. want[c] \in Leases
      BY <2>1 DEF IInv, TypeOK, CallTypeOK, CallOK, CallFacts, AcquireWritten, Answered, AcquireSteps
    <3> QED BY <2>1, <3>1, HandlePromised DEF AcquireWritten, Granted
  <2>2. CASE AcquireRecovered(c)
    <3>1. want[c] \in Leases
      BY <2>2 DEF IInv, TypeOK, CallTypeOK, CallOK, CallFacts, AcquireRecovered, Answered, AcquireSteps
    <3> QED BY <2>2, <3>1, HandlePromised DEF AcquireRecovered, Granted
  <2>3. CASE FoundOwnLease(c)
    BY <2>3, DocFacts, HandlePromised DEF FoundOwnLease, Granted
  <2>4. CASE TryAcquire(c) \/ ReadExisting(c) \/ LockHeld(c) \/ Claim(c) \/ AcquireFailed(c)
    BY <2>4, HandlePromised DEF TryAcquire, ReadExisting, LockHeld, Claim, AcquireFailed, holding
  <2> QED BY <1>3, <2>1, <2>2, <2>3, <2>4 DEF Acquiring
<1>4. ASSUME NEW c \in Callers, WriteFailed(c) \/ Asking(c), UNCHANGED stored PROVE Goal
  BY <1>4, HandlePromised DEF WriteFailed, Asking, IsHeld, IsHeldAnswered, holding
<1>5. ASSUME NEW c \in Callers, Renewing(c), UNCHANGED stored PROVE Goal
  BY <1>5, HandlePromised DEF Renewing, Renew, RenewValidated, RenewFailed, Renewed, holding
<1>6. ASSUME NEW c \in Callers, Releasing(c), UNCHANGED stored PROVE Goal
  <2>1. CASE Released(c) \/ Abandon(c)
    <3>1. handle' = [d \in Callers |-> IF d \in {c} THEN None ELSE handle[d]] /\ UNCHANGED clock
      BY <2>1 DEF Released, Abandon, IInv, TypeOK
    <3> QED BY <1>6, <3>1, HandlePromised
  <2>2. CASE Release(c) \/ ReleaseValidated(c) \/ ReleaseFailed(c)
    BY <2>2, HandlePromised DEF Release, ReleaseValidated, ReleaseFailed, holding
  <2> QED BY <1>6, <2>1, <2>2 DEF Releasing
<1>7. ASSUME NEW c \in Callers, Serving(c), UNCHANGED stored PROVE Goal
  BY <1>7, HandlePromised DEF Serving, ServeRead, ServeWrite, CallFails, ReplyLost, WriteDelayed, holding
<1>8. ASSUME NEW w \in late, LateWriteArrives(w), UNCHANGED stored PROVE Goal
  BY <1>8, HandlePromised DEF LateWriteArrives, holding
<1>9. ASSUME NEW l \in Lockers, Crash(l), UNCHANGED stored PROVE Goal
  <2>1. UNCHANGED clock BY <1>9 DEF Crash
  <2>2. \E gone \in SUBSET Callers :
            handle' = [c \in Callers |-> IF c \in gone THEN None ELSE handle[c]]
    BY <1>9 DEF Crash
  <2> QED BY <1>9, <2>1, <2>2, HandlePromised
<1> QED BY <1>1, <1>2, <1>3, <1>4, <1>5, <1>6, <1>7, <1>8, <1>9 DEF Next

(* The lock, with its storage, faults, crashes and concurrent calls,       *)
(* implements FencedLock: tokens are granted in order, each to one caller, *)
(* and only while the lock is free or its lease is overdue.                *)
THEOREM Implementation == Spec => KeepsPromise
<1>1. Init => Promise!Init BY InitPromised
<1>2. IInv /\ IInv' /\ [Next]_vars => [Promise!Next]_Promise!vars
  <2>1. IInv /\ IInv' /\ Next => [Promise!Next]_Promise!vars BY NextPromised
  <2>2. UNCHANGED vars => UNCHANGED Promise!vars
    BY DEF vars, stored, holding, Promise!vars, LeaseHeld, LeaseSpan, TokenHeld
  <2> QED BY <2>1, <2>2
<1>3. Spec => Promise!Spec BY <1>1, <1>2, Induction, PTL DEF Spec, Promise!Spec
<1> QED BY <1>3 DEF KeepsPromise
===============================================================================
