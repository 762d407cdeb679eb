--------------------------- MODULE LockerExclusion ---------------------------
(***************************************************************************)
(* MutualExclusion of Locker, for every number of callers and processes,   *)
(* when no call takes longer than the grace it allows (Patience).          *)
(***************************************************************************)
EXTENDS LockerProofs

USE CallerAssumption, BoundAssumption, NoneAssumption

Patience == \A c \in Callers : MaxDelay <= Grace[c]

LEMMA ReliedFacts ==
    ASSUME IInv, NEW c \in Callers, NEW id \in ReliedOn(c)
    PROVE  id[1] = c
BY DEF IInv, HandleOK, HandleFacts, CallOK, CallFacts, ReliedOn

LEMMA KnownFacts ==
    ASSUME IInv, NEW c \in Callers, NEW doc \in Known(c)
    PROVE  doc \in Leases /\ doc.id \in UsedIDs /\ Past(doc)
<1>1. doc \in Documents BY DEF Known, Told, Documents, Doc
<1>2. ASSUME handle[c] # None /\ doc = handle[c].etag PROVE doc \in Leases /\ Past(doc)
  BY <1>2 DEF IInv, TypeOK, Handles, HandleOK, HandleFacts
<1>3. ASSUME pc[c] \in WriteSteps /\ Status(c) = "ok" /\ doc = want[c]
      PROVE  doc \in Leases /\ Past(doc)
  BY <1>3, PendingWrite DEF IInv, CallOK, CallFacts
<1>4. ASSUME doc = Doc(c) /\ doc # None PROVE doc \in Leases /\ Past(doc)
  BY <1>4, DocFacts
<1>5. doc \in Leases /\ Past(doc) BY <1>2, <1>3, <1>4 DEF Known, Told
<1>6. doc # None BY <1>5
<1> QED BY <1>1, <1>5, <1>6 DEF UsedIDs

LEMMA LeaseFacts ==
    ASSUME IInv, lease # None
    PROVE  /\ lease \in Leases /\ lease.id[1] \in Callers /\ writtenAt \in Nat /\ clock \in Nat
           /\ writtenAt <= clock
BY DEF IInv, TypeOK, StoredOK, Times, Leases, LeaseIDs

\* Sound documents stay sound as time passes, if no caller comes to rely on
\* an old LeaseID.
LEMMA SoundStays ==
    ASSUME NEW doc \in Leases, NEW t \in Nat, NEW u \in Nat, t <= u, Sound(doc, t),
           \A d \in Callers : doc.id \in ReliedOn(d)' => doc.id \in ReliedOn(d)
    PROVE  IF doc.held THEN Fits(doc, u) ELSE \A d \in Callers : doc.id \notin ReliedOn(d)'
<1>1. doc # None /\ doc.id[1] \in Callers /\ doc.expiresAt \in Nat BY DEF Leases, LeaseIDs, Times
<1>2. CASE doc.held
  <2>1. Fits(doc, t) BY <1>1, <1>2 DEF Sound
  <2>2. TTL[doc.id[1]] \in Nat /\ Offset[LockerOf[doc.id[1]]] \in Nat BY <1>1
  <2> QED BY <1>1, <1>2, <2>1, <2>2 DEF Fits
<1>3. CASE ~doc.held BY <1>1, <1>3 DEF Sound
<1> QED BY <1>2, <1>3

\* A step that does not write preserves the invariant if no caller comes to
\* rely on an old LeaseID or to know of another document than the lease.
LEMMA QuietStep ==
    ASSUME IInv, IInv', ExclusionInv, UNCHANGED <<lease, writtenAt>>, clock <= clock',
           WorkOK',
           \A c \in Callers : \A id \in ReliedOn(c)' : id \in ReliedOn(c) \/ id \notin UsedIDs,
           \A c \in Callers : Known(c)' \subseteq Known(c) \cup {lease},
           \A c \in Callers : \/ want'[c] = want[c] \/ want'[c] = None
                              \/ IF want'[c].held THEN Fits(want'[c], clock)
                                 ELSE \A d \in Callers : want'[c].id \notin ReliedOn(d)',
           \A w \in late' : w \in late \/ \E c \in Callers : w.doc = want[c]
    PROVE  ExclusionInv'
<1>1. clock \in Nat /\ clock' \in Nat /\ writtenAt \in Nat BY DEF IInv, TypeOK, Times
<1>2. ASSUME NEW doc \in Leases, doc.id \in UsedIDs, NEW t \in Nat, NEW u \in Nat, t <= u, Sound(doc, t)
      PROVE  IF doc.held THEN Fits(doc, u) ELSE \A d \in Callers : doc.id \notin ReliedOn(d)'
  BY <1>2, SoundStays
<1>3. Sound(lease, writtenAt)'
  <2>1. lease # None => lease \in Leases /\ lease.id \in UsedIDs
    BY DEF IInv, TypeOK, UsedIDs, Documents
  <2>2. Sound(lease, writtenAt) BY DEF ExclusionInv, SoundOK
  <2> QED BY <1>1, <1>2, <2>1, <2>2 DEF Sound
<1>4. ASSUME NEW doc \in Leases, \E c \in Callers : doc = want[c]
      PROVE  IF doc.held THEN Fits(doc, clock') ELSE \A d \in Callers : doc.id \notin ReliedOn(d)'
  <2>1. doc.id \in UsedIDs
    <3>1. doc \in Documents \ {None} BY <1>4 DEF Documents
    <3> QED BY <3>1 DEF UsedIDs
  <2>2. Sound(doc, clock) BY <1>4 DEF ExclusionInv, SoundOK
  <2> QED BY <1>1, <1>2, <2>1, <2>2
<1>5. ASSUME NEW w \in late' PROVE Sound(w.doc, clock)'
  <2>1. CASE w \in late
    <3>1. w.doc \in Leases BY <2>1 DEF IInv, TypeOK, Writes
    <3>2. w.doc \in Documents \ {None} BY <2>1, <3>1 DEF Documents
    <3>3. w.doc.id \in UsedIDs /\ Sound(w.doc, clock)
      BY <2>1, <3>2 DEF UsedIDs, ExclusionInv, SoundOK
    <3> QED BY <1>1, <1>2, <3>1, <3>3 DEF Sound
  <2>2. CASE \E c \in Callers : w.doc = want[c]
    <3>1. w.doc \in Leases BY DEF IInv, TypeOK, Writes
    <3> QED BY <1>4, <2>2, <3>1 DEF Sound
  <2> QED BY <2>1, <2>2
<1>6. ASSUME NEW c \in Callers PROVE Sound(want[c], clock)'
  <2> SUFFICES ASSUME want'[c] # None
               PROVE  IF want'[c].held THEN Fits(want'[c], clock')
                      ELSE \A d \in Callers : want'[c].id \notin ReliedOn(d)'
    BY DEF Sound
  <2>1. want'[c] \in Leases BY DEF IInv, TypeOK, CallTypeOK
  <2>2. CASE want'[c] = want[c] BY <1>4, <2>1, <2>2
  <2>3. CASE want'[c].held /\ Fits(want'[c], clock)
    <3>1. want'[c].id[1] \in Callers /\ want'[c].expiresAt \in Nat
      BY <2>1 DEF Leases, LeaseIDs, Times
    <3> QED BY <1>1, <2>3, <3>1 DEF Fits
  <2> QED BY <2>1, <2>2, <2>3
<1>7. SoundOK' BY <1>3, <1>5, <1>6 DEF SoundOK
<1>8. ASSUME NEW c \in Callers, NEW doc \in Known(c)' PROVE Timely(c, doc)'
  <2>1. CASE doc \in Known(c)
    <3>1. doc \in Leases /\ doc.id \in UsedIDs BY <2>1, KnownFacts
    <3>2. doc.id \in ReliedOn(c)' => doc.id \in ReliedOn(c) BY <3>1
    <3>3. Timely(c, doc) BY <2>1 DEF ExclusionInv, TimelyOK
    <3>4. LocalTime(c) <= LocalTime(c)' /\ LocalTime(c) \in Nat /\ LocalTime(c)' \in Nat
      BY <1>1 DEF LocalTime
    <3> QED BY <3>1, <3>2, <3>3, <3>4 DEF Timely, Leases, Times
  <2>2. CASE doc = lease /\ doc # None
    <3> SUFFICES ASSUME lease.id \in ReliedOn(c)'
                 PROVE  lease.expiresAt <= writtenAt + Offset[LockerOf[c]] + TTL[c]
      BY <2>2 DEF Timely
    <3>1. lease.id \in UsedIDs
      <4>1. lease \in Documents \ {None} BY <2>2 DEF Documents
      <4> QED BY <4>1 DEF UsedIDs
    <3>2. lease.id[1] = c BY <3>1, ReliedFacts
    <3>3. lease.held BY <1>3, <2>2 DEF Sound
    <3> QED BY <1>3, <2>2, <3>2, <3>3 DEF Sound, Fits
  <2>3. doc # None
    BY DEF IInv, TypeOK, CallOK, CallFacts, Known, Told, Handles, WriteSteps, AcquireSteps, UpdateSteps
  <2> QED BY <2>1, <2>2, <2>3
<1> QED BY <1>7, <1>8 DEF ExclusionInv, TimelyOK

\* A write that takes effect keeps what is known timely: if it takes the lease
\* over, it was released, and nobody relies on it, or it has expired.
LEMMA StoredStep ==
    ASSUME Patience, IInv, IInv', ExclusionInv, NEW etag \in Leases \cup {None}, NEW doc \in Leases,
           GoodWrite(etag, doc), Store(etag, doc), lease = etag, Sound(doc, clock), UNCHANGED clock,
           WorkOK', \A c \in Callers : ReliedOn(c)' = ReliedOn(c),
           \A c \in Callers : Known(c)' \subseteq Known(c) \cup {doc},
           UNCHANGED want,
           \A w \in late' : w \in late \/ \E c \in Callers : w.doc = want[c]
    PROVE  ExclusionInv'
<1>1. lease' = doc /\ writtenAt' = clock /\ clock \in Nat /\ doc # None /\ writtenAt \in Nat
      /\ writtenAt <= clock
  BY DEF Store, IInv, TypeOK, StoredOK, Times
<1>2. SoundOK'
  <2>1. Sound(lease, writtenAt)' BY <1>1 DEF Sound
  <2>2. ASSUME NEW w \in late' PROVE Sound(w.doc, clock)'
    <3>1. Sound(w.doc, clock) BY <2>2 DEF ExclusionInv, SoundOK
    <3> QED BY <3>1 DEF Sound
  <2>3. ASSUME NEW c \in Callers PROVE Sound(want[c], clock)'
    <3>1. Sound(want[c], clock) BY DEF ExclusionInv, SoundOK
    <3> QED BY <3>1 DEF Sound
  <2> QED BY <2>1, <2>2, <2>3 DEF SoundOK
<1>3. ASSUME NEW c \in Callers, NEW k \in Known(c) PROVE Timely(c, k)'
  <2>1. k \in Leases /\ Past(k) BY KnownFacts
  <2>2. lease \in Leases /\ lease # None /\ k.version <= lease.version
    BY <2>1 DEF Past, IInv, TypeOK
  <2>3. k.version \in Nat /\ lease.version \in Nat /\ doc.version \in Nat /\ k.expiresAt \in Nat
    BY <2>1, <2>2 DEF Leases, Times
  <2>4. Timely(c, k) BY DEF ExclusionInv, TimelyOK
  <2>5. Extended(lease, doc) \/ (Acquired(lease, doc) /\ Due(lease, doc))
    BY <2>2 DEF GoodWrite
  <2>6. Offset[LockerOf[c]] \in Nat /\ TTL[c] \in Nat OBVIOUS
  <2>7. LocalTime(c)' = clock + Offset[LockerOf[c]] /\ LocalTime(c) = clock + Offset[LockerOf[c]]
    BY DEF LocalTime
  <2>8. CASE doc.version = lease.version
    <3>1. doc.id = lease.id BY <2>3, <2>5, <2>8 DEF Extended, Acquired
    <3> QED BY <1>1, <2>3, <2>4, <2>6, <2>7, <2>8, <3>1 DEF Timely
  <2>9. CASE doc.version = lease.version + 1
    <3>1. k.version # doc.version BY <2>2, <2>3, <2>9
    <3> SUFFICES ASSUME k.id \in ReliedOn(c) PROVE k.expiresAt <= LocalTime(c)
      BY <1>1, <2>7, <3>1 DEF Timely
    <3>2. CASE k.version # lease.version BY <2>4, <3>2 DEF Timely
    <3>3. CASE k.version = lease.version
      <4>1. k.id = lease.id /\ k.expiresAt <= writtenAt + Offset[LockerOf[c]] + TTL[c]
        BY <2>4, <3>3 DEF Timely
      <4>2. lease.id[1] = c BY <4>1, ReliedFacts
      <4>3. Sound(lease, writtenAt) BY DEF ExclusionInv, SoundOK
      <4>4. lease.held /\ lease.duration = TTL[c]
        BY <2>2, <4>1, <4>2, <4>3 DEF Sound, Fits
      <4>5. doc.id[1] \in Callers BY DEF Leases, LeaseIDs
      <4>6. clock + MaxDelay >= writtenAt + TTL[c] + Grace[doc.id[1]]
        <5>1. Due(lease, doc) BY <2>3, <2>5, <2>9 DEF Extended
        <5> QED BY <4>4, <5>1 DEF Due
      <4>7. MaxDelay <= Grace[doc.id[1]] /\ Grace[doc.id[1]] \in Nat /\ MaxDelay \in Nat
        BY <4>5 DEF Patience
      <4>8. clock >= writtenAt + TTL[c] BY <1>1, <2>6, <4>6, <4>7
      <4> QED BY <1>1, <2>3, <2>6, <2>7, <4>1, <4>8
    <3> QED BY <3>2, <3>3
  <2> QED BY <2>5, <2>8, <2>9 DEF Extended, Acquired
<1>4. ASSUME NEW c \in Callers PROVE Timely(c, doc)'
  <2> SUFFICES ASSUME doc.id \in ReliedOn(c)
               PROVE  doc.expiresAt <= clock + Offset[LockerOf[c]] + TTL[c]
    BY <1>1 DEF Timely
  <2>1. doc.id[1] = c BY ReliedFacts
  <2> QED BY <1>1, <2>1 DEF Sound, Fits
<1> QED BY <1>2, <1>3, <1>4 DEF ExclusionInv, TimelyOK

-------------------------------------------------------------------------------
\* A caller's step that leaves the backend alone.
LEMMA HandlerQuiet ==
    ASSUME IInv, IInv', ExclusionInv, NEW c \in Callers, UNCHANGED <<Backend>>, Alone(c),
           \A d \in Callers \ {c} : d \in working' <=> d \in working,
           WorkFacts(c)',
           \A id \in ReliedOn(c)' : id \in ReliedOn(c) \/ id \notin UsedIDs,
           Known(c)' \subseteq Known(c),
           \/ want'[c] = want[c] \/ want'[c] = None
           \/ IF want'[c].held THEN Fits(want'[c], clock)
              ELSE \A d \in Callers : want'[c].id \notin ReliedOn(d)'
    PROVE  ExclusionInv'
<1>1. ASSUME NEW d \in Callers \ {c}
      PROVE  /\ ReliedOn(d)' = ReliedOn(d) /\ Known(d)' = Known(d) /\ WorkFacts(d)'
             /\ want'[d] = want[d]
  BY DEF Alone, ReliedOn, Known, Told, Doc, Status, ExclusionInv, WorkOK, WorkFacts
<1>2. /\ UNCHANGED <<lease, writtenAt, late>> /\ clock <= clock'
  BY DEF Backend, IInv, TypeOK, Times
<1> QED BY <1>1, <1>2, QuietStep DEF WorkOK

\* A step of c that goes on to, or starts with, a read.
LEMMA ReadQuiet ==
    ASSUME IInv, IInv', ExclusionInv, NEW c \in Callers, NEW s \in ReadSteps, Read(c, s),
           UNCHANGED <<Backend, handle>>,
           now' = now \/ now' = [now EXCEPT ![c] = LocalTime(c)],
           working' = working \/ (working' = working \ {c}),
           s \in AcquireSteps => pc[c] \in AcquireSteps,
           s \in UpdateSteps => pc[c] \in UpdateSteps,
           s \in {"releaseGet", "releaseRecover"} =>
               c \notin working' \/ pc[c] \in {"releaseGet", "releasePut"}
    PROVE  ExclusionInv'
<1>1. /\ pc' \in [Callers -> Steps] /\ pc'[c] = s /\ UNCHANGED <<match, want>>
      /\ reply' \in [Callers -> Replies] /\ ~(Doc(c)' # None)
      /\ \A d \in Callers \ {c} : pc'[d] = pc[d] /\ reply'[d] = reply[d]
  BY ReadFacts DEF IInv
<1>2. Alone(c) BY <1>1 DEF Alone, IInv, TypeOK, CallTypeOK
<1>3. WorkFacts(c)' BY <1>1 DEF ExclusionInv, WorkOK, WorkFacts, ReadSteps, RecoverSteps
<1>4. ReliedOn(c)' \subseteq ReliedOn(c) BY <1>1 DEF ReliedOn
<1>5. Known(c)' \subseteq Known(c)
  BY <1>1 DEF Known, Told, ReadSteps, RecoverSteps, WriteSteps
<1> QED BY <1>1, <1>2, <1>3, <1>4, <1>5, HandlerQuiet

\* A step of c that goes on to a conditional write.
LEMMA WriteQuiet ==
    ASSUME IInv, IInv', ExclusionInv, NEW c \in Callers, NEW s \in WriteSteps,
           NEW etag \in Leases \cup {None}, NEW doc \in Leases, Write(c, s, etag, doc),
           UNCHANGED <<Backend, handle, working>>,
           now' = now \/ now' = [now EXCEPT ![c] = LocalTime(c)],
           s \in AcquireSteps => handle[c] = None /\ doc.id \notin UsedIDs,
           s \in UpdateSteps => handle[c] # None /\ doc.id = handle[c].etag.id,
           s = "releasePut" => c \notin working,
           doc.id[1] = c,
           ~doc.held => s = "releasePut",
           doc.held => Fits(doc, clock)
    PROVE  ExclusionInv'
<1>1. /\ pc'[c] = s /\ want'[c] = doc /\ ~(Doc(c)' # None) /\ ~(Status(c)' = "ok")
      /\ \A d \in Callers \ {c} : /\ pc'[d] = pc[d] /\ reply'[d] = reply[d]
                                  /\ match'[d] = match[d] /\ want'[d] = want[d]
  BY WriteFacts DEF IInv
<1>2. Alone(c) BY <1>1 DEF Alone, IInv, TypeOK, CallTypeOK
<1>3. WorkFacts(c)'
  BY <1>1 DEF ExclusionInv, WorkOK, WorkFacts, AcquireSteps, UpdateSteps, WriteSteps
<1>4. \A id \in ReliedOn(c)' : id \in ReliedOn(c) \/ id \notin UsedIDs
  BY <1>1 DEF ReliedOn
<1>5. Known(c)' \subseteq Known(c)
  BY <1>1 DEF Known, Told
<1>6. IF want'[c].held THEN Fits(want'[c], clock)
      ELSE \A d \in Callers : want'[c].id \notin ReliedOn(d)'
  <2>1. CASE doc.held BY <1>1, <2>1
  <2>2. CASE ~doc.held
    <3>1. doc.id \notin ReliedOn(c)'
      BY <1>1, <2>2 DEF ReliedOn, AcquireSteps, ExclusionInv, WorkOK, WorkFacts
    <3>2. ASSUME NEW d \in Callers \ {c} PROVE doc.id \notin ReliedOn(d)'
      <4>1. ReliedOn(d)' = ReliedOn(d) BY <1>1 DEF ReliedOn
      <4> QED BY <4>1, ReliedFacts
    <3> QED BY <1>1, <2>2, <3>1, <3>2
  <2> QED BY <2>1, <2>2
<1> QED BY <1>2, <1>3, <1>4, <1>5, <1>6, HandlerQuiet
\* A call that returns with the handle as before, or with none.
LEMMA ReturnQuiet ==
    ASSUME IInv, IInv', ExclusionInv, NEW c \in Callers, Return(c), UNCHANGED <<Backend, working>>,
           UNCHANGED handle \/ (handle' = [handle EXCEPT ![c] = None] /\ c \notin working)
    PROVE  ExclusionInv'
<1>1. pc'[c] = "idle" /\ want'[c] = None /\ Doc(c)' = None /\ Alone(c)
  BY DEF Return, Alone, IInv, TypeOK, CallTypeOK, Doc, Pending
<1>2. WorkFacts(c)'
  BY <1>1 DEF ExclusionInv, WorkOK, WorkFacts, AcquireSteps, UpdateSteps, IInv, TypeOK
<1>3. ReliedOn(c)' \subseteq ReliedOn(c) /\ Known(c)' \subseteq Known(c)
  BY <1>1 DEF ReliedOn, Known, Told, AcquireSteps, WriteSteps, IInv, TypeOK
<1> QED BY <1>1, <1>2, <1>3, HandlerQuiet

LEMMA GrantedQuiet ==
    ASSUME IInv, IInv', ExclusionInv, NEW c \in Callers, UNCHANGED <<Backend>>,
           NEW doc \in Known(c), Granted(c, doc), doc.id = want[c].id, pc[c] \in AcquireSteps
    PROVE  ExclusionInv'
<1>1. doc \in Leases BY KnownFacts
<1>2. pc'[c] = "idle" /\ want'[c] = None /\ Doc(c)' = None /\ Alone(c)
  BY DEF Granted, Return, Alone, IInv, TypeOK, CallTypeOK, Doc, Pending
<1>3. handle'[c] = HandleOf(doc) /\ HandleOf(doc) \in Handles
  BY <1>1 DEF Granted, IInv, TypeOK, HandleOf, Handles, Leases, Owners, Times
<1>4. WorkFacts(c)'
  BY <1>2, <1>3 DEF WorkFacts, HandleOf, AcquireSteps, UpdateSteps
<1>5. ReliedOn(c)' \subseteq {want[c].id} /\ want[c].id \in ReliedOn(c) /\ Known(c)' \subseteq {doc}
  BY <1>2, <1>3 DEF ReliedOn, Known, Told, HandleOf, AcquireSteps, WriteSteps
<1>6. \A d \in Callers \ {c} : d \in working' <=> d \in working BY DEF Granted
<1> QED BY <1>2, <1>4, <1>5, <1>6, HandlerQuiet

\* The ways TryAcquire succeeds.
LEMMA SuccessQuiet ==
    ASSUME IInv, IInv', ExclusionInv, NEW c \in Callers,
           AcquireWritten(c) \/ AcquireRecovered(c) \/ FoundOwnLease(c)
    PROVE  ExclusionInv'
<1>1. UNCHANGED <<Backend>> /\ pc[c] \in AcquireSteps /\ want[c] # None
  BY DEF AcquireWritten, AcquireRecovered, FoundOwnLease, Answered, Backend, stored, AcquireSteps,
     IInv, CallOK, CallFacts
<1>2. CASE AcquireWritten(c)
  <2>1. want[c] \in Known(c) BY <1>2 DEF AcquireWritten, Answered, Known, Told, WriteSteps
  <2> QED BY <1>1, <1>2, <2>1, GrantedQuiet DEF AcquireWritten
<1>3. CASE AcquireRecovered(c)
  <2>1. want[c] \in Known(c) BY <1>1, <1>3 DEF AcquireRecovered, Recovered, Known, Told
  <2> QED BY <1>1, <1>3, <2>1, GrantedQuiet DEF AcquireRecovered
<1>4. CASE FoundOwnLease(c)
  <2>1. Doc(c) \in Known(c) /\ Doc(c).id = want[c].id BY <1>4 DEF FoundOwnLease, Known, Told
  <2> QED BY <1>1, <1>4, <2>1, GrantedQuiet DEF FoundOwnLease
<1> QED BY <1>2, <1>3, <1>4

\* A lease made with a sample of the clock of at most now fits.
LEMMA NewLeaseFits ==
    ASSUME IInv, NEW c \in Callers, NEW doc \in Leases, NEW time \in Nat, time <= LocalTime(c),
           doc.duration = TTL[c], doc.expiresAt = time + TTL[c], doc.id[1] = c
    PROVE  Fits(doc, clock)
<1>1. clock \in Nat /\ Offset[LockerOf[c]] \in Nat /\ TTL[c] \in Nat BY DEF IInv, TypeOK, Times
<1> QED BY <1>1 DEF Fits, LocalTime

LEMMA TryAcquireQuiet ==
    ASSUME IInv, IInv', ExclusionInv, NEW c \in Callers, TryAcquire(c)
    PROVE  ExclusionInv'
<1> DEFINE doc == NewLease(c, 1, 1, LocalTime(c))
<1>1. LocalTime(c) \in Nat BY DEF IInv, TypeOK, LocalTime, Times
<1>2. doc \in Leases /\ doc.id \notin UsedIDs /\ doc.id[1] = c /\ doc.held
  BY <1>1, NewLeaseFacts DEF TryAcquire, Times
<1>3. doc.duration = TTL[c] /\ doc.expiresAt = LocalTime(c) + TTL[c] BY DEF NewLease
<1>4. Write(c, "create", None, doc) /\ now' = [now EXCEPT ![c] = LocalTime(c)]
      /\ UNCHANGED <<Backend, handle, working>> /\ handle[c] = None
  BY DEF TryAcquire, Backend, stored, holding
<1> HIDE DEF doc
<1>5. Fits(doc, clock) BY <1>1, <1>2, <1>3, NewLeaseFits
<1> QED BY <1>2, <1>4, <1>5, WriteQuiet DEF WriteSteps, UpdateSteps

LEMMA ClaimQuiet ==
    ASSUME IInv, IInv', ExclusionInv, NEW c \in Callers, Claim(c)
    PROVE  ExclusionInv'
<1> DEFINE old == Doc(c)
           doc == NewLease(c, old.version + 1, old.revision + 1, now[c])
<1>1. old \in Leases BY DocFacts DEF Claim
<1>2. doc \in Leases /\ doc.id \notin UsedIDs /\ doc.id[1] = c /\ doc.held
  <2>1. now[c] \in Times BY DEF IInv, TypeOK, CallTypeOK
  <2>2. old.version + 1 \in Nat \ {0} /\ old.revision + 1 \in Nat \ {0} BY <1>1 DEF Leases
  <2>3. FreshIDs(c) # {} BY DEF Claim
  <2> HIDE DEF old
  <2> QED BY <2>1, <2>2, <2>3, NewLeaseFacts
<1>3. doc.duration = TTL[c] /\ doc.expiresAt = now[c] + TTL[c] BY DEF NewLease
<1>4. now[c] \in Nat /\ now[c] <= LocalTime(c)
  BY SampleIsRecent DEF Claim, Answered, Sampled, Recent, Times
<1>5. handle[c] = None
  BY DEF ExclusionInv, WorkOK, WorkFacts, Claim, Answered, AcquireSteps
<1>6. Write(c, "claim", old, doc) /\ UNCHANGED <<Backend, handle, working, now>>
  BY DEF Claim, Backend, stored, holding
<1> HIDE DEF doc, old
<1>7. Fits(doc, clock) BY <1>2, <1>3, <1>4, NewLeaseFits
<1> QED BY <1>1, <1>2, <1>5, <1>6, <1>7, WriteQuiet DEF WriteSteps, UpdateSteps

LEMMA RenewValidatedQuiet ==
    ASSUME IInv, IInv', ExclusionInv, NEW c \in Callers, RenewValidated(c)
    PROVE  ExclusionInv'
<1> DEFINE old == Doc(c)
           doc == [old EXCEPT !.held = TRUE, !.duration = TTL[c], !.revision = @ + 1,
                              !.expiresAt = now[c] + TTL[c]]
<1>1. handle[c] # None /\ old \in Leases /\ handle[c].etag = old /\ old.id[1] = c
  BY CurrentFacts DEF RenewValidated, Answered, HandleSteps
<1>2. now[c] \in Nat /\ now[c] <= LocalTime(c)
  BY SampleIsRecent DEF RenewValidated, Answered, Sampled, Recent, Times
<1>3. doc \in Leases /\ doc.id = old.id /\ doc.held /\ doc.duration = TTL[c]
      /\ doc.expiresAt = now[c] + TTL[c]
  <2>1. old.revision + 1 \in Nat \ {0} /\ TTL[c] \in Nat \ {0} /\ now[c] + TTL[c] \in Times
    BY <1>1, <1>2 DEF Leases, Times
  <2> QED BY <1>1, <2>1 DEF Leases
<1>4. Write(c, "renewPut", old, doc) /\ UNCHANGED <<Backend, handle, working, now>>
  BY <1>1 DEF RenewValidated, Backend, stored, holding
<1> HIDE DEF doc, old
<1>5. Fits(doc, clock) BY <1>1, <1>2, <1>3, NewLeaseFits
<1> QED BY <1>1, <1>3, <1>4, <1>5, WriteQuiet DEF WriteSteps, AcquireSteps

LEMMA ReleaseValidatedQuiet ==
    ASSUME IInv, IInv', ExclusionInv, NEW c \in Callers, ReleaseValidated(c)
    PROVE  ExclusionInv'
<1> DEFINE old == Doc(c)
           doc == [old EXCEPT !.held = FALSE, !.revision = @ + 1, !.expiresAt = now[c]]
<1>1. handle[c] # None /\ old \in Leases /\ handle[c].etag = old /\ old.id[1] = c
  BY CurrentFacts DEF ReleaseValidated, Answered, HandleSteps
<1>2. doc \in Leases /\ doc.id = old.id /\ ~doc.held
  <2>1. old.revision + 1 \in Nat \ {0} /\ now[c] \in Times
    BY <1>1 DEF Leases, IInv, TypeOK, CallTypeOK
  <2> QED BY <1>1, <2>1 DEF Leases
<1>3. Write(c, "releasePut", old, doc) /\ UNCHANGED <<Backend, handle, working, now>>
  BY <1>1 DEF ReleaseValidated, Backend, stored, holding
<1>4. c \notin working
  BY DEF ExclusionInv, WorkOK, WorkFacts, ReleaseValidated, Answered
<1> HIDE DEF doc, old
<1> QED BY <1>1, <1>2, <1>3, <1>4, WriteQuiet DEF WriteSteps, AcquireSteps

LEMMA RenewedQuiet ==
    ASSUME IInv, IInv', ExclusionInv, NEW c \in Callers, Renewed(c)
    PROVE  ExclusionInv'
<1>1. UNCHANGED <<Backend, working>> /\ Return(c)
      /\ handle' = [handle EXCEPT ![c].etag = want[c], ![c].expiresAt = want[c].expiresAt]
  BY DEF Renewed, Backend, stored
<1>2. want[c] \in Leases /\ handle[c] \in Handles
  BY UpdateFacts DEF Renewed, Answered
<1>3. handle'[c].etag = want[c] /\ handle'[c].expiresAt = want[c].expiresAt
      /\ handle'[c] # None /\ handle[c] # None
  <2>1. handle'[c] \in Handles /\ handle'[c].etag = want[c] /\ handle'[c].expiresAt = want[c].expiresAt
    BY <1>1, <1>2 DEF IInv, TypeOK, Handles, Leases
  <2> QED BY <1>2, <2>1
<1>4. want[c] \in Known(c)
  BY <1>2 DEF Renewed, Answered, Recovered, Known, Told, WriteSteps
<1>5. want[c].id = handle[c].etag.id
  BY DEF Renewed, Answered, ExclusionInv, WorkOK, WorkFacts, UpdateSteps
<1>6. pc'[c] = "idle" /\ want'[c] = None /\ Doc(c)' = None /\ Alone(c)
  BY <1>1 DEF Return, Alone, IInv, TypeOK, CallTypeOK, Doc, Pending
<1>7. WorkFacts(c)'
  BY <1>1, <1>3, <1>6 DEF WorkFacts, AcquireSteps, UpdateSteps
<1>8. ReliedOn(c)' \subseteq ReliedOn(c)
  BY <1>1, <1>3, <1>5, <1>6 DEF ReliedOn, AcquireSteps
<1>9. Known(c)' \subseteq Known(c)
  BY <1>3, <1>4, <1>6 DEF Known, Told, WriteSteps
<1> QED BY <1>1, <1>6, <1>7, <1>8, <1>9, HandlerQuiet

LEMMA AbandonQuiet ==
    ASSUME IInv, IInv', ExclusionInv, NEW c \in Callers, Abandon(c)
    PROVE  ExclusionInv'
<1>1. /\ UNCHANGED <<Backend, call>> /\ working' = working \ {c} /\ pc[c] = "idle"
      /\ handle' = [handle EXCEPT ![c] = None]
  BY DEF Abandon, Backend, stored
<1>2. Alone(c) BY <1>1 DEF Alone, call, IInv, TypeOK
<1>3. WorkFacts(c)' BY <1>1 DEF WorkFacts, call, AcquireSteps, UpdateSteps, IInv, TypeOK
<1>4. ReliedOn(c)' \subseteq ReliedOn(c) /\ Known(c)' \subseteq Known(c)
  BY <1>1 DEF ReliedOn, Known, Told, Doc, Status, call, AcquireSteps, IInv, TypeOK
<1>5. want'[c] = want[c] BY <1>1 DEF call
<1> QED BY <1>1, <1>2, <1>3, <1>4, <1>5, HandlerQuiet

LEMMA AcquiringQuiet ==
    ASSUME IInv, IInv', ExclusionInv, NEW c \in Callers, Acquiring(c)
    PROVE  ExclusionInv'
<1>1. CASE ReadExisting(c)
  BY <1>1, ReadQuiet DEF ReadExisting, Answered, Backend, stored, holding, ReadSteps, AcquireSteps, UpdateSteps
<1>2. CASE LockHeld(c) \/ AcquireFailed(c)
  BY <1>2, ReturnQuiet DEF LockHeld, AcquireFailed, Backend, stored, holding
<1> QED BY <1>1, <1>2, TryAcquireQuiet, SuccessQuiet, ClaimQuiet DEF Acquiring

LEMMA WriteFailedQuiet ==
    ASSUME IInv, IInv', ExclusionInv, NEW c \in Callers, WriteFailed(c)
    PROVE  ExclusionInv'
<1>1. UNCHANGED <<Backend, handle, working, now>> BY DEF WriteFailed, Backend, stored, holding
<1>2. PICK s \in RecoverSteps :
          /\ Read(c, s)
          /\ s \in AcquireSteps => pc[c] \in AcquireSteps
          /\ s \in UpdateSteps => pc[c] \in UpdateSteps
          /\ s \in {"releaseGet", "releaseRecover"} => pc[c] = "releasePut"
  BY DEF WriteFailed, Answered, RecoverSteps, AcquireSteps, UpdateSteps
<1> QED BY <1>1, <1>2, ReadQuiet DEF ReadSteps

LEMMA RenewingQuiet ==
    ASSUME IInv, IInv', ExclusionInv, NEW c \in Callers, Renewing(c)
    PROVE  ExclusionInv'
<1>1. CASE Renew(c)
  BY <1>1, ReadQuiet DEF Renew, Backend, stored, holding, ReadSteps, AcquireSteps, UpdateSteps
<1>2. CASE RenewFailed(c)
  BY <1>2, ReturnQuiet DEF RenewFailed, Backend, stored, holding
<1> QED BY <1>1, <1>2, RenewValidatedQuiet, RenewedQuiet DEF Renewing

LEMMA ReleasingQuiet ==
    ASSUME IInv, IInv', ExclusionInv, NEW c \in Callers, Releasing(c)
    PROVE  ExclusionInv'
<1>1. CASE Release(c)
  <2>1. c \notin working' BY <1>1 DEF Release
  <2> QED BY <1>1, <2>1, ReadQuiet DEF Release, Backend, stored, ReadSteps, AcquireSteps, UpdateSteps
<1>2. CASE Released(c)
  <2>1. c \notin working
    BY <1>2 DEF Released, Answered, ExclusionInv, WorkOK, WorkFacts
  <2> QED BY <1>2, <2>1, ReturnQuiet DEF Released, Backend, stored
<1>3. CASE ReleaseFailed(c)
  BY <1>3, ReturnQuiet DEF ReleaseFailed, Backend, stored, holding
<1> QED BY <1>1, <1>2, <1>3, ReleaseValidatedQuiet, AbandonQuiet DEF Releasing

LEMMA AskingQuiet ==
    ASSUME IInv, IInv', ExclusionInv, NEW c \in Callers, Asking(c)
    PROVE  ExclusionInv'
<1>1. CASE IsHeld(c)
  BY <1>1, ReadQuiet DEF IsHeld, Backend, stored, holding, ReadSteps, AcquireSteps, UpdateSteps
<1>2. CASE IsHeldAnswered(c)
  BY <1>2, ReturnQuiet DEF IsHeldAnswered, Backend, stored, holding
<1> QED BY <1>1, <1>2 DEF Asking

-------------------------------------------------------------------------------
\* The backend answers c with r, or leaves its request pending.
LEMMA AnsweredFacts ==
    ASSUME IInv, ExclusionInv, NEW c \in Callers, NEW r \in Replies,
           reply' = [reply EXCEPT ![c] = r] \/ UNCHANGED reply,
           UNCHANGED <<handle, working, pc, want>>
    PROVE  /\ WorkOK' /\ \A d \in Callers : ReliedOn(d)' = ReliedOn(d)
           /\ \A d \in Callers : \A k \in Known(d)' :
                  \/ k \in Known(d)
                  \/ d = c /\ pc[c] \in WriteSteps /\ r.status = "ok" /\ k = want[c]
                  \/ k = r.doc /\ k # None
<1>1. WorkOK' BY DEF ExclusionInv, WorkOK, WorkFacts
<1>2. \A d \in Callers : ReliedOn(d)' = ReliedOn(d) BY DEF ReliedOn
<1>3. \A d \in Callers : reply'[d] = reply[d] \/ (d = c /\ reply'[d] = r)
  BY DEF IInv, TypeOK, CallTypeOK
<1> QED BY <1>1, <1>2, <1>3 DEF Known, Told, Status, Doc

\* A write is issued sound.
LEMMA PendingSound ==
    ASSUME IInv, ExclusionInv, NEW c \in Callers, pc[c] \in WriteSteps
    PROVE  /\ match[c] \in Leases \cup {None} /\ want[c] \in Leases
           /\ GoodWrite(match[c], want[c]) /\ Sound(want[c], clock)
BY PendingWrite DEF ExclusionInv, SoundOK

LEMMA ServeReadQuiet ==
    ASSUME IInv, IInv', ExclusionInv, NEW c \in Callers, ServeRead(c)
    PROVE  ExclusionInv'
<1>1. PICK r \in Replies : r = Reply("ok", lease)
  BY DEF Reply, Replies, IInv, TypeOK
<1>2. UNCHANGED <<lease, writtenAt, clock, late, handle, working, pc, want>>
      /\ reply' = [reply EXCEPT ![c] = r] /\ r.doc = lease /\ pc[c] \notin WriteSteps
  BY <1>1 DEF ServeRead, Answer, Reply, stored, holding, WriteSteps, ReadSteps, RecoverSteps
<1>3. clock <= clock' BY <1>2 DEF IInv, TypeOK, Times
<1> QED BY <1>2, <1>3, AnsweredFacts, QuietStep

\* A write that is served, whether its caller hears of it or not.
LEMMA WrittenStep ==
    ASSUME Patience, IInv, IInv', ExclusionInv, NEW c \in Callers, NEW r \in Replies,
           pc[c] \in WriteSteps, Store(match[c], want[c]),
           reply' = [reply EXCEPT ![c] = r] \/ UNCHANGED reply, r.doc = None,
           r.status = "ok" => lease = match[c],
           UNCHANGED <<clock, late, handle, working, pc, want>>
    PROVE  ExclusionInv'
<1>1. /\ match[c] \in Leases \cup {None} /\ want[c] \in Leases
      /\ GoodWrite(match[c], want[c]) /\ Sound(want[c], clock)
  BY PendingSound
<1>2. CASE lease = match[c]
  BY <1>1, <1>2, AnsweredFacts, StoredStep
<1>3. CASE lease # match[c]
  <2>1. UNCHANGED <<lease, writtenAt>> /\ clock <= clock'
    BY <1>3 DEF Store, stored, IInv, TypeOK, Times
  <2> QED BY <1>3, <2>1, AnsweredFacts, QuietStep
<1> QED BY <1>2, <1>3

LEMMA ServingQuiet ==
    ASSUME Patience, IInv, IInv', ExclusionInv, NEW c \in Callers, Serving(c)
    PROVE  ExclusionInv'
<1>1. CASE ServeWrite(c)
  <2>1. PICK r \in Replies : /\ reply' = [reply EXCEPT ![c] = r] /\ r.doc = None
                             /\ r.status = "ok" => lease = match[c]
    <3>1. Reply(IF lease = match[c] THEN "ok" ELSE "precondition", None) \in Replies
      BY DEF Reply, Replies
    <3> QED BY <1>1, <3>1 DEF ServeWrite, Answer, Reply
  <2> QED BY <1>1, <2>1, WrittenStep DEF ServeWrite, holding
<1>2. CASE ReplyLost(c)
  BY <1>2, ErrorReply, WrittenStep DEF ReplyLost, FailOrRetry, Answer, holding
<1>3. CASE CallFails(c) \/ WriteDelayed(c)
  <2>1. UNCHANGED <<lease, writtenAt, clock, handle, working, pc, want>> /\ clock <= clock'
    BY <1>3 DEF CallFails, WriteDelayed, stored, holding, IInv, TypeOK, Times
  <2>2. PICK r \in Replies : /\ reply' = [reply EXCEPT ![c] = r] \/ UNCHANGED reply
                             /\ r.doc = None /\ r.status # "ok"
    BY <1>3, ErrorReply DEF CallFails, WriteDelayed, FailOrRetry, Answer
  <2>3. \A w \in late' : w \in late \/ w.doc = want[c] BY <1>3 DEF CallFails, WriteDelayed
  <2> QED BY <2>1, <2>2, <2>3, AnsweredFacts, QuietStep
<1> QED BY <1>1, <1>2, <1>3, ServeReadQuiet DEF Serving

\* A step that changes nothing that callers see.
LEMMA BackgroundFacts ==
    ASSUME ExclusionInv, UNCHANGED <<call, handle, working>>
    PROVE  /\ WorkOK'
           /\ \A d \in Callers : ReliedOn(d)' = ReliedOn(d) /\ Known(d)' = Known(d)
<1>1. WorkOK' BY DEF ExclusionInv, WorkOK, WorkFacts, call
<1> QED BY <1>1 DEF ReliedOn, Known, Told, Status, Doc, call

LEMMA LateWriteArrivesQuiet ==
    ASSUME Patience, IInv, IInv', ExclusionInv, NEW w \in late, LateWriteArrives(w)
    PROVE  ExclusionInv'
<1>1. w.match \in Leases \cup {None} /\ w.doc \in Leases /\ GoodWrite(w.match, w.doc)
      /\ Sound(w.doc, clock)
  BY DEF IInv, TypeOK, LateOK, Writes, ExclusionInv, SoundOK
<1>2. UNCHANGED <<clock, call, handle, working>> /\ Store(w.match, w.doc)
      /\ late' \subseteq late /\ UNCHANGED want
  BY DEF LateWriteArrives, holding, call
<1>3. CASE lease = w.match
  BY <1>1, <1>2, <1>3, BackgroundFacts, StoredStep
<1>4. CASE lease # w.match
  <2>1. UNCHANGED <<lease, writtenAt>> /\ clock <= clock'
    BY <1>2, <1>4 DEF Store, stored, IInv, TypeOK, Times
  <2> QED BY <1>2, <2>1, BackgroundFacts, QuietStep
<1> QED BY <1>3, <1>4

\* Time passes, or nothing happens.
LEMMA TimeQuiet ==
    ASSUME IInv, IInv', ExclusionInv, UNCHANGED <<lease, writtenAt, late, call, handle, working>>,
           clock <= clock'
    PROVE  ExclusionInv'
BY BackgroundFacts, QuietStep DEF call

LEMMA CrashQuiet ==
    ASSUME IInv, IInv', ExclusionInv, NEW l \in Lockers, Crash(l)
    PROVE  ExclusionInv'
<1> DEFINE dead == {c \in Callers : LockerOf[c] = l}
<1>1. /\ UNCHANGED <<lease, writtenAt, clock>> /\ clock <= clock'
      /\ handle' = [c \in Callers |-> IF c \in dead THEN None ELSE handle[c]]
      /\ working' = working \ dead
      /\ pc' = [c \in Callers |-> IF c \in dead THEN "idle" ELSE pc[c]]
      /\ want' = [c \in Callers |-> IF c \in dead THEN None ELSE want[c]]
      /\ reply' = [c \in Callers |-> IF c \in dead THEN Pending ELSE reply[c]]
  BY DEF Crash, stored, IInv, TypeOK, Times
<1>2. \A w \in late' : w \in late \/ \E c \in Callers : w.doc = want[c]
  BY DEF Crash
<1>3. ASSUME NEW c \in Callers
      PROVE  /\ WorkFacts(c)' /\ ReliedOn(c)' \subseteq ReliedOn(c)
             /\ Known(c)' \subseteq Known(c) /\ (want'[c] = want[c] \/ want'[c] = None)
  <2>1. CASE c \in dead
    BY <1>1, <2>1 DEF WorkFacts, ReliedOn, Known, Told, Doc, Pending, AcquireSteps, UpdateSteps, WriteSteps
  <2>2. CASE c \notin dead
    <3>1. /\ handle'[c] = handle[c] /\ pc'[c] = pc[c] /\ want'[c] = want[c]
          /\ reply'[c] = reply[c] /\ (c \in working' <=> c \in working)
      BY <1>1, <2>2
    <3> QED BY <3>1 DEF ExclusionInv, WorkOK, WorkFacts, ReliedOn, Known, Told, Doc, Status
  <2> QED BY <2>1, <2>2
<1>4. WorkOK' BY <1>3 DEF WorkOK
<1> HIDE DEF dead
<1> QED BY <1>1, <1>2, <1>3, <1>4, QuietStep

-------------------------------------------------------------------------------
LEMMA InitExclusion == Init => ExclusionInv
<1> SUFFICES ASSUME Init PROVE ExclusionInv OBVIOUS
<1>1. WorkOK BY DEF Init, WorkOK, WorkFacts, AcquireSteps, UpdateSteps
<1>2. SoundOK BY DEF Init, SoundOK, Sound
<1>3. TimelyOK BY DEF Init, TimelyOK, Known, Told, Doc, Pending, WriteSteps
<1> QED BY <1>1, <1>2, <1>3 DEF ExclusionInv

LEMMA NextExclusion ==
    ASSUME Patience, IInv, IInv', ExclusionInv, Next
    PROVE  ExclusionInv'
<1>1. ASSUME NEW c \in Callers,
             \/ Acquiring(c) \/ WriteFailed(c) \/ Renewing(c) \/ Releasing(c) \/ Asking(c)
             \/ Serving(c)
      PROVE  ExclusionInv'
  BY <1>1, AcquiringQuiet, WriteFailedQuiet, RenewingQuiet, ReleasingQuiet, AskingQuiet, ServingQuiet
<1>2. ASSUME NEW w \in late, LateWriteArrives(w) PROVE ExclusionInv'
  BY <1>2, LateWriteArrivesQuiet
<1>3. ASSUME NEW l \in Lockers, Crash(l) PROVE ExclusionInv' BY <1>3, CrashQuiet
<1>4. ASSUME Tick PROVE ExclusionInv'
  <2>1. clock <= clock' BY <1>4 DEF Tick, IInv, TypeOK, Times
  <2> QED BY <1>4, <2>1, TimeQuiet DEF Tick, stored, holding
<1> QED BY <1>1, <1>2, <1>3, <1>4 DEF Next

LEMMA ExclusionImplied == IInv /\ ExclusionInv => MutualExclusion
<1> SUFFICES ASSUME IInv, ExclusionInv, NEW c \in working, NEW d \in working, c # d,
                    Unexpired(c), Unexpired(d)
             PROVE  FALSE
  BY DEF MutualExclusion
<1>1. ASSUME NEW e \in working, Unexpired(e)
      PROVE  /\ handle[e] # None /\ handle[e].etag \in Leases /\ Past(handle[e].etag)
             /\ handle[e].etag.id[1] = e /\ handle[e].etag.version = lease.version
  <2>1. e \in Callers /\ handle[e] # None /\ handle[e].expiresAt = handle[e].etag.expiresAt
    BY DEF IInv, TypeOK, ExclusionInv, WorkOK, WorkFacts
  <2>2. handle[e].etag \in Known(e) /\ handle[e].etag.id \in ReliedOn(e)
    BY <2>1 DEF Known, Told, ReliedOn
  <2>3. Timely(e, handle[e].etag) BY <2>1, <2>2 DEF ExclusionInv, TimelyOK
  <2>4. handle[e].etag \in Leases /\ Past(handle[e].etag) /\ handle[e].etag.id[1] = e
    BY <2>1, <2>2, KnownFacts, ReliedFacts
  <2>5. handle[e].etag.expiresAt \in Nat BY <2>4 DEF Leases, Times
  <2>6. LocalTime(e) \in Nat
    <3>1. LockerOf[e] \in Lockers BY <2>1
    <3>2. clock \in Nat /\ Offset[LockerOf[e]] \in Nat BY <3>1 DEF IInv, TypeOK, Times
    <3> QED BY <3>2 DEF LocalTime
  <2> QED BY <1>1, <2>1, <2>2, <2>3, <2>4, <2>5, <2>6 DEF Timely, Unexpired
<1> QED BY <1>1 DEF Past

(* No caller relies on a lease that has been superseded before it expired, *)
(* or on one that any document says is released (TryAcquire, Renew,        *)
(* canTakeOver), if no call takes longer than the grace it allows a lease. *)
THEOREM Superseded ==
    ASSUME \A c \in Callers : MaxDelay <= Grace[c]
    PROVE  Spec => []ExclusionInv
<1>1. Patience BY DEF Patience
<1>2. IInv /\ IInv' /\ ExclusionInv /\ [Next]_vars => ExclusionInv'
  <2>1. IInv /\ IInv' /\ ExclusionInv /\ Next => ExclusionInv' BY <1>1, NextExclusion
  <2>2. IInv /\ IInv' /\ ExclusionInv /\ UNCHANGED vars => ExclusionInv'
    <3> SUFFICES ASSUME IInv, IInv', ExclusionInv, UNCHANGED vars PROVE ExclusionInv' OBVIOUS
    <3>1. clock <= clock' BY DEF vars, IInv, TypeOK, Times
    <3> QED BY <3>1, TimeQuiet DEF vars, stored, holding
  <2> QED BY <2>1, <2>2
<1> QED BY <1>2, InitExclusion, Induction, PTL DEF Spec

(* Whatever calls overlap, replies are lost, writes arrive late and        *)
(* processes die, two callers never both rely on an unexpired handle, if   *)
(* no call takes longer than the grace it allows a lease.                  *)
THEOREM Exclusion ==
    ASSUME \A c \in Callers : MaxDelay <= Grace[c]
    PROVE  Spec => []MutualExclusion
<1>1. Spec => []ExclusionInv BY Superseded
<1> QED BY <1>1, ExclusionImplied, Induction, PTL
===============================================================================
