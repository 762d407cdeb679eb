----------------------------- MODULE ObjectsProofs -----------------------------
(***************************************************************************)
(* Proofs about Objects: ObjectInv is an inductive invariant, and its      *)
(* properties follow from it.                                              *)
(***************************************************************************)
EXTENDS ObjectsInduction, TLAPS

-------------------------------------------------------------------------------
(***************************************************************************)
(* Data.                                                                   *)
(***************************************************************************)

\* Requests and replies are told apart by their fields.
LEMMA RecordKinds ==
    /\ \A r \in Requests : /\ r # None /\ "kind" \in DOMAIN r /\ "code" \notin DOMAIN r
                           /\ r.kind \in {"Get", "Head", "Put", "Delete"}
                           /\ r.condition \in Conditions
    /\ \A r \in Replies : /\ r # None /\ "code" \in DOMAIN r /\ "kind" \notin DOMAIN r
                          /\ r.code \in Codes /\ r.etag \in Contents \cup {None}
BY ObjectAssumption DEF Requests, Replies

\* The requests that are sent are requests.
LEMMA ConditionsGiven ==
    /\ Unconditional \in Conditions /\ IfNotExists \in Conditions
    /\ \A e \in Contents : /\ IfMatch(e) \in Conditions
                           /\ [match |-> Unset, noMatch |-> e] \in Conditions
BY DEF Conditions, Unconditional, IfNotExists, IfMatch

LEMMA Sent ==
    ASSUME NEW condition \in Conditions
    PROVE  /\ \A kind \in {"Get", "Head"} :
                  Read(kind, condition) \in Requests /\ Read(kind, condition).kind = kind
           /\ Removal(condition) \in Requests /\ Removal(condition).kind = "Delete"
           /\ \A data \in Contents :
                  /\ Write(data, condition) \in Requests
                  /\ Write(data, condition).kind = "Put"
                  /\ Write(data, condition).data = data
                  /\ Write(data, condition).condition = condition
BY DEF Requests, Read, Removal, Write

LEMMA FailureFits == Reply("error", None) \in Replies /\ Reply("error", None).code = "error"
BY DEF Reply, Replies, Codes

LEMMA OptionsGiven ==
    /\ NoOptions \in Options /\ Forced \in Options
    /\ NoOptions.condition = Unconditional /\ ~NoOptions.force
    /\ \A condition \in Conditions : /\ OnlyIf(condition) \in Options
                                     /\ OnlyIf(condition).condition = condition
                                     /\ ~OnlyIf(condition).force
    /\ \A o \in Options : o.condition \in Conditions /\ o.force \in BOOLEAN
BY ConditionsGiven DEF NoOptions, Forced, OnlyIf, Options

\* Contents are compared pointwise; an update only adds to them.
LEMMA ContentsGiven ==
    /\ Zero \in Contents
    /\ \A e \in Contents : AtLeast(e, e)
    /\ \A e, f, g \in Contents : AtLeast(e, f) /\ AtLeast(f, g) => AtLeast(e, g)
<1>1. Zero \in Contents
  BY DEF Zero, Contents
<1>2. ASSUME NEW e \in Contents PROVE AtLeast(e, e)
  BY DEF Contents, AtLeast
<1>3. ASSUME NEW e \in Contents, NEW f \in Contents, NEW g \in Contents,
             AtLeast(e, f), AtLeast(f, g)
      PROVE  AtLeast(e, g)
  <2> SUFFICES ASSUME NEW d \in Callers PROVE e[d] >= g[d]
    BY DEF AtLeast
  <2>1. e[d] \in Nat /\ f[d] \in Nat /\ g[d] \in Nat
    BY DEF Contents
  <2>2. e[d] >= f[d] /\ f[d] >= g[d]
    BY <1>3 DEF AtLeast
  <2> QED
    BY <2>1, <2>2
<1> QED
  BY <1>1, <1>2, <1>3

LEMMA UpdatesAdd ==
    ASSUME NEW e \in Contents, NEW c \in Callers
    PROVE  Updated(e, c) \in Contents /\ AtLeast(Updated(e, c), e)
BY DEF Updated, Contents, AtLeast

\* What the backends answer.
LEMMA AnswerFits ==
    ASSUME TypeOK, NEW r \in Requests, r.kind = "Put" => r.data \in Contents
    PROVE  /\ Answered(r).after \in Contents \cup {None}
           /\ Answered(r).reply \in Replies
           /\ Answered(r).reply.code # "ok" => Answered(r).after = stored
           /\ r.kind \in {"Get", "Head"} => Answered(r).after = stored
           /\ r.kind \in {"Get", "Head"} /\ Answered(r).reply.code = "ok" =>
                  Answered(r).reply.etag \in Contents
           /\ r.kind = "Put" /\ Answered(r).reply.code = "ok" =>
                  /\ Answered(r).reply.etag = r.data /\ Answered(r).after = r.data
                  /\ PutAllowed(stored, r.condition)
BY ObjectAssumption
DEF TypeOK, ObjectsOK, Answered, S3Get, S3Head, S3Put, S3Delete, MemoryGet, MemoryHead,
      MemoryPut,
    MemoryDelete, Answer, Refused, Reply, Requests, Replies, Codes

\* A part of the invariant that a step does not touch.
LEMMA Unaffected ==
    ASSUME ObjectInv
    PROVE  /\ UNCHANGED <<stored, backend, uses, entity, etag, loaded, modified, source,
                          overtaken, adopted, replaced>> => ObjectsOK'
           /\ UNCHANGED <<op, at, existed, given, wire>> => CallsOK'
           /\ UNCHANGED <<tries, calls, faults, loose, effects, lost, result>> => CountsOK'
           /\ UNCHANGED <<ioMu, uses, at, wire>> => MutexHeld'
           /\ UNCHANGED <<op, at, wire>> => WireFits'
           /\ UNCHANGED <<loaded, modified, entity, source, adopted, etag>> => CleanMeansSaved'
           /\ UNCHANGED <<overtaken, modified, at, wire, uses, entity, replaced>> =>
                  SavesWhatItHolds'
           /\ UNCHANGED <<replaced, source, entity>> => EntityGrows'
           /\ UNCHANGED <<op, given>> => GivenFits'
           /\ UNCHANGED <<wire, loose>> => WriteIsSafe'
           /\ UNCHANGED <<op, at, wire, effects, lost>> => EffectsCounted'
<1> USE DEF ObjectInv, TypeOK
<1>1. UNCHANGED <<stored, backend, uses, entity, etag, loaded, modified, source,
                  overtaken, adopted, replaced>> => ObjectsOK'
  BY DEF ObjectsOK
<1>2. UNCHANGED <<op, at, existed, given, wire>> => CallsOK'
  BY DEF CallsOK
<1>3. UNCHANGED <<tries, calls, faults, loose, effects, lost, result>> => CountsOK'
  BY DEF CountsOK
<1>4. UNCHANGED <<ioMu, uses, at, wire>> => MutexHeld'
  BY DEF MutexHeld, Mine
<1>5. UNCHANGED <<op, at, wire>> => WireFits'
  BY DEF WireFits, Asking, Told, Code
<1>6. UNCHANGED <<loaded, modified, entity, source, adopted, etag>> => CleanMeansSaved'
  BY DEF CleanMeansSaved
<1>7. UNCHANGED <<overtaken, modified, at, wire, uses, entity, replaced>> => SavesWhatItHolds'
  BY DEF SavesWhatItHolds, Saved, Mine, Asking, Told, Code
<1>8. UNCHANGED <<replaced, source, entity>> => EntityGrows'
  BY DEF EntityGrows
<1>9. UNCHANGED <<op, given>> => GivenFits'
  BY DEF GivenFits
<1>10. UNCHANGED <<wire, loose>> => WriteIsSafe'
  BY DEF WriteIsSafe, Asking
<1>11. UNCHANGED <<op, at, wire, effects, lost>> => EffectsCounted'
  BY DEF EffectsCounted, Told, Code
<1> QED
  BY <1>1, <1>2, <1>3, <1>4, <1>5, <1>6, <1>7, <1>8, <1>9, <1>10, <1>11

\* A change of an entity is noted while a Save of it is under way.
LEMMA ChangeIsNoted ==
    ASSUME TypeOK, NEW o \in Wrappers, NewRevision(o), NEW d \in Callers,
           at[d] \in Locked, wire[d] # None, Mine(d) = o
    PROVE  o \in overtaken'
BY ObjectAssumption DEF TypeOK, MutexHeld, NewRevision

\* What a reply says.
LEMMA ReplySays ==
    ASSUME NEW c \in Callers, wire[c] \in Replies
    PROVE  /\ ~Asking(c) /\ Saved(c) = wire[c].etag
           /\ wire[c].etag \in Contents \cup {None} /\ Code(c) \in Codes
BY RecordKinds DEF Asking, Saved, Code

\* What a Save sends, or has sent, is a content.
LEMMA SavesContents ==
    ASSUME ObjectInv, NEW d \in Callers,
           at[d] = "save", wire[d] # None, Told(d) => Code(d) = "ok"
    PROVE  Saved(d) \in Contents
BY RecordKinds DEF ObjectInv, TypeOK, CallsOK, WireFits, Saved, Asking, Told, Code

\* Whoever takes ioMu is not in the way of a Load, Save or Delete.
LEMMA NobodyElse ==
    ASSUME TypeOK, NEW c \in Callers, NEW d \in Callers,
           ioMu[Mine(c)] = None, at[d] \in Locked, wire[d] # None
    PROVE  Mine(d) # Mine(c)
BY ObjectAssumption DEF TypeOK, MutexHeld, ObjectsOK, Mine

\* Nor is anybody else when it is given up.
LEMMA OneAtATime ==
    ASSUME TypeOK, NEW c \in Callers, NEW d \in Callers, c # d,
           at[c] \in Locked, wire[c] # None, at[d] \in Locked, wire[d] # None
    PROVE  Mine(d) # Mine(c)
BY ObjectAssumption DEF TypeOK, MutexHeld, ObjectsOK, Mine

-------------------------------------------------------------------------------
(***************************************************************************)
(* One lemma for each action, with one step for each part of the invariant *)
(* that the action touches.                                                *)
(***************************************************************************)
LEMMA ServeKeeps ==
    ASSUME ObjectInv, NEW c \in Callers, Serve(c)
    PROVE  ObjectInv'
<1> USE DEF ObjectInv, Serve, Effect, Counted
<1>a. wire[c] \in Requests /\ (wire[c].kind = "Put" => wire[c].data \in Contents)
  BY DEF WireFits, Asking, KindAt
<1>1. CleanMeansSaved' /\ EntityGrows' /\ GivenFits'
  BY Unaffected DEF memory, control, origin, tally
<1>2. ObjectsOK'
  BY <1>a, AnswerFits DEF TypeOK, ObjectsOK, memory, origin
<1>3. CallsOK'
  BY <1>a, AnswerFits DEF TypeOK, CallsOK, control
<1>4. CountsOK'
  BY DEF TypeOK, CountsOK, control, origin
<1>5. MutexHeld'
  BY AnswerFits, RecordKinds DEF TypeOK, MutexHeld, WireFits, KindAt, Mine, control
<1>6. WireFits'
  BY AnswerFits, RecordKinds DEF WireFits, KindAt, Asking, Told, Code, control
<1>7. SavesWhatItHolds'
  BY AnswerFits, RecordKinds
  DEF WireFits, SavesWhatItHolds, Saved, KindAt, Mine, Asking, Told, Code, memory, control,
      origin
<1>8. WriteIsSafe'
  BY AnswerFits, RecordKinds DEF WireFits, WriteIsSafe, KindAt, Asking, origin
<1>9. EffectsCounted'
  BY AnswerFits, RecordKinds
  DEF TypeOK, CallsOK, CountsOK, WireFits, EffectsCounted, KindAt, Told, Code, control
<1> QED
  BY <1>1, <1>2, <1>3, <1>4, <1>5, <1>6, <1>7, <1>8, <1>9 DEF TypeOK

LEMMA LoseReplyKeeps ==
    ASSUME ObjectInv, NEW c \in Callers, LoseReply(c)
    PROVE  ObjectInv'
<1> USE DEF ObjectInv, LoseReply, Effect, Counted
<1>a. wire[c] \in Requests /\ (wire[c].kind = "Put" => wire[c].data \in Contents)
  BY DEF WireFits, Asking, KindAt
<1>1. /\ CallsOK' /\ MutexHeld' /\ WireFits' /\ CleanMeansSaved' /\ SavesWhatItHolds'
      /\ EntityGrows' /\ GivenFits' /\ WriteIsSafe'
  BY Unaffected DEF memory, control, origin, tally
<1>2. ObjectsOK'
  BY <1>a, AnswerFits DEF TypeOK, ObjectsOK, memory, origin
<1>3. CountsOK'
  BY ObjectAssumption DEF TypeOK, CountsOK, control, origin
<1>4. EffectsCounted'
  BY RecordKinds DEF TypeOK, CountsOK, WireFits, EffectsCounted, KindAt, Told, Code, control
<1> QED
  BY <1>1, <1>2, <1>3, <1>4 DEF TypeOK

LEMMA RequestFailsKeeps ==
    ASSUME ObjectInv, NEW c \in Callers, RequestFails(c)
    PROVE  ObjectInv'
<1> USE DEF ObjectInv, RequestFails
<1>a. PICK r \in Replies : r.code = "error" /\ wire' = [wire EXCEPT ![c] = r]
  BY FailureFits
<1>1. ObjectsOK' /\ CleanMeansSaved' /\ EntityGrows' /\ GivenFits'
  BY Unaffected DEF memory, control, origin, tally
<1>2. CallsOK'
  BY <1>a DEF TypeOK, CallsOK, control
<1>3. CountsOK'
  BY ObjectAssumption DEF TypeOK, CountsOK, control, origin, tally
<1>4. MutexHeld'
  BY <1>a, RecordKinds DEF TypeOK, MutexHeld, WireFits, Mine, control
<1>5. WireFits'
  BY <1>a, RecordKinds DEF WireFits, Asking, Told, Code, control
<1>6. SavesWhatItHolds'
  BY <1>a, RecordKinds
  DEF SavesWhatItHolds, Saved, Mine, Asking, Told, Code, memory, control, origin
<1>7. WriteIsSafe'
  BY <1>a, RecordKinds DEF WriteIsSafe, Asking, origin
<1>8. EffectsCounted'
  BY <1>a, RecordKinds DEF WireFits, EffectsCounted, Told, Code, control, tally
<1> QED
  BY <1>1, <1>2, <1>3, <1>4, <1>5, <1>6, <1>7, <1>8 DEF TypeOK

LEMMA SetKeeps ==
    ASSUME ObjectInv, NEW c \in Callers, Set(c)
    PROVE  ObjectInv'
<1> USE DEF ObjectInv, Set, Calling, NewRevision
<1>a. Mine(c) \in Wrappers /\ Updated(Zero, c) \in Contents
  BY ObjectAssumption, ContentsGiven, UpdatesAdd DEF TypeOK, ObjectsOK, Mine
<1>1. CallsOK' /\ MutexHeld' /\ WireFits' /\ GivenFits' /\ WriteIsSafe' /\ EffectsCounted'
  BY Unaffected DEF memory, control, origin, tally
<1>2. ObjectsOK'
  BY <1>a DEF TypeOK, ObjectsOK
<1>3. CountsOK'
  BY ObjectAssumption DEF TypeOK, CountsOK, tally
<1>4. CleanMeansSaved'
  BY DEF TypeOK, ObjectsOK, CleanMeansSaved
<1>5. SavesWhatItHolds'
  <2>1. \A d \in Callers : at[d] = "save" /\ wire[d] # None /\ Mine(d) = Mine(c) =>
            Mine(c) \in overtaken'
    BY <1>a, ChangeIsNoted DEF Locked
  <2> QED
    BY <1>a, <2>1 DEF TypeOK, ObjectsOK, SavesWhatItHolds, Saved, Mine, Asking, Told, Code,
      tally
<1>6. EntityGrows'
  BY DEF EntityGrows
<1> QED
  BY <1>1, <1>2, <1>3, <1>4, <1>5, <1>6 DEF TypeOK

LEMMA LoadBeginKeeps ==
    ASSUME ObjectInv, NEW c \in Callers, LoadBegin(c)
    PROVE  ObjectInv'
<1> USE DEF ObjectInv, LoadBegin, Calling, Begin, Waiting, Proceed, Lock
<1>a. PICK r \in Requests : r.kind = "Get" /\ wire' = [wire EXCEPT ![c] = r]
  <2>1. LoadConditions(c) \subseteq Conditions
    BY ConditionsGiven, ObjectAssumption DEF LoadConditions, TypeOK, ObjectsOK, Mine
  <2> QED
    BY <2>1, Sent DEF Send
<1>1. CleanMeansSaved' /\ EntityGrows'
  BY Unaffected DEF memory, control, origin, tally
<1>2. ObjectsOK'
  BY DEF TypeOK, ObjectsOK, memory, origin
<1>3. CallsOK'
  <2>1. wire' \in [Callers -> Requests \cup Replies \cup {None}]
    BY <1>a DEF TypeOK, CallsOK
  <2>2. given' \in [Callers -> Options]
    BY OptionsGiven DEF TypeOK, CallsOK
  <2>3. op' \in [Callers -> Operations \cup {"none"}]
    BY DEF TypeOK, CallsOK
  <2>4. at' \in [Callers -> Stages]
    BY DEF TypeOK, CallsOK, Stages
  <2>5. existed' = existed
    OBVIOUS
  <2> QED
    BY <2>1, <2>2, <2>3, <2>4, <2>5 DEF TypeOK, CallsOK
<1>4. CountsOK'
  BY ObjectAssumption DEF TypeOK, CountsOK, origin, tally
<1>5. MutexHeld'
  BY <1>a, ObjectAssumption DEF TypeOK, CallsOK, ObjectsOK, MutexHeld, Locked, Mine
<1>6. WireFits'
  BY <1>a, RecordKinds DEF TypeOK, CallsOK, WireFits, KindAt, Asking, Told, Code
<1>7. SavesWhatItHolds'
  <2>1. \A d \in Callers : at[d] = "save" /\ wire[d] # None => Mine(d) # Mine(c) /\ d # c
    BY NobodyElse DEF Locked
  <2>2. \A d \in Callers : at'[d] = "save" /\ wire'[d] # None =>
            at[d] = "save" /\ wire'[d] = wire[d] /\ Mine(d) # Mine(c)
    BY <1>a, <2>1 DEF TypeOK, CallsOK, Mine
  <2> QED
    BY <2>2 DEF TypeOK, ObjectsOK, SavesWhatItHolds, Saved, Mine, Asking, Told, Code, memory,
        origin
<1>8. GivenFits'
  BY OptionsGiven DEF TypeOK, CallsOK, GivenFits
<1>9. WriteIsSafe'
  BY <1>a DEF WriteIsSafe, Asking, origin
<1>10. EffectsCounted'
  BY <1>a DEF TypeOK, CallsOK, EffectsCounted, Told, Code, tally
<1> QED
  BY <1>1, <1>2, <1>3, <1>4, <1>5, <1>6, <1>7, <1>8, <1>9, <1>10 DEF TypeOK

LEMMA LoadAnsweredKeeps ==
    ASSUME ObjectInv, NEW c \in Callers, LoadAnswered(c)
    PROVE  ObjectInv'
<1> USE DEF ObjectInv, LoadAnswered, Received, LoadApplies, LoadDone, LoadRefused, Return,
        Proceed, Heard, Unlock
<1>a. /\ Mine(c) \in Wrappers /\ wire[c] \in Replies
      /\ Code(c) = "ok" => wire[c].etag \in Contents
  BY ObjectAssumption DEF TypeOK, ObjectsOK, WireFits, Mine
<1>b. \A d \in Callers : d # c /\ at[d] = "save" /\ wire[d] # None => Mine(d) # Mine(c)
  BY OneAtATime DEF Locked, Told
<1>1. ObjectsOK'
  <2>1. CASE LoadApplies(c)
    <3>1. /\ wire[c].etag \in Contents
          /\ UNCHANGED <<stored, backend, uses, adopted>>
      BY <1>a, <2>1
    <3>2. /\ entity' = [entity EXCEPT ![Mine(c)] = wire[c].etag]
          /\ etag' = [etag EXCEPT ![Mine(c)] = wire[c].etag]
          /\ loaded' = [loaded EXCEPT ![Mine(c)] = TRUE]
          /\ modified' = [modified EXCEPT ![Mine(c)] = FALSE]
          /\ source' = [source EXCEPT ![Mine(c)] = wire[c].etag]
          /\ replaced' = replaced \ {Mine(c)} /\ overtaken' = overtaken \ {Mine(c)}
      BY <2>1
    <3> QED
      BY <3>1, <3>2 DEF TypeOK, ObjectsOK
  <2>2. CASE ~LoadApplies(c)
    BY <2>2 DEF TypeOK, ObjectsOK, memory
  <2> QED
    BY <2>1, <2>2
<1>2. CallsOK'
  <2>1. CASE LoadApplies(c) /\ op[c] # "Load"
    BY <2>1 DEF TypeOK, CallsOK, Stages
  <2>2. CASE ~(LoadApplies(c) /\ op[c] # "Load")
    BY <2>2, OptionsGiven DEF TypeOK, CallsOK, Stages
  <2> QED
    BY <2>1, <2>2
<1>3. CountsOK'
  BY ObjectAssumption DEF TypeOK, CountsOK, WireFits, tally
<1>4. MutexHeld'
  BY ObjectAssumption DEF TypeOK, CallsOK, ObjectsOK, MutexHeld, WireFits, Locked, Mine
<1>5. WireFits'
  BY DEF TypeOK, CallsOK, WireFits, Asking, Told, Code
<1>6. CleanMeansSaved'
  BY DEF TypeOK, ObjectsOK, CleanMeansSaved, memory
<1>7. SavesWhatItHolds'
  <2>1. \A d \in Callers : at'[d] = "save" /\ wire'[d] # None =>
            /\ at[d] = "save" /\ wire'[d] = wire[d]
            /\ Mine(d) \in Wrappers \ {Mine(c)} /\ Mine(d)' = Mine(d)
    BY <1>b, ObjectAssumption DEF TypeOK, ObjectsOK, CallsOK, Mine
  <2>2. overtaken' \subseteq {o \in Wrappers : modified'[o]}
    BY <1>a DEF TypeOK, ObjectsOK, SavesWhatItHolds, memory
  <2>3. \A o \in Wrappers \ {Mine(c)} : /\ entity'[o] = entity[o]
                                        /\ o \in overtaken' <=> o \in overtaken
                                        /\ o \in replaced' <=> o \in replaced
    BY <1>a DEF TypeOK, ObjectsOK, memory
  <2> QED
    BY <2>1, <2>2, <2>3 DEF SavesWhatItHolds, Saved, Asking, Told, Code
<1>8. EntityGrows'
  <2>1. CASE LoadApplies(c)
    <3>1. AtLeast(wire[c].etag, wire[c].etag)
      BY <1>a, <2>1, ContentsGiven
    <3> QED
      BY <1>a, <2>1, <3>1 DEF TypeOK, ObjectsOK, EntityGrows
  <2>2. CASE ~LoadApplies(c)
    BY <2>2, Unaffected DEF memory
  <2> QED
    BY <2>1, <2>2
<1>9. GivenFits'
  BY OptionsGiven DEF TypeOK, CallsOK, GivenFits
<1>10. WriteIsSafe'
  BY DEF WriteIsSafe, Asking
<1>11. EffectsCounted'
  BY DEF TypeOK, CallsOK, CountsOK, EffectsCounted, Told, Code, tally
<1> QED
  BY <1>1, <1>2, <1>3, <1>4, <1>5, <1>6, <1>7, <1>8, <1>9, <1>10, <1>11 DEF TypeOK

LEMMA FetchMetadataKeeps ==
    ASSUME ObjectInv, NEW c \in Callers, FetchMetadata(c)
    PROVE  ObjectInv'
<1> USE DEF ObjectInv, FetchMetadata, Calling, Begin, Send
<1>1. ObjectsOK' /\ CleanMeansSaved' /\ EntityGrows'
  BY Unaffected DEF memory, control, origin, tally
<1>2. CallsOK'
  BY OptionsGiven, Sent DEF TypeOK, CallsOK, Stages
<1>3. CountsOK'
  BY ObjectAssumption DEF TypeOK, CountsOK, origin
<1>4. MutexHeld'
  BY DEF TypeOK, MutexHeld, WireFits, Locked, Mine
<1>5. WireFits'
  BY RecordKinds, Sent, ConditionsGiven
  DEF TypeOK, CallsOK, WireFits, KindAt, Asking, Told, Code
<1>6. SavesWhatItHolds'
  BY DEF WireFits, SavesWhatItHolds, Saved, Mine, Asking, Told, Code, memory, origin
<1>7. GivenFits'
  BY OptionsGiven DEF GivenFits
<1>8. WriteIsSafe'
  BY Sent, ConditionsGiven DEF WriteIsSafe, Asking, origin
<1>9. EffectsCounted'
  BY DEF EffectsCounted, Told, Code
<1> QED
  BY <1>1, <1>2, <1>3, <1>4, <1>5, <1>6, <1>7, <1>8, <1>9 DEF TypeOK

LEMMA MetadataFetchedKeeps ==
    ASSUME ObjectInv, NEW c \in Callers, MetadataFetched(c)
    PROVE  ObjectInv'
<1> USE DEF ObjectInv, MetadataFetched, Received, Adopt, Return, Heard
<1>a. /\ Mine(c) \in Wrappers
      /\ wire[c].etag \in Contents \cup {None}
  BY ObjectAssumption, ReplySays DEF TypeOK, ObjectsOK, WireFits, Mine
<1>1. EntityGrows'
  BY Unaffected DEF memory, control, origin, tally
<1>2. ObjectsOK'
  BY <1>a DEF TypeOK, ObjectsOK, memory
<1>3. CallsOK'
  BY OptionsGiven DEF TypeOK, CallsOK, Stages
<1>4. CountsOK'
  BY ObjectAssumption DEF TypeOK, CountsOK, WireFits
<1>5. MutexHeld'
  BY DEF TypeOK, MutexHeld, Locked, Mine
<1>6. WireFits'
  BY DEF TypeOK, CallsOK, WireFits, Asking, Told, Code
<1>7. CleanMeansSaved'
  BY DEF TypeOK, ObjectsOK, CleanMeansSaved, memory
<1>8. SavesWhatItHolds'
  BY DEF SavesWhatItHolds, Saved, Mine, Asking, Told, Code, memory
<1>9. GivenFits'
  BY OptionsGiven DEF TypeOK, CallsOK, GivenFits
<1>10. WriteIsSafe'
  BY DEF WriteIsSafe, Asking
<1>11. EffectsCounted'
  BY DEF TypeOK, CountsOK, EffectsCounted, Told, Code
<1> QED
  BY <1>1, <1>2, <1>3, <1>4, <1>5, <1>6, <1>7, <1>8, <1>9, <1>10, <1>11 DEF TypeOK

LEMMA SaveKeeps ==
    ASSUME ObjectInv, NEW c \in Callers, Save(c)
    PROVE  ObjectInv'
<1> USE DEF ObjectInv, Save, Calling, Begin
<1>a. PICK options \in Options : Begin(c, "Save", "save", options)
  BY OptionsGiven, ObjectAssumption DEF Conditions, OnlyIf, Options
<1>b. wire[c] = None
  BY DEF WireFits, KindAt
<1>1. ObjectsOK' /\ CleanMeansSaved' /\ EntityGrows' /\ WriteIsSafe'
  BY Unaffected DEF memory, control, origin, tally
<1>2. CallsOK'
  BY <1>a DEF TypeOK, CallsOK, Stages
<1>3. CountsOK'
  BY ObjectAssumption DEF TypeOK, CountsOK, origin
<1>4. MutexHeld'
  BY <1>b DEF TypeOK, MutexHeld, Mine
<1>5. WireFits'
  BY DEF TypeOK, CallsOK, WireFits, KindAt, Asking, Told, Code
<1>6. SavesWhatItHolds'
  BY <1>b DEF SavesWhatItHolds, Saved, Mine, Asking, Told, Code, memory, origin
<1>7. GivenFits'
  BY DEF TypeOK, CallsOK, GivenFits
<1>8. EffectsCounted'
  BY DEF EffectsCounted, Told, Code
<1> QED
  BY <1>1, <1>2, <1>3, <1>4, <1>5, <1>6, <1>7, <1>8 DEF TypeOK

LEMMA SaveSkippedKeeps ==
    ASSUME ObjectInv, NEW c \in Callers, SaveSkipped(c)
    PROVE  ObjectInv'
<1> USE DEF ObjectInv, SaveSkipped, Waiting, Return
<1>1. ObjectsOK' /\ CleanMeansSaved' /\ EntityGrows' /\ WriteIsSafe'
  BY Unaffected DEF memory, control, origin, tally
<1>2. CallsOK'
  BY OptionsGiven DEF TypeOK, CallsOK, Stages
<1>3. CountsOK'
  BY ObjectAssumption DEF TypeOK, CountsOK, WireFits, origin
<1>4. MutexHeld'
  BY DEF TypeOK, MutexHeld, Mine
<1>5. WireFits'
  BY DEF TypeOK, CallsOK, WireFits, Asking, Told, Code
<1>6. SavesWhatItHolds'
  BY DEF SavesWhatItHolds, Saved, Mine, Asking, Told, Code, memory, origin
<1>7. GivenFits'
  BY OptionsGiven DEF TypeOK, CallsOK, GivenFits
<1>8. EffectsCounted'
  BY DEF TypeOK, CountsOK, EffectsCounted, Told, Code
<1> QED
  BY <1>1, <1>2, <1>3, <1>4, <1>5, <1>6, <1>7, <1>8 DEF TypeOK

LEMMA SaveBeginKeeps ==
    ASSUME ObjectInv, NEW c \in Callers, SaveBegin(c)
    PROVE  ObjectInv'
<1> USE DEF ObjectInv, SaveBegin, Waiting, Lock
<1>a. /\ Mine(c) \in Wrappers
      /\ SaveCondition(Mine(c), given[c]) \in Conditions
  <2>1. Mine(c) \in Wrappers
    BY ObjectAssumption DEF TypeOK, ObjectsOK, Mine
  <2>2. etag[Mine(c)] \in Contents \cup {None} /\ given[c].condition \in Conditions
    BY <2>1, OptionsGiven DEF TypeOK, ObjectsOK, CallsOK
  <2> QED
    BY <2>1, <2>2, ConditionsGiven DEF SaveCondition
<1>b. PICK r \in Requests :
          /\ r.kind = "Put" /\ r.data = entity[Mine(c)] /\ r.data \in Contents
          /\ r.condition = SaveCondition(Mine(c), given[c])
          /\ wire' = [wire EXCEPT ![c] = r]
  <2>1. entity[Mine(c)] \in Contents
    BY <1>a DEF TypeOK, ObjectsOK
  <2>2. wire' = [wire EXCEPT ![c] = Write(entity[Mine(c)], SaveCondition(Mine(c), given[c]))]
    BY DEF Send
  <2>3. Write(entity[Mine(c)], SaveCondition(Mine(c), given[c])) \in Requests
    BY <1>a, <2>1, Sent
  <2> QED
    BY <2>1, <2>2, <2>3 DEF Write
<1>1. CleanMeansSaved' /\ EntityGrows' /\ GivenFits'
  BY Unaffected DEF memory, control, origin, tally
<1>2. ObjectsOK'
  BY DEF TypeOK, ObjectsOK, memory
<1>3. CallsOK'
  BY <1>b DEF TypeOK, CallsOK, control
<1>4. CountsOK'
  BY DEF TypeOK, CountsOK, Looseness, control, tally
<1>5. MutexHeld'
  BY <1>b, ObjectAssumption DEF TypeOK, CallsOK, ObjectsOK, MutexHeld, Locked, Mine, control
<1>6. WireFits'
  BY <1>b, RecordKinds DEF WireFits, KindAt, Asking, Told, Code, control
<1>7. SavesWhatItHolds'
  <2>1. \A d \in Callers : at[d] = "save" /\ wire[d] # None => Mine(d) # Mine(c) /\ d # c
    BY NobodyElse DEF Locked
  <2>2. \A d \in Callers : at'[d] = "save" /\ wire'[d] # None =>
            d = c \/ (at[d] = "save" /\ wire'[d] = wire[d] /\ Mine(d) # Mine(c))
    BY <1>b, <2>1 DEF TypeOK, CallsOK, Mine, control
  <2>3. wire'[c] = r /\ "kind" \in DOMAIN r /\ r # None /\ AtLeast(r.data, r.data)
    BY <1>b, RecordKinds, ContentsGiven DEF TypeOK, CallsOK
  <2> QED
    BY <1>b, <2>2, <2>3 DEF TypeOK, ObjectsOK, SavesWhatItHolds, Saved, Mine, Asking, Told,
      Code,
        memory, control
<1>8. WriteIsSafe'
  <2>1. ASSUME loose'[c] = {}
        PROVE  \/ SaveCondition(Mine(c), given[c]) = IfNotExists
               \/ /\ SaveCondition(Mine(c), given[c]).match = source[Mine(c)]
                  /\ source[Mine(c)] \in Contents
                  /\ AtLeast(entity[Mine(c)], source[Mine(c)])
    <3> DEFINE o == Mine(c)
               chosen == SaveCondition(o, given[c])
    <3>1. /\ op[c] = "Save" => given[c] = NoOptions
          /\ o \notin replaced
          /\ Named(chosen.match) => chosen.match = source[o]
      BY <2>1 DEF TypeOK, CountsOK, Looseness
    <3>2. \/ chosen = IfNotExists
          \/ \E e \in Contents : chosen = IfMatch(e) /\ chosen.match = e
      <4>1. etag[o] \in Contents \cup {None} /\ given[c] \in Options
        BY <1>a DEF TypeOK, ObjectsOK, CallsOK
      <4>2. \/ ~given[c].force /\ given[c].condition = Unconditional
            \/ given[c].condition = IfNotExists
            \/ \E e \in Contents : given[c].condition = IfMatch(e)
        BY <3>1, OptionsGiven DEF GivenFits
      <4>3. IfNotExists # Unconditional /\ \A e \in Contents : IfMatch(e) # Unconditional
        BY ObjectAssumption DEF IfNotExists, IfMatch, Unconditional
      <4>4. \A e \in Contents : IfMatch(e).match = e
        BY DEF IfMatch
      <4> QED
        BY <4>1, <4>2, <4>3, <4>4 DEF SaveCondition
    <3>3. \A e \in Contents : Named(e)
      BY ObjectAssumption DEF Named
    <3>4. source[o] \in Contents => AtLeast(entity[o], source[o])
      BY <1>a, <3>1, ObjectAssumption DEF EntityGrows
    <3> QED
      BY <3>1, <3>2, <3>3, <3>4
  <2>2. IfNotExists.noMatch = Star
    BY DEF IfNotExists
  <2>3. "kind" \in DOMAIN r /\ r # None
    BY RecordKinds
  <2> QED
    BY <1>b, <2>1, <2>2, <2>3 DEF TypeOK, CallsOK, CountsOK, WriteIsSafe, Asking
<1>9. EffectsCounted'
  BY <1>b DEF EffectsCounted, Told, Code, control, tally
<1> QED
  BY <1>1, <1>2, <1>3, <1>4, <1>5, <1>6, <1>7, <1>8, <1>9 DEF TypeOK

LEMMA SaveAnsweredKeeps ==
    ASSUME ObjectInv, NEW c \in Callers, SaveAnswered(c)
    PROVE  ObjectInv'
<1> USE DEF ObjectInv, SaveAnswered, Received, SaveDone, Return, Heard, Unlock, Overtaken
<1>a. /\ Mine(c) \in Wrappers /\ wire[c] \in Replies
      /\ Code(c) = "ok" => wire[c].etag \in Contents
  BY ObjectAssumption DEF TypeOK, ObjectsOK, WireFits, Mine
<1>b. \A d \in Callers : d # c /\ at[d] = "save" /\ wire[d] # None => Mine(d) # Mine(c)
  BY OneAtATime DEF Locked, Told
<1>c. Code(c) = "ok" => Saved(c) = wire[c].etag
  BY <1>a, ReplySays
<1>1. ObjectsOK'
  <2>1. modified' \in [Wrappers -> BOOLEAN]
    BY Zenon, <1>a DEF TypeOK, ObjectsOK, memory
  <2>2. /\ entity' \in [Wrappers -> Contents] /\ etag' \in [Wrappers -> Contents \cup {None}]
        /\ loaded' \in [Wrappers -> BOOLEAN] /\ source' \in [Wrappers -> Contents \cup {None}]
    BY <1>a DEF TypeOK, ObjectsOK, memory
  <2>3. overtaken' \subseteq Wrappers /\ replaced' \subseteq Wrappers
    BY <1>a DEF TypeOK, ObjectsOK
  <2> QED
    BY <2>1, <2>2, <2>3 DEF TypeOK, ObjectsOK
<1>2. CallsOK'
  BY OptionsGiven DEF TypeOK, CallsOK, Stages
<1>3. CountsOK'
  BY ObjectAssumption DEF TypeOK, CountsOK, WireFits
<1>4. MutexHeld'
  BY ObjectAssumption DEF TypeOK, CallsOK, ObjectsOK, MutexHeld, WireFits, Locked, Mine
<1>5. WireFits'
  BY DEF TypeOK, CallsOK, WireFits, Asking, Told, Code
<1>6. CleanMeansSaved'
  BY <1>c DEF TypeOK, ObjectsOK, CleanMeansSaved, SavesWhatItHolds, Told, memory
<1>7. SavesWhatItHolds'
  BY <1>b
  DEF TypeOK, ObjectsOK, CallsOK, SavesWhatItHolds, Saved, Mine, Asking, Told, Code, memory
<1>8. EntityGrows'
  BY <1>c, ContentsGiven DEF TypeOK, ObjectsOK, EntityGrows, SavesWhatItHolds, Told, memory
<1>9. GivenFits'
  BY OptionsGiven DEF TypeOK, CallsOK, GivenFits
<1>10. WriteIsSafe'
  BY DEF TypeOK, CallsOK, WriteIsSafe, Asking
<1>11. EffectsCounted'
  BY DEF TypeOK, CountsOK, EffectsCounted, Told, Code
<1> QED
  BY <1>1, <1>2, <1>3, <1>4, <1>5, <1>6, <1>7, <1>8, <1>9, <1>10, <1>11 DEF TypeOK

LEMMA DeleteBeginKeeps ==
    ASSUME ObjectInv, NEW c \in Callers, DeleteBegin(c)
    PROVE  ObjectInv'
<1> USE DEF ObjectInv, DeleteBegin, Calling, Begin, Lock
<1>a. PICK r \in Requests : r.kind = "Delete" /\ wire' = [wire EXCEPT ![c] = r]
  <2>1. etag[Mine(c)] \in Contents \cup {None}
    BY ObjectAssumption DEF TypeOK, ObjectsOK, Mine
  <2>2. PICK condition \in Conditions : Send(c, Removal(condition))
    BY <2>1, ConditionsGiven
  <2> QED
    BY <2>2, Sent DEF Send
<1>1. CleanMeansSaved' /\ EntityGrows'
  BY Unaffected DEF memory, control, origin, tally
<1>2. ObjectsOK'
  BY DEF TypeOK, ObjectsOK, memory, origin
<1>3. CallsOK'
  BY <1>a, OptionsGiven DEF TypeOK, CallsOK, Stages
<1>4. CountsOK'
  BY ObjectAssumption DEF TypeOK, CountsOK, origin
<1>5. MutexHeld'
  BY <1>a, ObjectAssumption DEF TypeOK, CallsOK, ObjectsOK, MutexHeld, Locked, Mine
<1>6. WireFits'
  BY <1>a, RecordKinds DEF TypeOK, CallsOK, WireFits, KindAt, Asking, Told, Code
<1>7. SavesWhatItHolds'
  <2>1. \A d \in Callers : at[d] = "save" /\ wire[d] # None => Mine(d) # Mine(c) /\ d # c
    BY NobodyElse DEF Locked
  <2>2. \A d \in Callers : at'[d] = "save" /\ wire'[d] # None =>
            at[d] = "save" /\ wire'[d] = wire[d] /\ Mine(d) # Mine(c)
    BY <1>a, <2>1 DEF TypeOK, CallsOK, Mine
  <2> QED
    BY <2>2 DEF TypeOK, ObjectsOK, SavesWhatItHolds, Saved, Mine, Asking, Told, Code, memory,
        origin
<1>8. GivenFits'
  BY OptionsGiven DEF GivenFits
<1>9. WriteIsSafe'
  BY <1>a DEF WriteIsSafe, Asking, origin
<1>10. EffectsCounted'
  BY <1>a DEF EffectsCounted, Told, Code
<1> QED
  BY <1>1, <1>2, <1>3, <1>4, <1>5, <1>6, <1>7, <1>8, <1>9, <1>10 DEF TypeOK

LEMMA DeleteAnsweredKeeps ==
    ASSUME ObjectInv, NEW c \in Callers, DeleteAnswered(c)
    PROVE  ObjectInv'
<1> USE DEF ObjectInv, DeleteAnswered, Received, DeleteDone, Return, Heard, Unlock, Overtaken
<1>a. /\ Mine(c) \in Wrappers /\ Zero \in Contents
      /\ wire[c].etag \in Contents \cup {None}
  BY ObjectAssumption, ReplySays, ContentsGiven DEF TypeOK, ObjectsOK, WireFits, Mine
<1>b. \A d \in Callers : d # c /\ at[d] = "save" /\ wire[d] # None => Mine(d) # Mine(c)
  BY OneAtATime DEF Locked, Told
<1>1. ObjectsOK'
  <2>1. modified' \in [Wrappers -> BOOLEAN]
    <3>1. Code(c) = "ok" => modified' = [modified EXCEPT ![Mine(c)] = Mine(c) \in overtaken]
      OBVIOUS
    <3>2. Code(c) # "ok" => modified' = modified
      BY DEF memory
    <3>3. (Mine(c) \in overtaken) \in BOOLEAN
      OBVIOUS
    <3> QED
      BY Zenon, <1>a, <3>1, <3>2, <3>3 DEF TypeOK, ObjectsOK
  <2>2. /\ entity' \in [Wrappers -> Contents] /\ etag' \in [Wrappers -> Contents \cup {None}]
        /\ loaded' \in [Wrappers -> BOOLEAN] /\ source' \in [Wrappers -> Contents \cup {None}]
    BY <1>a DEF TypeOK, ObjectsOK, memory
  <2>3. overtaken' \subseteq Wrappers /\ replaced' \subseteq Wrappers
    BY <1>a DEF TypeOK, ObjectsOK
  <2> QED
    BY <2>1, <2>2, <2>3 DEF TypeOK, ObjectsOK
<1>2. CallsOK'
  BY OptionsGiven DEF TypeOK, CallsOK, Stages
<1>3. CountsOK'
  BY ObjectAssumption DEF TypeOK, CountsOK, WireFits
<1>4. MutexHeld'
  BY ObjectAssumption DEF TypeOK, CallsOK, ObjectsOK, MutexHeld, WireFits, Locked, Mine
<1>5. WireFits'
  BY DEF TypeOK, CallsOK, WireFits, Asking, Told, Code
<1>6. CleanMeansSaved'
  BY DEF TypeOK, ObjectsOK, CleanMeansSaved, memory
<1>7. SavesWhatItHolds'
  <2>1. \A d \in Callers : at'[d] = "save" /\ wire'[d] # None =>
            /\ at[d] = "save" /\ wire'[d] = wire[d]
            /\ Mine(d) \in Wrappers \ {Mine(c)} /\ Mine(d)' = Mine(d)
    BY <1>b, ObjectAssumption DEF TypeOK, ObjectsOK, CallsOK, Mine
  <2>2. overtaken' \subseteq {o \in Wrappers : modified'[o]}
    BY <1>a DEF TypeOK, ObjectsOK, SavesWhatItHolds, memory
  <2>3. \A o \in Wrappers \ {Mine(c)} : /\ entity'[o] = entity[o]
                                        /\ o \in overtaken' <=> o \in overtaken
                                        /\ o \in replaced' <=> o \in replaced
    BY <1>a DEF TypeOK, ObjectsOK, memory
  <2> QED
    BY <2>1, <2>2, <2>3 DEF SavesWhatItHolds, Saved, Asking, Told, Code
<1>8. EntityGrows'
  BY <1>a DEF TypeOK, ObjectsOK, EntityGrows, memory
<1>9. GivenFits'
  BY OptionsGiven DEF TypeOK, CallsOK, GivenFits
<1>10. WriteIsSafe'
  BY DEF WireFits, WriteIsSafe, KindAt, Asking
<1>11. EffectsCounted'
  BY DEF TypeOK, CountsOK, EffectsCounted, Told, Code
<1> QED
  BY <1>1, <1>2, <1>3, <1>4, <1>5, <1>6, <1>7, <1>8, <1>9, <1>10, <1>11 DEF TypeOK

LEMMA CreateOrUpdateKeeps ==
    ASSUME ObjectInv, NEW c \in Callers, CreateOrUpdate(c)
    PROVE  ObjectInv'
<1> USE DEF ObjectInv, CreateOrUpdate, Calling, Begin, Send
<1>1. ObjectsOK' /\ CleanMeansSaved' /\ EntityGrows'
  BY Unaffected DEF memory, control, origin, tally
<1>2. CallsOK'
  BY OptionsGiven, Sent DEF TypeOK, CallsOK, Stages
<1>3. CountsOK'
  BY ObjectAssumption DEF TypeOK, CountsOK, origin
<1>4. MutexHeld'
  BY DEF TypeOK, MutexHeld, WireFits, Locked, Mine
<1>5. WireFits'
  BY RecordKinds, Sent, ConditionsGiven
  DEF TypeOK, CallsOK, WireFits, KindAt, Asking, Told, Code
<1>6. SavesWhatItHolds'
  BY DEF WireFits, SavesWhatItHolds, Saved, Mine, Asking, Told, Code, memory, origin
<1>7. GivenFits'
  BY OptionsGiven DEF GivenFits
<1>8. WriteIsSafe'
  BY Sent, ConditionsGiven DEF WriteIsSafe, Asking, origin
<1>9. EffectsCounted'
  BY DEF EffectsCounted, Told, Code
<1> QED
  BY <1>1, <1>2, <1>3, <1>4, <1>5, <1>6, <1>7, <1>8, <1>9 DEF TypeOK

LEMMA ExistsAnsweredKeeps ==
    ASSUME ObjectInv, NEW c \in Callers, ExistsAnswered(c)
    PROVE  ObjectInv'
<1> USE DEF ObjectInv, ExistsAnswered, Received, Adopt, Return, Heard
<1>a. /\ Mine(c) \in Wrappers
      /\ wire[c].etag \in Contents \cup {None}
  BY ObjectAssumption, ReplySays DEF TypeOK, ObjectsOK, WireFits, Mine
<1>1. EntityGrows'
  BY Unaffected DEF memory, control, origin, tally
<1>2. ObjectsOK'
  BY <1>a DEF TypeOK, ObjectsOK, memory
<1>3. CallsOK'
  <2>1. CASE Code(c) \in {"ok", "notfound"}
    BY <2>1 DEF TypeOK, CallsOK, Stages
  <2>2. CASE Code(c) \notin {"ok", "notfound"}
    BY <2>2, OptionsGiven DEF TypeOK, CallsOK, Stages
  <2> QED
    BY <2>1, <2>2
<1>4. CountsOK'
  BY ObjectAssumption DEF TypeOK, CountsOK, WireFits, tally
<1>5. MutexHeld'
  BY DEF TypeOK, CallsOK, MutexHeld, Locked, Mine
<1>6. WireFits'
  BY DEF TypeOK, CallsOK, WireFits, Asking, Told, Code
<1>7. CleanMeansSaved'
  BY DEF TypeOK, ObjectsOK, CleanMeansSaved, memory
<1>8. SavesWhatItHolds'
  BY DEF TypeOK, CallsOK, SavesWhatItHolds, Saved, Mine, Asking, Told, Code, memory
<1>9. GivenFits'
  BY OptionsGiven DEF TypeOK, CallsOK, GivenFits
<1>10. WriteIsSafe'
  BY DEF WriteIsSafe, Asking
<1>11. EffectsCounted'
  BY DEF TypeOK, CallsOK, CountsOK, EffectsCounted, Told, Code, tally
<1> QED
  BY <1>1, <1>2, <1>3, <1>4, <1>5, <1>6, <1>7, <1>8, <1>9, <1>10, <1>11 DEF TypeOK

LEMMA CheckLoadedKeeps ==
    ASSUME ObjectInv, NEW c \in Callers, CheckLoaded(c)
    PROVE  ObjectInv'
<1> USE DEF ObjectInv, CheckLoaded, Proceed
<1>1. ObjectsOK' /\ CountsOK' /\ CleanMeansSaved' /\ EntityGrows' /\ GivenFits' /\ WriteIsSafe'
  BY Unaffected DEF memory, control, origin, tally
<1>2. CallsOK'
  BY DEF TypeOK, CallsOK, Stages
<1>3. MutexHeld'
  BY DEF TypeOK, MutexHeld, WireFits, KindAt, Mine
<1>4. WireFits'
  BY DEF WireFits, KindAt, Asking, Told, Code
<1>5. SavesWhatItHolds'
  BY DEF SavesWhatItHolds, Saved, Mine, Asking, Told, Code, memory, origin
<1>6. EffectsCounted'
  BY DEF EffectsCounted, Told, Code, tally
<1> QED
  BY <1>1, <1>2, <1>3, <1>4, <1>5, <1>6 DEF TypeOK

LEMMA MarkKeeps ==
    ASSUME ObjectInv, NEW c \in Callers, Mark(c)
    PROVE  ObjectInv'
<1> USE DEF ObjectInv, Mark, Proceed
<1>1. CountsOK' /\ EntityGrows' /\ GivenFits' /\ WriteIsSafe'
  BY Unaffected DEF memory, control, origin, tally
<1>2. ObjectsOK'
  BY DEF TypeOK, ObjectsOK, origin
<1>3. CallsOK'
  BY DEF TypeOK, CallsOK, Stages
<1>4. MutexHeld'
  BY DEF TypeOK, MutexHeld, Locked, Mine
<1>5. WireFits'
  BY DEF WireFits, KindAt, Asking, Told, Code
<1>6. CleanMeansSaved'
  BY DEF CleanMeansSaved, origin
<1>7. SavesWhatItHolds'
  BY DEF SavesWhatItHolds, Saved, Mine, Asking, Told, Code, origin
<1>8. EffectsCounted'
  BY DEF EffectsCounted, Told, Code, tally
<1> QED
  BY <1>1, <1>2, <1>3, <1>4, <1>5, <1>6, <1>7, <1>8 DEF TypeOK

LEMMA ChooseKeeps ==
    ASSUME ObjectInv, NEW c \in Callers, Choose(c)
    PROVE  ObjectInv'
<1> USE DEF ObjectInv, Choose
<1>a. \/ ChosenOptions(c) \in {OnlyIf(IfNotExists), NoOptions}
      \/ \E e \in Contents : ChosenOptions(c) = OnlyIf(IfMatch(e))
  <2>1. etag[Mine(c)] \in Contents \cup {None}
    BY ObjectAssumption DEF TypeOK, ObjectsOK, Mine
  <2> QED
    BY <2>1 DEF ChosenOptions
<1>b. /\ ChosenOptions(c) \in Options /\ ~ChosenOptions(c).force
      /\ \/ ChosenOptions(c).condition \in {IfNotExists, Unconditional}
         \/ \E e \in Contents : ChosenOptions(c).condition = IfMatch(e)
  BY <1>a, OptionsGiven, ConditionsGiven
<1>c. wire[c] = None
  BY DEF WireFits, KindAt
<1>1. ObjectsOK' /\ CountsOK' /\ CleanMeansSaved' /\ EntityGrows' /\ WriteIsSafe'
  BY Unaffected DEF memory, control, origin, tally
<1>2. CallsOK'
  BY <1>b DEF TypeOK, CallsOK, Stages
<1>3. MutexHeld'
  BY DEF TypeOK, MutexHeld, WireFits, KindAt, Mine
<1>4. WireFits'
  BY DEF WireFits, KindAt, Asking, Told, Code
<1>5. SavesWhatItHolds'
  BY <1>c DEF SavesWhatItHolds, Saved, Mine, Asking, Told, Code, memory, origin
<1>6. GivenFits'
  <2>1. \A e \in Contents : IfMatch(e).match = e
    BY DEF IfMatch
  <2> QED
    BY <1>b, <2>1 DEF TypeOK, CallsOK, GivenFits
<1>7. EffectsCounted'
  BY DEF EffectsCounted, Told, Code, tally
<1> QED
  BY <1>1, <1>2, <1>3, <1>4, <1>5, <1>6, <1>7 DEF TypeOK

LEMMA UpdateKeeps ==
    ASSUME ObjectInv, NEW c \in Callers, Update(c)
    PROVE  ObjectInv'
<1> USE DEF ObjectInv, Update, Calling, Begin
<1>1. ObjectsOK' /\ CleanMeansSaved' /\ EntityGrows' /\ WriteIsSafe'
  BY Unaffected DEF memory, control, origin, tally
<1>2. CallsOK'
  BY OptionsGiven DEF TypeOK, CallsOK, Stages
<1>3. CountsOK'
  BY ObjectAssumption DEF TypeOK, CountsOK, origin
<1>4. MutexHeld'
  BY DEF TypeOK, MutexHeld, WireFits, KindAt, Mine
<1>5. WireFits'
  BY DEF TypeOK, CallsOK, WireFits, KindAt, Asking, Told, Code
<1>6. SavesWhatItHolds'
  BY DEF SavesWhatItHolds, Saved, Mine, Asking, Told, Code, memory, origin
<1>7. GivenFits'
  BY OptionsGiven DEF GivenFits
<1>8. EffectsCounted'
  BY DEF EffectsCounted, Told, Code
<1> QED
  BY <1>1, <1>2, <1>3, <1>4, <1>5, <1>6, <1>7, <1>8 DEF TypeOK

LEMMA ApplyKeeps ==
    ASSUME ObjectInv, NEW c \in Callers, Apply(c)
    PROVE  ObjectInv'
<1> USE DEF ObjectInv, Apply, Proceed, Return, NewRevision
<1>a. Mine(c) \in Wrappers
  BY ObjectAssumption DEF TypeOK, ObjectsOK, Mine
<1>b. /\ Updated(entity[Mine(c)], c) \in Contents
      /\ AtLeast(Updated(entity[Mine(c)], c), entity[Mine(c)])
  BY <1>a, UpdatesAdd DEF TypeOK, ObjectsOK
<1>c. wire[c] = None
  BY DEF WireFits, KindAt
<1>1. WriteIsSafe'
  BY Unaffected DEF memory, control, origin, tally
<1>2. ObjectsOK'
  BY <1>a, <1>b DEF TypeOK, ObjectsOK, origin
<1>3. CallsOK'
  <2>1. CASE op[c] = "Update"
    BY <2>1, OptionsGiven DEF TypeOK, CallsOK, Stages
  <2>2. CASE op[c] # "Update"
    BY <2>2 DEF TypeOK, CallsOK, Stages
  <2> QED
    BY <2>1, <2>2
<1>4. CountsOK'
  BY ObjectAssumption DEF TypeOK, CountsOK, origin, tally
<1>5. MutexHeld'
  BY DEF TypeOK, CallsOK, MutexHeld, WireFits, Locked, KindAt, Mine
<1>6. WireFits'
  BY DEF TypeOK, CallsOK, WireFits, KindAt, Asking, Told, Code
<1>7. CleanMeansSaved'
  BY DEF TypeOK, ObjectsOK, CleanMeansSaved, origin
<1>8. SavesWhatItHolds'
  <2>1. \A d \in Callers : at[d] = "save" /\ wire[d] # None /\ Mine(d) = Mine(c) =>
            Mine(c) \in overtaken'
    BY <1>a, ChangeIsNoted DEF Locked
  <2>2. \A d \in Callers : at[d] = "save" /\ wire[d] # None /\ (Told(d) => Code(d) = "ok") =>
            Saved(d) \in Contents
    BY SavesContents
  <2>3. \A d \in Callers :
            at[d] = "save" /\ wire[d] # None /\ (Told(d) => Code(d) = "ok")
            /\ Mine(d) = Mine(c) /\ Mine(c) \notin replaced =>
                AtLeast(Updated(entity[Mine(c)], c), Saved(d))
    BY <1>a, <1>b, <2>2, ContentsGiven DEF SavesWhatItHolds, TypeOK, ObjectsOK
  <2>4. \A d \in Callers : at'[d] = "save" /\ wire'[d] # None =>
            at[d] = "save" /\ wire'[d] = wire[d]
    BY <1>c DEF TypeOK, CallsOK
  <2> QED
    BY <1>a, <2>1, <2>3, <2>4
    DEF TypeOK, ObjectsOK, SavesWhatItHolds, Saved, Mine, Asking, Told, Code, origin
<1>9. EntityGrows'
  BY <1>b, ContentsGiven DEF TypeOK, ObjectsOK, EntityGrows, origin
<1>10. GivenFits'
  BY OptionsGiven DEF TypeOK, CallsOK, GivenFits
<1>11. EffectsCounted'
  BY DEF TypeOK, CallsOK, CountsOK, EffectsCounted, Told, Code, tally
<1> QED
  BY <1>1, <1>2, <1>3, <1>4, <1>5, <1>6, <1>7, <1>8, <1>9, <1>10, <1>11 DEF TypeOK

LEMMA AtomicUpdateKeeps ==
    ASSUME ObjectInv, NEW c \in Callers, AtomicUpdate(c)
    PROVE  ObjectInv'
<1> USE DEF ObjectInv, AtomicUpdate, Calling, Begin, Send
<1>1. ObjectsOK' /\ CleanMeansSaved' /\ EntityGrows'
  BY Unaffected DEF memory, control, origin, tally
<1>2. CallsOK'
  BY OptionsGiven, Sent DEF TypeOK, CallsOK, Stages
<1>3. CountsOK'
  BY ObjectAssumption DEF TypeOK, CountsOK, origin
<1>4. MutexHeld'
  BY DEF TypeOK, MutexHeld, WireFits, Locked, Mine
<1>5. WireFits'
  BY RecordKinds, Sent, ConditionsGiven
  DEF TypeOK, CallsOK, WireFits, KindAt, Asking, Told, Code
<1>6. SavesWhatItHolds'
  BY DEF WireFits, SavesWhatItHolds, Saved, Mine, Asking, Told, Code, memory, origin
<1>7. GivenFits'
  BY OptionsGiven DEF GivenFits
<1>8. WriteIsSafe'
  BY Sent, ConditionsGiven DEF WriteIsSafe, Asking, origin
<1>9. EffectsCounted'
  BY DEF WireFits, EffectsCounted, Told, Code
<1> QED
  BY <1>1, <1>2, <1>3, <1>4, <1>5, <1>6, <1>7, <1>8, <1>9 DEF TypeOK

LEMMA AtomicReadKeeps ==
    ASSUME ObjectInv, NEW c \in Callers, AtomicRead(c)
    PROVE  ObjectInv'
<1> USE DEF ObjectInv, AtomicRead, Received, Proceed, Heard, Return
<1>a. wire[c] \in Replies /\ (Code(c) = "ok" => wire[c].etag \in Contents)
  BY DEF WireFits
<1>b. ASSUME Code(c) = "ok"
      PROVE  \E r \in Requests :
                 /\ r.kind = "Put" /\ r.data \in Contents /\ wire' = [wire EXCEPT ![c] = r]
                 /\ r.condition = IfMatch(wire[c].etag) /\ r.data = Updated(wire[c].etag, c)
  <2>1. /\ wire[c].etag \in Contents /\ IfMatch(wire[c].etag) \in Conditions
        /\ Updated(wire[c].etag, c) \in Contents
    BY <1>a, <1>b, ConditionsGiven, UpdatesAdd
  <2>2. wire' = [wire EXCEPT ![c] = Write(Updated(wire[c].etag, c), IfMatch(wire[c].etag))]
    BY <1>b DEF Send
  <2>3. /\ Write(Updated(wire[c].etag, c), IfMatch(wire[c].etag)) \in Requests
        /\ Write(Updated(wire[c].etag, c), IfMatch(wire[c].etag)).kind = "Put"
    BY <2>1, Sent
  <2> QED
    BY <2>1, <2>2, <2>3 DEF Write
<1>1. ObjectsOK' /\ CleanMeansSaved' /\ EntityGrows'
  BY Unaffected DEF memory, control, origin, tally
<1>2. CallsOK'
  <2>1. CASE Code(c) = "ok"
    BY <2>1, <1>b DEF TypeOK, CallsOK, Stages
  <2>2. CASE ~(Code(c) = "ok")
    BY <2>2, OptionsGiven DEF TypeOK, CallsOK, Stages
  <2> QED
    BY <2>1, <2>2
<1>3. CountsOK'
  BY ObjectAssumption, RecordKinds DEF TypeOK, CountsOK, WireFits, Code, origin, tally
<1>4. MutexHeld'
  <2>1. CASE Code(c) = "ok"
    BY <2>1, <1>a, <1>b, RecordKinds DEF TypeOK, CallsOK, MutexHeld, Locked, Mine
  <2>2. CASE ~(Code(c) = "ok")
    BY <2>2, <1>a, RecordKinds, OptionsGiven DEF TypeOK, CallsOK, MutexHeld, Locked, Mine
  <2> QED
    BY <2>1, <2>2
<1>5. WireFits'
  <2>1. CASE Code(c) = "ok"
    BY <2>1, <1>a, <1>b, RecordKinds DEF TypeOK, CallsOK, WireFits, KindAt, Asking, Told, Code
  <2>2. CASE ~(Code(c) = "ok")
    BY <2>2, <1>a, RecordKinds, OptionsGiven DEF TypeOK, CallsOK, WireFits, KindAt, Asking,
        Told, Code
  <2> QED
    BY <2>1, <2>2
<1>6. SavesWhatItHolds'
  <2>1. CASE Code(c) = "ok"
    BY <2>1, <1>a, <1>b, RecordKinds DEF TypeOK, CallsOK, SavesWhatItHolds, Saved, Mine, Asking,
        Told, Code, memory, origin
  <2>2. CASE ~(Code(c) = "ok")
    BY <2>2, <1>a, RecordKinds, OptionsGiven DEF TypeOK, CallsOK, SavesWhatItHolds, Saved, Mine,
        Asking, Told, Code, memory, origin
  <2> QED
    BY <2>1, <2>2
<1>7. GivenFits'
  BY OptionsGiven DEF TypeOK, CallsOK, GivenFits
<1>8. WriteIsSafe'
  <2>1. CASE Code(c) = "ok"
    <3>1. PICK r \in Requests :
              /\ r.data = Updated(wire[c].etag, c) /\ r.condition = IfMatch(wire[c].etag)
              /\ wire' = [wire EXCEPT ![c] = r]
      BY <2>1, <1>b
    <3>2. r.condition.match \in Contents /\ AtLeast(r.data, r.condition.match)
      BY <2>1, <1>a, <3>1, UpdatesAdd DEF IfMatch
    <3> QED
      BY <3>1, <3>2 DEF TypeOK, CallsOK, WriteIsSafe, Asking, origin
  <2>2. CASE ~(Code(c) = "ok")
    BY <2>2, RecordKinds DEF TypeOK, CallsOK, WriteIsSafe, Asking, origin
  <2> QED
    BY <2>1, <2>2
<1>9. EffectsCounted'
  <2>1. CASE Code(c) = "ok"
    <3>1. PICK r \in Requests : wire' = [wire EXCEPT ![c] = r]
      BY <2>1, <1>b
    <3>2. r # None /\ "code" \notin DOMAIN r
      BY RecordKinds
    <3> QED
      BY <2>1, <3>1, <3>2 DEF TypeOK, CallsOK, EffectsCounted, Told, Code, tally
  <2>2. CASE ~(Code(c) = "ok")
    BY <2>2, <1>a, RecordKinds DEF TypeOK, CallsOK, CountsOK, EffectsCounted, Told, Code
  <2> QED
    BY <2>1, <2>2
<1> QED
  BY <1>1, <1>2, <1>3, <1>4, <1>5, <1>6, <1>7, <1>8, <1>9 DEF TypeOK

LEMMA AtomicWrittenKeeps ==
    ASSUME ObjectInv, NEW c \in Callers, AtomicWritten(c)
    PROVE  ObjectInv'
<1> USE DEF ObjectInv, AtomicWritten, Received, Again, Heard, Return
<1>a. wire[c] \in Replies
  BY DEF WireFits
<1>b. ASSUME Again(c)
      PROVE  \E r \in Requests : r.kind = "Get" /\ wire' = [wire EXCEPT ![c] = r]
  BY <1>b, Sent, ConditionsGiven DEF Send
<1>1. ObjectsOK' /\ CleanMeansSaved' /\ EntityGrows'
  BY Unaffected DEF memory, control, origin, tally
<1>2. CallsOK'
  <2>1. CASE Again(c)
    BY <2>1, <1>b DEF TypeOK, CallsOK, Stages
  <2>2. CASE ~(Again(c))
    BY <2>2, OptionsGiven DEF TypeOK, CallsOK, Stages
  <2> QED
    BY <2>1, <2>2
<1>3. CountsOK'
  BY ObjectAssumption, RecordKinds DEF TypeOK, CountsOK, WireFits, Code, origin, tally
<1>4. MutexHeld'
  <2>1. CASE Again(c)
    BY <2>1, <1>a, <1>b, RecordKinds DEF TypeOK, CallsOK, MutexHeld, Locked, Mine
  <2>2. CASE ~(Again(c))
    BY <2>2, <1>a, RecordKinds, OptionsGiven DEF TypeOK, CallsOK, MutexHeld, Locked, Mine
  <2> QED
    BY <2>1, <2>2
<1>5. WireFits'
  <2>1. CASE Again(c)
    BY <2>1, <1>a, <1>b, RecordKinds DEF TypeOK, CallsOK, WireFits, KindAt, Asking, Told, Code
  <2>2. CASE ~(Again(c))
    BY <2>2, <1>a, RecordKinds, OptionsGiven DEF TypeOK, CallsOK, WireFits, KindAt, Asking,
        Told, Code
  <2> QED
    BY <2>1, <2>2
<1>6. SavesWhatItHolds'
  <2>1. CASE Again(c)
    BY <2>1, <1>a, <1>b, RecordKinds DEF TypeOK, CallsOK, SavesWhatItHolds, Saved, Mine, Asking,
        Told, Code, memory, origin
  <2>2. CASE ~(Again(c))
    BY <2>2, <1>a, RecordKinds, OptionsGiven DEF TypeOK, CallsOK, SavesWhatItHolds, Saved, Mine,
        Asking, Told, Code, memory, origin
  <2> QED
    BY <2>1, <2>2
<1>7. GivenFits'
  BY OptionsGiven DEF TypeOK, CallsOK, GivenFits
<1>8. WriteIsSafe'
  <2>1. CASE Again(c)
    BY <2>1, <1>a, <1>b, RecordKinds DEF TypeOK, CallsOK, WriteIsSafe, Asking, IfMatch, origin
  <2>2. CASE ~(Again(c))
    BY <2>2, <1>a, RecordKinds, OptionsGiven DEF TypeOK, CallsOK, WriteIsSafe, Asking, IfMatch,
        origin
  <2> QED
    BY <2>1, <2>2
<1>9. EffectsCounted'
  <2>1. CASE Again(c)
    BY <2>1, <1>a, <1>b, RecordKinds DEF TypeOK, CallsOK, CountsOK, EffectsCounted, Told, Code,
        tally
  <2>2. CASE ~(Again(c))
    BY <2>2, <1>a, RecordKinds, OptionsGiven DEF TypeOK, CallsOK, CountsOK, EffectsCounted,
        Told, Code, tally
  <2> QED
    BY <2>1, <2>2
<1> QED
  BY <1>1, <1>2, <1>3, <1>4, <1>5, <1>6, <1>7, <1>8, <1>9 DEF TypeOK

-------------------------------------------------------------------------------
(***************************************************************************)
(* The invariant.                                                          *)
(***************************************************************************)
LEMMA Initially == Init => ObjectInv
<1> SUFFICES ASSUME Init PROVE ObjectInv
  OBVIOUS
<1> USE DEF Init
<1>1. ObjectsOK
  BY ContentsGiven, ObjectAssumption DEF ObjectsOK
<1>2. CallsOK
  BY OptionsGiven DEF CallsOK, Stages
<1>3. CountsOK
  BY ObjectAssumption DEF CountsOK
<1>4. MutexHeld
  BY ObjectAssumption DEF MutexHeld
<1>5. WireFits /\ WriteIsSafe
  BY DEF WireFits, WriteIsSafe, Asking, Told
<1>6. CleanMeansSaved
  BY DEF CleanMeansSaved
<1>7. SavesWhatItHolds /\ EntityGrows
  BY DEF SavesWhatItHolds, EntityGrows
<1>8. GivenFits
  BY OptionsGiven DEF GivenFits
<1>9. EffectsCounted
  BY DEF EffectsCounted
<1> QED
  BY <1>1, <1>2, <1>3, <1>4, <1>5, <1>6, <1>7, <1>8, <1>9 DEF ObjectInv, TypeOK

LEMMA Kept == ObjectInv /\ [Next]_vars => ObjectInv'
<1> SUFFICES ASSUME ObjectInv, [Next]_vars PROVE ObjectInv'
  OBVIOUS
<1>1. ASSUME NEW c \in Callers, Request(c) PROVE ObjectInv'
  BY <1>1, ServeKeeps, LoseReplyKeeps, RequestFailsKeeps DEF Request
<1>2. ASSUME NEW c \in Callers, Step(c) PROVE ObjectInv'
  BY <1>2, SetKeeps, LoadBeginKeeps, LoadAnsweredKeeps, FetchMetadataKeeps,
      MetadataFetchedKeeps,
     SaveKeeps, SaveSkippedKeeps, SaveBeginKeeps, SaveAnsweredKeeps, DeleteBeginKeeps,
     DeleteAnsweredKeeps, CreateOrUpdateKeeps, ExistsAnsweredKeeps, CheckLoadedKeeps, MarkKeeps,
     ChooseKeeps, UpdateKeeps, ApplyKeeps, AtomicUpdateKeeps, AtomicReadKeeps, AtomicWrittenKeeps
  DEF Step
<1>3. ASSUME UNCHANGED vars PROVE ObjectInv'
  BY <1>3, Unaffected DEF vars, memory, control, origin, tally, ObjectInv, TypeOK
<1> QED
  BY <1>1, <1>2, <1>3 DEF Next, Rest

\* ObjectInv holds in every reachable state.
THEOREM Induction == Spec => []ObjectInv
BY Initially, Kept, PTL DEF Spec

\* Type correctness; and ioMu is held exactly while a Load, Save or Delete waits
\* for its reply.
THEOREM TypeCorrect == Spec => []TypeOK
<1>1. ObjectInv => TypeOK
  BY DEF ObjectInv
<1> QED
  BY <1>1, Induction, PTL

\* An Object that is loaded and not modified holds what it was loaded from or saved
\* as, however its calls overlap.
THEOREM CleanObjects == Spec => []CleanMeansSaved
<1>1. ObjectInv => CleanMeansSaved
  BY DEF ObjectInv
<1> QED
  BY <1>1, Induction, PTL

-------------------------------------------------------------------------------
(***************************************************************************)
(* What a write replaces, and what an atomic update applies.               *)
(***************************************************************************)

\* Only a request that is served changes how many writes have taken effect.
LEMMA OnlyServed ==
    ASSUME ObjectInv, [Next]_vars, NEW c \in Callers, Replaces(c)
    PROVE  /\ wire[c].kind = "Put" /\ Answered(wire[c]).reply.code = "ok"
           /\ stored' = Answered(wire[c]).after
<1> USE DEF ObjectInv, TypeOK, CountsOK
<1>1. effects'[c] # effects[c] /\ Asking(c) /\ wire[c].kind = "Put"
  BY DEF Replaces, Asking
<1>2. ASSUME NEW d \in Callers, Serve(d) \/ LoseReply(d)
      PROVE  Answered(wire[c]).reply.code = "ok" /\ stored' = Answered(wire[c]).after
  BY <1>1, <1>2 DEF Serve, LoseReply, Effect, Counted
<1>3. ASSUME NEW d \in Callers, RequestFails(d) \/ Step(d) PROVE FALSE
  <2>1. UNCHANGED effects \/ effects' = [effects EXCEPT ![d] = 0]
    BY <1>3
    DEF RequestFails, Step, Set, LoadBegin, LoadAnswered, LoadDone, LoadRefused, FetchMetadata,
        MetadataFetched, Save, SaveSkipped, SaveBegin, SaveAnswered, DeleteBegin, DeleteAnswered,
        CreateOrUpdate, ExistsAnswered, CheckLoaded, Mark, Choose, Update, Apply, AtomicUpdate,
        AtomicRead, AtomicWritten, Begin, Proceed, Return, tally, control
  <2>2. effects[c] >= 0 /\ effects'[c] > effects[c]
    BY DEF Replaces
  <2> QED
    BY <1>1, <2>1, <2>2
<1>4. ~UNCHANGED vars
  BY <1>1 DEF vars, tally
<1> QED
  BY <1>1, <1>2, <1>3, <1>4 DEF Next, Rest, Request

\* A write that is not loose replaces only what it has grown from.
LEMMA NothingLost ==
    ASSUME ObjectInv, [Next]_vars, NEW c \in Callers, Replaces(c), loose[c] = {}
    PROVE  KeepsUpdates
<1>1. /\ wire[c] \in Requests /\ wire[c].data \in Contents /\ Asking(c)
      /\ wire[c].kind = "Put" /\ stored \in Contents
  BY OnlyServed DEF ObjectInv, WireFits, KindAt, Replaces, Asking, TypeOK, ObjectsOK, CallsOK
<1>2. stored' = wire[c].data /\ PutAllowed(stored, wire[c].condition)
  BY <1>1, OnlyServed, AnswerFits DEF ObjectInv
<1>3. wire[c].condition.noMatch # Star
  BY <1>1, <1>2, ObjectAssumption DEF PutAllowed
<1>4. AtLeast(wire[c].data, stored)
  BY <1>1, <1>2, <1>3, ObjectAssumption DEF ObjectInv, WriteIsSafe, PutAllowed, Named
<1> QED
  BY <1>2, <1>4 DEF KeepsUpdates, AtLeast

\* No write loses an update that is stored, unless it was asked to, saves what Set
\* has put in place of what was loaded, or goes by the ETag of another version.
THEOREM UpdatesAreKept == Spec => KeepsOthersUpdates
<1>1. ObjectInv /\ [Next]_vars =>
          [\A c \in Callers : Replaces(c) /\ loose[c] = {} => KeepsUpdates]_vars
  BY NothingLost
<1> QED
  BY <1>1, Induction, PTL DEF Spec, KeepsOthersUpdates

\* What an AtomicUpdate returns, and how often it was applied by then.
LEMMA AppliedOnce ==
    ASSUME ObjectInv, [Next]_vars, NEW c \in Callers, op[c] = "AtomicUpdate", op'[c] = "none"
    PROVE  IF result'[c] = "ok" THEN effects[c] \in 1..(lost[c] + 1) ELSE effects[c] <= lost[c]
<1> USE DEF ObjectInv, TypeOK, CallsOK, CountsOK
<1>1. at[c] \in {"get", "put"}
  BY DEF WireFits
<1>2. ASSUME NEW d \in Callers, Request(d) PROVE FALSE
  BY <1>2 DEF Request, Serve, LoseReply, RequestFails, control
<1>3. ASSUME NEW d \in Callers, Step(d), d # c PROVE FALSE
  BY <1>3
  DEF Step, Set, LoadBegin, LoadAnswered, LoadDone, LoadRefused, FetchMetadata,
      MetadataFetched, Save, SaveSkipped, SaveBegin, SaveAnswered, DeleteBegin, DeleteAnswered,
      CreateOrUpdate, ExistsAnswered, CheckLoaded, Mark, Choose, Update, Apply, AtomicUpdate,
      AtomicRead, AtomicWritten, Begin, Proceed, Return, control
<1>4. ASSUME Step(c) PROVE AtomicRead(c) \/ AtomicWritten(c)
  BY <1>1, <1>4
  DEF Step, Set, LoadBegin, LoadAnswered, FetchMetadata, MetadataFetched, Save, SaveSkipped,
      SaveBegin, SaveAnswered, DeleteBegin, DeleteAnswered, CreateOrUpdate, ExistsAnswered,
      CheckLoaded, Mark, Choose, Update, Apply, AtomicUpdate, Calling, Waiting, Received
<1>5. CASE AtomicRead(c)
  BY <1>5 DEF AtomicRead, Received, Proceed, Return, EffectsCounted
<1>6. CASE AtomicWritten(c)
  BY <1>6 DEF AtomicWritten, Received, Return, EffectsCounted
<1>7. ~UNCHANGED vars
  BY DEF vars, control
<1> QED
  BY <1>2, <1>3, <1>4, <1>5, <1>6, <1>7 DEF Next, Rest

\* AtomicUpdate applies its function once, and once more at most for each reply
\* that was lost.
THEOREM AtomicUpdatesOnce == Spec => AppliesOnce
<1>1. ObjectInv /\ [Next]_vars =>
          [\A c \in Callers :
               op[c] = "AtomicUpdate" /\ op'[c] = "none" =>
                   IF result'[c] = "ok" THEN effects[c] \in 1..(lost[c] + 1)
                   ELSE effects[c] <= lost[c]]_vars
  BY AppliedOnce
<1> QED
  BY <1>1, Induction, PTL DEF Spec, AppliesOnce
===============================================================================
