------------------------------- MODULE Objects --------------------------------
(***************************************************************************)
(* Object of store/object.go and AtomicUpdateCommand of store/commands.go: *)
(* goroutines read, change and save one key, each through an Object that   *)
(* it owns or shares, while calls to the backend fail or lose their reply. *)
(*                                                                         *)
(* The content of the object is how often each caller's update has been    *)
(* applied to it, so that a lost update shows; its ETag, a hash of the     *)
(* content, is the content itself. A call to the backend is a request, its *)
(* effect and a reply that is used later. The revision of an object is     *)
(* only ever compared with an earlier one, under ioMu, so what is kept is  *)
(* whether it has changed since ioMu's holder noted it.                    *)
(***************************************************************************)
EXTENDS Integers

CONSTANTS
    Callers,      \* goroutines
    Wrappers,     \* Objects, all of one bucket and key
    Uses,         \* the ways callers share them, a set of [Callers -> Wrappers]
    Backends,     \* a subset of {"memory", "s3"}
    Operations,   \* the calls that callers make
    Retries,      \* AtomicUpdateCommand.retries
    MaxCalls,     \* bound: calls of each caller
    MaxFaults,    \* bound: failed requests and lost replies
    None, Unset, Star

Contents == [Callers -> Nat]
INSTANCE Conditions WITH ETags <- Contents

\* Calls to the backend, and what comes back.
Codes == {"ok", "notfound", "notmodified", "precondition", "unsupported", "error"}
Requests ==
    [kind : {"Get", "Head", "Put", "Delete"}, data : Contents \cup {None}, condition : Conditions]
Replies == [code : Codes, etag : Contents \cup {None}]

ASSUME ObjectAssumption ==
    /\ Uses \subseteq [Callers -> Wrappers]
    /\ Backends \subseteq {"memory", "s3"}
    /\ Retries \in Nat /\ MaxCalls \in Nat /\ MaxFaults \in Nat
    /\ None \notin Callers \cup Contents \cup Requests \cup Replies
    /\ Unset # Star /\ {Unset, Star} \cap (Contents \cup {None}) = {}

VARIABLES
    stored,       \* what the backend holds, or None
    backend,      \* which one it is
    uses,         \* the Object each caller uses
    entity,       \* ObjectState.entity
    etag,         \* ObjectState.metadata.ETag, None for ""
    loaded,       \* flagLoaded
    modified,     \* flagModified
    ioMu,         \* who holds Object.ioMu
    op,           \* the call of each caller, or "none"
    at,           \* how far it is
    existed,      \* what Exists told CreateOrUpdate
    given,        \* the caller's ObjectOptions
    overtaken,    \* Objects whose revision has changed since ioMu's holder noted it
    tries,        \* AtomicUpdate's attempts
    wire,         \* the request of each caller, or its reply, or None
    calls,        \* calls so far
    faults,       \* faults so far
    source,       \* history: the content that each entity was loaded from or saved as
    adopted,      \* history: Objects that have taken over an ETag without its entity
    replaced,     \* history: Objects whose entity was replaced by Set
    loose,        \* history: why the call's write may replace more than it read
    effects,      \* history: writes of the call that took effect
    lost,         \* history: replies that the call lost
    result        \* history: what the call returned

memory == <<entity, etag, loaded, modified>>
control == <<op, at, existed, given, tries, calls>>
origin == <<source, adopted, replaced, loose>>
tally == <<effects, lost, result>>
vars == <<stored, backend, uses, memory, ioMu, control, overtaken, wire, faults, origin, tally>>

Zero == [c \in Callers |-> 0]
Updated(e, c) == [e EXCEPT ![c] = @ + 1]
Mine(c) == uses[c]

-------------------------------------------------------------------------------
(***************************************************************************)
(* Requests, and how the backends answer them.                             *)
(***************************************************************************)
Read(kind, condition) == [kind |-> kind, data |-> None, condition |-> condition]
Write(data, condition) == [kind |-> "Put", data |-> data, condition |-> condition]
Removal(condition) == [kind |-> "Delete", data |-> None, condition |-> condition]
Reply(code, e) == [code |-> code, etag |-> e]

\* What is stored after a request, and the reply.
Answer(after, code, e) == [after |-> after, reply |-> Reply(code, e)]
Refused(code) == Answer(stored, code, None)

MemoryGet(r) ==
    IF stored = None THEN Refused("notfound")
    ELSE IF r.condition.noMatch = stored THEN Refused("notmodified")
    ELSE Answer(stored, "ok", stored)
MemoryHead(r) == IF stored = None THEN Refused("notfound") ELSE Answer(stored, "ok", stored)
MemoryPut(r) ==
    IF PutAllowed(stored, r.condition) THEN Answer(r.data, "ok", r.data)
    ELSE Refused("precondition")
MemoryDelete(r) ==
    IF ~DeleteAllowed(stored, r.condition) THEN Refused("precondition")
    ELSE IF stored = None THEN Refused("notfound")
    ELSE Answer(None, "ok", None)

\* S3 answers reads alike; it has no If-Match:* for writes, says NoSuchKey to an
\* If-Match on a missing key, and deletes what is not there.
S3Get(r) == MemoryGet(r)
S3Head(r) == MemoryHead(r)
S3Put(r) ==
    IF r.condition.match = Star THEN Refused("unsupported")
    ELSE IF Named(r.condition.match) /\ stored = None THEN Refused("notfound")
    ELSE MemoryPut(r)
S3Delete(r) ==
    IF ~Named(r.condition.match) THEN Answer(None, "ok", None)
    ELSE IF stored = None THEN Refused("notfound")
    ELSE MemoryDelete(r)

Answered(r) ==
    CASE r.kind = "Get" -> IF backend = "s3" THEN S3Get(r) ELSE MemoryGet(r)
      [] r.kind = "Head" -> IF backend = "s3" THEN S3Head(r) ELSE MemoryHead(r)
      [] r.kind = "Put" -> IF backend = "s3" THEN S3Put(r) ELSE MemoryPut(r)
      [] r.kind = "Delete" -> IF backend = "s3" THEN S3Delete(r) ELSE MemoryDelete(r)

Asking(c) == wire[c] # None /\ "kind" \in DOMAIN wire[c]
Told(c) == wire[c] # None /\ "code" \in DOMAIN wire[c]

Effect(c) == stored' = Answered(wire[c]).after
Counted(c) ==
    effects' = IF wire[c].kind \in {"Put", "Delete"} /\ Answered(wire[c]).reply.code = "ok"
               THEN [effects EXCEPT ![c] = @ + 1] ELSE effects

Serve(c) ==
    /\ Asking(c)
    /\ Effect(c) /\ Counted(c)
    /\ wire' = [wire EXCEPT ![c] = Answered(wire[c]).reply]
    /\ UNCHANGED <<backend, uses, memory, ioMu, control, overtaken, faults, origin, lost, result>>

\* The reply is lost; the error is retriable and the request is issued again.
LoseReply(c) ==
    /\ Asking(c) /\ faults < MaxFaults
    /\ wire[c].kind \in {"Put", "Delete"} /\ Answered(wire[c]).reply.code = "ok"
    /\ Effect(c) /\ Counted(c)
    /\ lost' = [lost EXCEPT ![c] = @ + 1]
    /\ faults' = faults + 1
    /\ UNCHANGED <<backend, uses, memory, ioMu, control, overtaken, wire, origin, result>>

\* The error is not retriable, or the attempts are used up.
RequestFails(c) ==
    /\ Asking(c) /\ faults < MaxFaults
    /\ wire' = [wire EXCEPT ![c] = Reply("error", None)]
    /\ faults' = faults + 1
    /\ UNCHANGED <<stored, backend, uses, memory, ioMu, control, overtaken, origin, tally>>

-------------------------------------------------------------------------------
(***************************************************************************)
(* Calls: how they begin, go on and return.                                *)
(***************************************************************************)
NoOptions == [force |-> FALSE, condition |-> Unconditional]
Forced == [force |-> TRUE, condition |-> Unconditional]
OnlyIf(condition) == [force |-> FALSE, condition |-> condition]

Calling(c, operation) == op[c] = "none" /\ operation \in Operations /\ calls[c] < MaxCalls

Begin(c, operation, stage, options) ==
    /\ op' = [op EXCEPT ![c] = operation]
    /\ at' = [at EXCEPT ![c] = stage]
    /\ given' = [given EXCEPT ![c] = options]
    /\ calls' = [calls EXCEPT ![c] = @ + 1]
    /\ result' = [result EXCEPT ![c] = "none"]
    /\ UNCHANGED <<existed, tries, effects, lost>>

Proceed(c, stage) ==
    /\ at' = [at EXCEPT ![c] = stage]
    /\ UNCHANGED <<op, existed, given, tries, calls, tally>>

Return(c, code) ==
    /\ op' = [op EXCEPT ![c] = "none"]
    /\ at' = [at EXCEPT ![c] = "idle"]
    /\ existed' = [existed EXCEPT ![c] = FALSE]
    /\ given' = [given EXCEPT ![c] = NoOptions]
    /\ tries' = [tries EXCEPT ![c] = 0]
    /\ result' = [result EXCEPT ![c] = IF op[c] = "AtomicUpdate" THEN code ELSE "none"]
    /\ effects' = [effects EXCEPT ![c] = 0]
    /\ lost' = [lost EXCEPT ![c] = 0]
    /\ UNCHANGED calls

Send(c, request) == wire' = [wire EXCEPT ![c] = request]
Heard(c) == wire' = [wire EXCEPT ![c] = None]
Waiting(c, stage) == at[c] = stage /\ wire[c] = None
Received(c, stage) == at[c] = stage /\ Told(c)
Code(c) == wire[c].code

LockAlways(c) ==  \* faulty: does not wait for the other holder
    /\ ioMu' = [ioMu EXCEPT ![Mine(c)] = c]
    /\ overtaken' = overtaken \ {Mine(c)}
Lock(c) ==
    /\ ioMu[Mine(c)] = None
    /\ ioMu' = [ioMu EXCEPT ![Mine(c)] = c]
    /\ overtaken' = overtaken \ {Mine(c)}
Unlock(c) ==
    /\ ioMu' = [ioMu EXCEPT ![Mine(c)] = None]
    /\ overtaken' = overtaken \ {Mine(c)}
NewRevision(o) ==
    /\ overtaken' = IF ioMu[o] = None THEN overtaken ELSE overtaken \cup {o}
    /\ UNCHANGED ioMu
Overtaken(c) == Mine(c) \in overtaken

-------------------------------------------------------------------------------
(***************************************************************************)
(* The operations of Object.                                               *)
(***************************************************************************)
Set(c) ==
    LET o == Mine(c)
    IN  /\ Calling(c, "Set")
        /\ calls' = [calls EXCEPT ![c] = @ + 1]
        /\ entity' = [entity EXCEPT ![o] = Updated(Zero, c)]
        /\ modified' = [modified EXCEPT ![o] = TRUE]
        /\ NewRevision(o)
        /\ replaced' = replaced \cup {o}
        /\ UNCHANGED <<stored, backend, uses, etag, loaded, op, at, existed, given, tries,
                       wire, faults, source, adopted, loose, tally>>

\* Load by itself, where a caller may ask for a newer version only, or within
\* CreateOrUpdate and Update.
LoadConditions(c) ==
    {Unconditional} \cup
    {[match |-> Unset, noMatch |-> e] : e \in IF op[c] = "none" THEN {etag[Mine(c)]} \ {None} ELSE {}}
LoadBegin(c) ==
    /\ \/ Calling(c, "Load") /\ Begin(c, "Load", "load", NoOptions)
       \/ Waiting(c, "load") /\ Proceed(c, "load")
    /\ Lock(c)
    /\ \E condition \in LoadConditions(c) : Send(c, Read("Get", condition))
    /\ UNCHANGED <<stored, backend, uses, memory, faults, origin>>

LoadApplies(c) == Code(c) = "ok" /\ ~Overtaken(c)
LoadRefused(c) ==
    /\ Return(c, IF Code(c) = "ok" THEN "precondition" ELSE Code(c))
    /\ UNCHANGED <<memory, source, replaced>>
LoadDone(c) ==
    LET o == Mine(c)
    IN  /\ entity' = [entity EXCEPT ![o] = wire[c].etag]
        /\ etag' = [etag EXCEPT ![o] = wire[c].etag]
        /\ loaded' = [loaded EXCEPT ![o] = TRUE]
        /\ modified' = [modified EXCEPT ![o] = FALSE]
        /\ source' = [source EXCEPT ![o] = wire[c].etag]
        /\ replaced' = replaced \ {o}
        /\ CASE op[c] = "Load" -> Return(c, "ok")
             [] op[c] = "CreateOrUpdate" -> Proceed(c, "mark")
             [] OTHER -> Proceed(c, "apply")
LoadAnswered(c) ==
    /\ Received(c, "load")
    /\ IF LoadApplies(c) THEN LoadDone(c) ELSE LoadRefused(c)
    /\ Heard(c) /\ Unlock(c)
    /\ UNCHANGED <<stored, backend, uses, faults, adopted, loose>>

\* The metadata of the object become those of the backend; ioMu is not taken.
Adopt(c) ==
    LET o == Mine(c)
    IN  IF Code(c) = "ok"
        THEN /\ etag' = [etag EXCEPT ![o] = wire[c].etag]
             /\ adopted' = adopted \cup {o}
             /\ UNCHANGED <<entity, loaded, modified>>
        ELSE UNCHANGED <<memory, adopted>>

FetchMetadata(c) ==
    /\ Calling(c, "FetchMetadata") /\ Begin(c, "FetchMetadata", "head", NoOptions)
    /\ Send(c, Read("Head", Unconditional))
    /\ UNCHANGED <<stored, backend, uses, memory, ioMu, overtaken, faults, origin>>

MetadataFetched(c) ==
    /\ Received(c, "head")
    /\ Adopt(c)
    /\ Return(c, Code(c))
    /\ Heard(c)
    /\ UNCHANGED <<stored, backend, uses, ioMu, overtaken, faults, source, replaced, loose>>

\* Only what is changed is saved, unless the caller insists or gives a condition.
NothingToSave(o, options) ==
    ~modified[o] /\ ~options.force /\ options.condition = Unconditional
SaveConditionOnlyNew(o, options) ==  \* faulty: what exists is written unconditionally
    IF options.force \/ options.condition # Unconditional THEN options.condition
    ELSE IF etag[o] # None THEN Unconditional ELSE IfNotExists
SaveCondition(o, options) ==
    IF options.force \/ options.condition # Unconditional THEN options.condition
    ELSE IF etag[o] # None THEN IfMatch(etag[o]) ELSE IfNotExists
Looseness(c, o) ==
    LET match == SaveCondition(o, given[c]).match
    IN  (IF op[c] = "Save" /\ given[c] # NoOptions THEN {"asked"} ELSE {})
        \cup (IF o \in replaced THEN {"replaced"} ELSE {})
        \cup (IF Named(match) /\ match # source[o] THEN {"foreign"} ELSE {})

SaveSkipped(c) ==
    /\ Waiting(c, "save") /\ ioMu[Mine(c)] = None
    /\ NothingToSave(Mine(c), given[c])
    /\ Return(c, "ok")
    /\ UNCHANGED <<stored, backend, uses, memory, ioMu, overtaken, wire, faults, origin>>

SaveBegin(c) ==
    LET o == Mine(c)
    IN  /\ Waiting(c, "save") /\ ~NothingToSave(o, given[c])
        /\ Lock(c)
        /\ Send(c, Write(entity[o], SaveCondition(o, given[c])))
        /\ loose' = [loose EXCEPT ![c] = Looseness(c, o)]
        /\ UNCHANGED <<stored, backend, uses, memory, control, faults, source, adopted, replaced,
                       tally>>

SaveDoneAll(c) ==  \* faulty: whatever was set meanwhile counts as saved
    LET o == Mine(c)
    IN  /\ etag' = [etag EXCEPT ![o] = wire[c].etag]
        /\ loaded' = [loaded EXCEPT ![o] = TRUE]
        /\ modified' = [modified EXCEPT ![o] = FALSE]
        /\ source' = [source EXCEPT ![o] = wire[c].etag]
        /\ replaced' = IF Overtaken(c) THEN replaced ELSE replaced \ {o}
        /\ UNCHANGED entity
\* What was set while the write was under way stays modified.
SaveDone(c) ==
    LET o == Mine(c)
    IN  /\ etag' = [etag EXCEPT ![o] = wire[c].etag]
        /\ loaded' = [loaded EXCEPT ![o] = TRUE]
        /\ modified' = [modified EXCEPT ![o] = @ /\ Overtaken(c)]
        /\ source' = [source EXCEPT ![o] = wire[c].etag]
        /\ replaced' = IF Overtaken(c) THEN replaced ELSE replaced \ {o}
        /\ UNCHANGED entity
SaveAnswered(c) ==
    /\ Received(c, "save")
    /\ IF Code(c) = "ok" THEN SaveDone(c) ELSE UNCHANGED <<memory, source, replaced>>
    /\ Return(c, Code(c))
    /\ loose' = [loose EXCEPT ![c] = {}]
    /\ Heard(c) /\ Unlock(c)
    /\ UNCHANGED <<stored, backend, uses, faults, adopted>>

Save(c) ==
    /\ Calling(c, "Save")
    /\ \E options \in {NoOptions, Forced, OnlyIf([match |-> Star, noMatch |-> Unset])} :
           Begin(c, "Save", "save", options)
    /\ UNCHANGED <<stored, backend, uses, memory, ioMu, overtaken, wire, faults, origin>>

\* The conditions are the caller's only: the ETag that was loaded is not one.
DeleteBegin(c) ==
    /\ Calling(c, "Delete") /\ Begin(c, "Delete", "delete", NoOptions)
    /\ Lock(c)
    /\ \E condition \in {Unconditional} \cup {IfMatch(e) : e \in {etag[Mine(c)]} \ {None}} :
           Send(c, Removal(condition))
    /\ UNCHANGED <<stored, backend, uses, memory, faults, origin>>

DeleteDone(c) ==
    LET o == Mine(c)
    IN  /\ etag' = [etag EXCEPT ![o] = None]
        /\ entity' = IF Overtaken(c) THEN entity ELSE [entity EXCEPT ![o] = Zero]
        /\ loaded' = [loaded EXCEPT ![o] = FALSE]
        /\ modified' = [modified EXCEPT ![o] = Overtaken(c)]
        /\ source' = [source EXCEPT ![o] = None]
        /\ replaced' = IF Overtaken(c) THEN replaced ELSE replaced \ {o}
DeleteAnswered(c) ==
    /\ Received(c, "delete")
    /\ IF Code(c) = "ok" THEN DeleteDone(c) ELSE UNCHANGED <<memory, source, replaced>>
    /\ Return(c, Code(c))
    /\ loose' = [loose EXCEPT ![c] = {}]
    /\ Heard(c) /\ Unlock(c)
    /\ UNCHANGED <<stored, backend, uses, faults, adopted>>

-------------------------------------------------------------------------------
(***************************************************************************)
(* CreateOrUpdate: Exists, Load if there is something and nothing has been *)
(* loaded, then Save with a condition chosen from the state at that time.  *)
(***************************************************************************)
CreateOrUpdate(c) ==
    /\ Calling(c, "CreateOrUpdate") /\ Begin(c, "CreateOrUpdate", "exists", NoOptions)
    /\ Send(c, Read("Head", Unconditional))
    /\ UNCHANGED <<stored, backend, uses, memory, ioMu, overtaken, faults, origin>>

ExistsAnswered(c) ==
    /\ Received(c, "exists")
    /\ Adopt(c)
    /\ IF Code(c) \in {"ok", "notfound"}
       THEN /\ existed' = [existed EXCEPT ![c] = Code(c) = "ok"]
            /\ at' = [at EXCEPT ![c] = "check"]
            /\ UNCHANGED <<op, given, tries, calls, tally>>
       ELSE Return(c, Code(c))
    /\ Heard(c)
    /\ UNCHANGED <<stored, backend, uses, ioMu, overtaken, faults, source, replaced, loose>>

CheckLoaded(c) ==
    /\ at[c] = "check"
    /\ Proceed(c, IF existed[c] /\ ~loaded[Mine(c)] THEN "load" ELSE "mark")
    /\ UNCHANGED <<stored, backend, uses, memory, ioMu, overtaken, wire, faults, origin>>

\* The entity is marked without a new revision.
Mark(c) ==
    /\ at[c] = "mark"
    /\ modified' = [modified EXCEPT ![Mine(c)] = TRUE]
    /\ Proceed(c, "choose")
    /\ UNCHANGED <<stored, backend, uses, entity, etag, loaded, ioMu, overtaken, wire, faults,
                   origin>>

ChosenOptions(c) ==
    IF ~existed[c] THEN OnlyIf(IfNotExists)
    ELSE IF etag[Mine(c)] # None THEN OnlyIf(IfMatch(etag[Mine(c)]))
    ELSE NoOptions
Choose(c) ==
    /\ at[c] = "choose"
    /\ at' = [at EXCEPT ![c] = "save"]
    /\ given' = [given EXCEPT ![c] = ChosenOptions(c)]
    /\ UNCHANGED <<stored, backend, uses, memory, ioMu, op, existed, tries, calls, overtaken,
                   wire, faults, origin, tally>>

-------------------------------------------------------------------------------
(***************************************************************************)
(* Update: Load if nothing has been loaded, apply the function under mu,   *)
(* and Save with WithAutocommit.                                           *)
(***************************************************************************)
Update(c) ==
    /\ \E operation \in {"Update", "UpdateAndSave"} :
           /\ Calling(c, operation)
           /\ Begin(c, operation, IF loaded[Mine(c)] THEN "apply" ELSE "load", NoOptions)
    /\ UNCHANGED <<stored, backend, uses, memory, ioMu, overtaken, wire, faults, origin>>

Apply(c) ==
    LET o == Mine(c)
    IN  /\ at[c] = "apply"
        /\ entity' = [entity EXCEPT ![o] = Updated(@, c)]
        /\ modified' = [modified EXCEPT ![o] = TRUE]
        /\ NewRevision(o)
        /\ IF op[c] = "Update" THEN Return(c, "ok") ELSE Proceed(c, "save")
        /\ UNCHANGED <<stored, backend, uses, etag, loaded, wire, faults, origin>>

-------------------------------------------------------------------------------
(***************************************************************************)
(* AtomicUpdateCommand: read, apply, write if nothing has changed, again.  *)
(***************************************************************************)
AtomicUpdate(c) ==
    /\ Calling(c, "AtomicUpdate") /\ Begin(c, "AtomicUpdate", "get", NoOptions)
    /\ Send(c, Read("Get", Unconditional))
    /\ UNCHANGED <<stored, backend, uses, memory, ioMu, overtaken, faults, origin>>

AtomicRead(c) ==
    /\ Received(c, "get")
    /\ IF Code(c) = "ok"
       THEN /\ Send(c, Write(Updated(wire[c].etag, c), IfMatch(wire[c].etag)))
            /\ Proceed(c, "put")
       ELSE Heard(c) /\ Return(c, Code(c))
    /\ UNCHANGED <<stored, backend, uses, memory, ioMu, overtaken, faults, origin>>

AgainAlways(c) == tries[c] < Retries  \* faulty: goes on after a success
Again(c) == Code(c) = "precondition" /\ tries[c] < Retries
AtomicWritten(c) ==
    /\ Received(c, "put")
    /\ IF Again(c)
       THEN /\ tries' = [tries EXCEPT ![c] = @ + 1]
            /\ at' = [at EXCEPT ![c] = "get"]
            /\ Send(c, Read("Get", Unconditional))
            /\ UNCHANGED <<op, existed, given, calls, tally>>
       ELSE Heard(c) /\ Return(c, Code(c))
    /\ UNCHANGED <<stored, backend, uses, memory, ioMu, overtaken, faults, origin>>

-------------------------------------------------------------------------------
Init ==
    /\ stored \in {None, Zero}
    /\ backend \in Backends
    /\ uses \in Uses
    /\ entity = [o \in Wrappers |-> Zero]
    /\ etag = [o \in Wrappers |-> None]
    /\ loaded = [o \in Wrappers |-> FALSE]
    /\ modified = [o \in Wrappers |-> FALSE]
    /\ ioMu = [o \in Wrappers |-> None]
    /\ op = [c \in Callers |-> "none"]
    /\ at = [c \in Callers |-> "idle"]
    /\ existed = [c \in Callers |-> FALSE]
    /\ given = [c \in Callers |-> NoOptions]
    /\ overtaken = {}
    /\ tries = [c \in Callers |-> 0]
    /\ wire = [c \in Callers |-> None]
    /\ calls = [c \in Callers |-> 0]
    /\ faults = 0
    /\ source = [o \in Wrappers |-> None]
    /\ adopted = {} /\ replaced = {}
    /\ loose = [c \in Callers |-> {}]
    /\ effects = [c \in Callers |-> 0]
    /\ lost = [c \in Callers |-> 0]
    /\ result = [c \in Callers |-> "none"]

Finished == \A c \in Callers : op[c] = "none"
Rest == Finished /\ UNCHANGED vars

Request(c) == Serve(c) \/ LoseReply(c) \/ RequestFails(c)
Step(c) ==
    \/ Set(c) \/ LoadBegin(c) \/ LoadAnswered(c)
    \/ FetchMetadata(c) \/ MetadataFetched(c)
    \/ Save(c) \/ SaveSkipped(c) \/ SaveBegin(c) \/ SaveAnswered(c)
    \/ DeleteBegin(c) \/ DeleteAnswered(c)
    \/ CreateOrUpdate(c) \/ ExistsAnswered(c) \/ CheckLoaded(c) \/ Mark(c) \/ Choose(c)
    \/ Update(c) \/ Apply(c)
    \/ AtomicUpdate(c) \/ AtomicRead(c) \/ AtomicWritten(c)

Next == \/ \E c \in Callers : Request(c) \/ Step(c)
        \/ Rest

Spec == Init /\ [][Next]_vars

-------------------------------------------------------------------------------
(***************************************************************************)
(* Properties.                                                             *)
(***************************************************************************)
Options == [force : BOOLEAN, condition : Conditions]
Stages == {"idle", "load", "head", "save", "delete", "exists", "check", "mark", "choose",
           "apply", "get", "put"}
Locked == {"load", "save", "delete"}

ObjectsOK ==
    /\ stored \in Contents \cup {None}
    /\ backend \in Backends /\ uses \in Uses
    /\ entity \in [Wrappers -> Contents]
    /\ etag \in [Wrappers -> Contents \cup {None}]
    /\ loaded \in [Wrappers -> BOOLEAN] /\ modified \in [Wrappers -> BOOLEAN]
    /\ source \in [Wrappers -> Contents \cup {None}]
    /\ overtaken \subseteq Wrappers
    /\ adopted \subseteq Wrappers /\ replaced \subseteq Wrappers
CallsOK ==
    /\ op \in [Callers -> Operations \cup {"none"}]
    /\ at \in [Callers -> Stages]
    /\ existed \in [Callers -> BOOLEAN]
    /\ given \in [Callers -> Options]
    /\ wire \in [Callers -> {None} \cup Requests \cup Replies]
CountsOK ==
    /\ tries \in [Callers -> 0..Retries]
    /\ calls \in [Callers -> 0..MaxCalls] /\ faults \in 0..MaxFaults
    /\ loose \in [Callers -> SUBSET {"asked", "replaced", "foreign"}]
    /\ effects \in [Callers -> Nat] /\ lost \in [Callers -> Nat]
    /\ result \in [Callers -> Codes \cup {"none"}]
MutexHeld ==
    /\ ioMu \in [Wrappers -> Callers \cup {None}]
    /\ \A o \in Wrappers, c \in Callers :
           ioMu[o] = c <=> Mine(c) = o /\ at[c] \in Locked /\ wire[c] # None

(* Types; and ioMu is held exactly while a caller waits for the reply to a *)
(* Load, Save or Delete of that object.                                    *)
TypeOK == ObjectsOK /\ CallsOK /\ CountsOK /\ MutexHeld

(* An object that is loaded and not modified holds the content it was      *)
(* loaded from or saved as, whatever Set, Update, Save and replies have    *)
(* overlapped; and its ETag is of that content, unless Exists,             *)
(* FetchMetadata or CreateOrUpdate have been called on it.                 *)
CleanMeansSaved ==
    \A o \in Wrappers :
        /\ loaded[o] /\ ~modified[o] => entity[o] = source[o]
        /\ o \notin adopted => etag[o] = source[o]

Replaces(c) == wire[c] # None /\ "kind" \in DOMAIN wire[c] /\ wire[c].kind = "Put"
               /\ effects'[c] > effects[c] /\ stored # None
KeepsUpdates == \A d \in Callers : stored'[d] >= stored[d]

(* A write that takes effect loses no update that is stored, unless it was *)
(* asked to (Force, a condition of the caller's), saves what Set has put   *)
(* in place of what was loaded, or goes by the ETag of another version     *)
(* than the one its entity was loaded from.                                *)
KeepsOthersUpdates ==
    [][\A c \in Callers : Replaces(c) /\ loose[c] = {} => KeepsUpdates]_vars

(* README.md:32: "a stale save reports a conflict instead of losing        *)
(* another writer's changes".                                              *)
StaleSavesConflict ==
    [][\A c \in Callers : Replaces(c) /\ loose[c] \subseteq {"foreign"} => KeepsUpdates]_vars

(* AtomicUpdate applies its function once, and once more at most for each  *)
(* reply that was lost; if it returns an error, then only writes whose     *)
(* replies were lost have been applied.                                    *)
AppliesOnce ==
    [][\A c \in Callers :
         op[c] = "AtomicUpdate" /\ op'[c] = "none" =>
             IF result'[c] = "ok" THEN effects[c] \in 1..(lost[c] + 1)
             ELSE effects[c] <= lost[c]]_vars
===============================================================================
