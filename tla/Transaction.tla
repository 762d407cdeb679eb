------------------------------ MODULE Transaction ------------------------------
(***************************************************************************)
(* StorageTransaction of store/transaction.go: goroutines stage puts and   *)
(* deletes in a transaction, prepare it and publish it to a backend that   *)
(* other transactions and other writers change at the same time.           *)
(*                                                                         *)
(* A call that holds the transaction's mutex throughout is one action,     *)
(* unless it does several storage calls: then there is one action for each *)
(* and holder says who has the mutex in between. Calls that are refused    *)
(* change nothing and are left out. Hooks only succeed or fail.            *)
(***************************************************************************)
EXTENDS Integers, Sequences, Conditions

CONSTANTS
    Goroutines,   \* goroutines that use transactions
    Txs,          \* transactions
    Keys,         \* object URIs
    Settings,     \* the circumstances a behaviour may have, see below
    MaxFaults,    \* bound: failed storage calls
    Unknown       \* metadata that is not cached

Operations == {"Get", "Head", "Put", "PutIf", "Delete", "DeleteIf", "Prepare",
               "Commit", "Rollback"}

(***************************************************************************)
(*   txOf         : the transaction of each goroutine, None if it has none *)
(*   atomicBatch  : whether the backend implements AtomicBatchStorage      *)
(*   calls        : the operations that goroutines call                    *)
(*   prepareFirst : whether they only commit what they have prepared       *)
(*   outsideKeys  : keys that writers without a transaction change         *)
(*   failingHooks : events whose hooks may fail                            *)
(*   faultKinds   : when a storage call may fail, before or after it took  *)
(*                  effect                                                 *)
(***************************************************************************)
ASSUME TransactionAssumption ==
    /\ Settings \subseteq
           [txOf : [Goroutines -> Txs \cup {None}], atomicBatch : BOOLEAN,
            calls : SUBSET Operations, prepareFirst : BOOLEAN, outsideKeys : SUBSET Keys,
            failingHooks : SUBSET {"pre-prepare", "post-prepare", "pre-commit"},
            faultKinds : SUBSET {"before", "after"}]
    /\ MaxFaults \in Nat
    /\ Unknown \notin ETags \cup {None}
    /\ None \notin Goroutines \cup Txs

VARIABLES
    setting,      \* one of Settings
    object,       \* the backend: what each key holds
    partial,      \* transactions with WithAllowPartialCommit(true)
    state,        \* tx.state
    closed,       \* tx.closed
    expired,      \* whether tx.timeout has passed
    ops,          \* tx.operations, per key
    order,        \* tx.opOrder
    metadata,     \* tx.metadata, per key
    fetched,      \* the keys of tx.items
    holder,       \* who holds tx.mutex between two storage calls
    pc,           \* where each goroutine's call is, or "idle"
    committing,   \* whether the call is Commit
    prepared,     \* whether the goroutine's last Prepare returned nil
    todo,         \* keys that Prepare has still to validate
    next,         \* index in order of the next operation to apply
    failed,       \* commitErr # nil
    reading,      \* key and value of a Get
    faults,       \* failed storage calls so far
    seen,         \* history: the value a transaction saw in each key
    applied,      \* history: keys a transaction has published
    promised,     \* history: keys staged when the goroutine called Commit
    outcome       \* history: what the goroutine's last Commit returned

staging == <<ops, order>>
cache == <<metadata, fetched>>
status == <<setting, partial, state, closed, expired>>
call == <<pc, committing, prepared, todo, next, failed, reading>>
history == <<seen, applied, promised, outcome>>
vars == <<object, status, staging, cache, holder, call, faults, history>>

Ops == [type : {"put"}, data : ETags, cond : Conditions]
       \cup [type : {"delete"}, data : {None}, cond : Conditions]
\* No record of an operation is mistaken for the absence of one.
ASSUME OperationAssumption == None \notin Ops

States == {"active", "preparing", "committing", "committed", "rolled-back", "aborted"}
Steps == {"idle", "get", "cache", "prepare", "validate", "relock", "publish", "undo"}
Unread == <<None, None>>

Tx(g) == setting.txOf[g]
Free(t) == holder[t] = None
Staged(t) == {k \in Keys : ops[t][k] # None}
InOrder(t) == {order[t][i] : i \in 1..Len(order[t])}
Calling(g, operation) == pc[g] = "idle" /\ Tx(g) # None /\ operation \in setting.calls
At(g, s) == pc[g] = s

Init ==
    /\ setting \in Settings
    /\ object \in [Keys -> ETags \cup {None}]
    /\ partial \in SUBSET Txs
    /\ state = [t \in Txs |-> "active"]
    /\ closed = [t \in Txs |-> FALSE]
    /\ expired = [t \in Txs |-> FALSE]
    /\ ops = [t \in Txs |-> [k \in Keys |-> None]]
    /\ order = [t \in Txs |-> << >>]
    /\ metadata = [t \in Txs |-> [k \in Keys |-> Unknown]]
    /\ fetched = [t \in Txs |-> {}]
    /\ holder = [t \in Txs |-> None]
    /\ pc = [g \in Goroutines |-> "idle"]
    /\ committing = [g \in Goroutines |-> FALSE]
    /\ prepared = [g \in Goroutines |-> FALSE]
    /\ todo = [g \in Goroutines |-> {}]
    /\ next = [g \in Goroutines |-> 0]
    /\ failed = [g \in Goroutines |-> FALSE]
    /\ reading = [g \in Goroutines |-> Unread]
    /\ faults = 0
    /\ seen = [t \in Txs |-> [k \in Keys |-> Unknown]]
    /\ applied = [t \in Txs |-> {}]
    /\ promised = [g \in Goroutines |-> {}]
    /\ outcome = [g \in Goroutines |-> "none"]

-------------------------------------------------------------------------------
(***************************************************************************)
(* Staging: Put and Delete, one critical section each.                     *)
(***************************************************************************)

\* checkState and the check of tx.state.
Accepting(t) == Free(t) /\ ~closed[t] /\ ~expired[t] /\ state[t] = "active"

\* lookupForCondition: the staged value, the cached one, or the backend's.
Existing(t, k) ==
    IF ops[t][k] # None THEN ops[t][k].data
    ELSE IF metadata[t][k] # Unknown THEN metadata[t][k]
    ELSE object[k]
LookUpCachesAbsence(t, k) ==  \* faulty: caches the zero Metadata of an absent object
    /\ metadata' = IF ops[t][k] = None /\ metadata[t][k] = Unknown
                   THEN [metadata EXCEPT ![t][k] = object[k]] ELSE metadata
    /\ UNCHANGED fetched
LookUp(t, k) ==
    LET fresh == ops[t][k] = None /\ metadata[t][k] = Unknown
    IN  /\ metadata' = IF fresh /\ object[k] # None
                       THEN [metadata EXCEPT ![t][k] = object[k]] ELSE metadata
        /\ UNCHANGED fetched

PutConditionGiven(t, k, c) == c  \* faulty: no condition unless the caller gives one
\* The condition of the staged operation when the caller gave c.
PutCondition(t, k, c) ==
    IF c # Unconditional THEN c
    ELSE IF ops[t][k] # None THEN ops[t][k].cond
    ELSE IF Existing(t, k) # None THEN IfMatch(Existing(t, k))
    ELSE IfNotExists
DeleteCondition(t, k, c) ==
    IF c # Unconditional THEN c
    ELSE IF ops[t][k] # None THEN ops[t][k].cond
    ELSE IfMatch(Existing(t, k))

Stage(t, k, op) ==
    /\ ops' = [ops EXCEPT ![t][k] = op]
    /\ order' = IF k \in InOrder(t) THEN order ELSE [order EXCEPT ![t] = Append(@, k)]

\* The caller relies on what it named, or on what the transaction found.
Rely(t, k, c) ==
    seen' = IF Named(c.match) THEN [seen EXCEPT ![t][k] = c.match]
            ELSE IF c.noMatch = Star THEN [seen EXCEPT ![t][k] = None]
            ELSE IF ops[t][k] = None THEN [seen EXCEPT ![t][k] = Existing(t, k)]
            ELSE seen

Put(g, k, v, c) ==
    LET t == Tx(g)
    IN  /\ Calling(g, IF c = Unconditional THEN "Put" ELSE "PutIf") /\ Accepting(t)
        /\ LookUp(t, k)
        /\ IF PutAllowed(Existing(t, k), c)
           THEN /\ Stage(t, k, [type |-> "put", data |-> v, cond |-> PutCondition(t, k, c)])
                /\ Rely(t, k, c)
           ELSE UNCHANGED <<staging, seen>>
        /\ UNCHANGED <<object, status, holder, call, faults, applied, promised, outcome>>

Delete(g, k, c) ==
    LET t == Tx(g)
    IN  /\ Calling(g, IF c = Unconditional THEN "Delete" ELSE "DeleteIf") /\ Accepting(t)
        /\ LookUp(t, k)
        /\ IF DeleteAllowed(Existing(t, k), c) /\ Existing(t, k) # None
           THEN /\ Stage(t, k, [type |-> "delete", data |-> None,
                                cond |-> DeleteCondition(t, k, c)])
                /\ Rely(t, k, c)
           ELSE UNCHANGED <<staging, seen>>
        /\ UNCHANGED <<object, status, holder, call, faults, applied, promised, outcome>>

-------------------------------------------------------------------------------
(***************************************************************************)
(* Reading. A staged or cached value is answered without a change; Get     *)
(* reads the backend without the mutex and caches what it read afterwards, *)
(* Head keeps the mutex for readers while it reads.                        *)
(***************************************************************************)

Get(g, k) ==
    LET t == Tx(g)
    IN  /\ Calling(g, "Get") /\ Free(t) /\ ~closed[t] /\ ~expired[t]
        /\ ops[t][k] = None /\ k \notin fetched[t]
        /\ pc' = [pc EXCEPT ![g] = "get"]
        /\ reading' = [reading EXCEPT ![g] = <<k, None>>]
        /\ UNCHANGED <<object, status, staging, cache, holder, committing, prepared,
                       todo, next, failed, faults, history>>

GetAnswered(g) ==
    LET k == reading[g][1]
    IN  /\ At(g, "get")
        /\ IF object[k] = None
           THEN pc' = [pc EXCEPT ![g] = "idle"] /\ reading' = [reading EXCEPT ![g] = Unread]
           ELSE pc' = [pc EXCEPT ![g] = "cache"] /\ reading' = [reading EXCEPT ![g] = <<k, object[k]>>]
        /\ UNCHANGED <<object, status, staging, cache, holder, committing, prepared,
                       todo, next, failed, faults, history>>

\* The cache is written whatever has become of the transaction.
GetCached(g) ==
    LET t == Tx(g)
        k == reading[g][1]
        v == reading[g][2]
    IN  /\ At(g, "cache") /\ Free(t)
        /\ metadata' = [metadata EXCEPT ![t][k] = v]
        /\ fetched' = [fetched EXCEPT ![t] = @ \cup {k}]
        /\ seen' = [seen EXCEPT ![t][k] = v]
        /\ pc' = [pc EXCEPT ![g] = "idle"]
        /\ reading' = [reading EXCEPT ![g] = Unread]
        /\ UNCHANGED <<object, status, staging, holder, committing, prepared, todo, next,
                       failed, faults, applied, promised, outcome>>

HeadObject(g, k) ==
    LET t == Tx(g)
    IN  /\ Calling(g, "Head") /\ Free(t) /\ ~closed[t] /\ ~expired[t]
        /\ ops[t][k] = None /\ metadata[t][k] = Unknown /\ object[k] # None
        /\ metadata' = [metadata EXCEPT ![t][k] = object[k]]
        /\ seen' = [seen EXCEPT ![t][k] = object[k]]
        /\ UNCHANGED <<object, status, staging, fetched, holder, call, faults, applied,
                       promised, outcome>>

-------------------------------------------------------------------------------
(***************************************************************************)
(* Prepare, called by itself or by Commit, which gives up the mutex for it *)
(* and takes it again afterwards.                                          *)
(***************************************************************************)

\* The call ends with result; it leaves the transaction in state s.
Return(g, result) ==
    /\ pc' = [pc EXCEPT ![g] = "idle"]
    /\ committing' = [committing EXCEPT ![g] = FALSE]
    /\ prepared' = [prepared EXCEPT ![g] = ~committing[g] /\ result = "nil"]
    /\ todo' = [todo EXCEPT ![g] = {}]
    /\ next' = [next EXCEPT ![g] = 0]
    /\ failed' = [failed EXCEPT ![g] = FALSE]
    /\ outcome' = [outcome EXCEPT ![g] = IF committing[g] THEN result ELSE @]
    /\ UNCHANGED reading
End(g, s, result) ==
    /\ state' = [state EXCEPT ![Tx(g)] = s]
    /\ closed' = [closed EXCEPT ![Tx(g)] = @ \/ s = "committed"]
    /\ holder' = [holder EXCEPT ![Tx(g)] = None]
    /\ Return(g, result)
Abort(g) == End(g, "aborted", "error")

Prepare(g) ==
    /\ Calling(g, "Prepare") /\ state[Tx(g)] = "active"
    /\ pc' = [pc EXCEPT ![g] = "prepare"]
    /\ UNCHANGED <<object, status, staging, cache, holder, committing, prepared, todo,
                   next, failed, reading, faults, history>>

BeginPrepare(g) ==
    LET t == Tx(g)
    IN  /\ At(g, "prepare") /\ Free(t) /\ state[t] = "active"
        /\ state' = [state EXCEPT ![t] = "preparing"]
        /\ holder' = [holder EXCEPT ![t] = g]
        /\ todo' = [todo EXCEPT ![g] = Staged(t)]
        /\ pc' = [pc EXCEPT ![g] = "validate"]
        /\ UNCHANGED <<object, setting, partial, closed, expired, staging, cache, committing, prepared, next,
                       failed, reading, faults, history>>

\* The pre-prepare hook fails, or the transaction is no longer active.
PrepareRefused(g) ==
    LET t == Tx(g)
    IN  /\ At(g, "prepare") /\ Free(t)
        /\ \/ state[t] # "active" /\ Return(g, "error") /\ UNCHANGED <<state, closed, holder>>
           \/ state[t] = "active" /\ "pre-prepare" \in setting.failingHooks /\ Abort(g)
        /\ UNCHANGED <<object, setting, partial, expired, staging, cache, faults, seen, applied, promised>>

\* validateOperation: a delete needs its object, a put needs nothing.
Valid(t, k) == ops[t][k].type = "delete" => object[k] # None

Validate(g, k) ==
    /\ At(g, "validate") /\ k \in todo[g] /\ Valid(Tx(g), k)
    /\ todo' = [todo EXCEPT ![g] = @ \ {k}]
    /\ UNCHANGED <<object, status, staging, cache, holder, pc, committing, prepared, next,
                   failed, reading, faults, history>>

Fault(kind) == kind \in setting.faultKinds /\ faults < MaxFaults /\ faults' = faults + 1

ValidateFailed(g, k) ==
    /\ At(g, "validate") /\ k \in todo[g]
    /\ \/ ~Valid(Tx(g), k) /\ UNCHANGED faults
       \/ Fault("before")
    /\ Abort(g)
    /\ UNCHANGED <<object, setting, partial, expired, staging, cache, seen, applied, promised>>

Prepared(g) ==
    LET t == Tx(g)
    IN  /\ At(g, "validate") /\ todo[g] = {}
        /\ \/ "post-prepare" \in setting.failingHooks /\ Abort(g)
           \/ /\ ~committing[g]
              /\ End(g, "preparing", "nil")
           \/ /\ committing[g]
              /\ holder' = [holder EXCEPT ![t] = None]
              /\ pc' = [pc EXCEPT ![g] = "relock"]
              /\ UNCHANGED <<state, closed, committing, prepared, todo, next, failed,
                             reading, outcome>>
        /\ UNCHANGED <<object, setting, partial, expired, staging, cache, faults, seen, applied, promised>>

-------------------------------------------------------------------------------
(***************************************************************************)
(* Commit and Rollback.                                                    *)
(***************************************************************************)

BeginPublishUnlocked(g) ==  \* faulty: the mutex is not held while publishing
    /\ Free(Tx(g))
    /\ state' = [state EXCEPT ![Tx(g)] = "committing"]
    /\ pc' = [pc EXCEPT ![g] = "publish"]
    /\ next' = [next EXCEPT ![g] = 1]
    /\ UNCHANGED <<object, setting, partial, closed, expired, staging, cache, holder, prepared, todo,
                   failed, reading, faults, seen, applied>>
\* With the mutex: from here on the transaction is committing, unless the
\* pre-commit hook fails and Commit gives up the mutex to call Rollback.
BeginPublish(g) ==
    LET t == Tx(g)
    IN  /\ Free(t)
        /\ state' = [state EXCEPT ![t] = "committing"]
        /\ \/ /\ holder' = [holder EXCEPT ![t] = g]
              /\ pc' = [pc EXCEPT ![g] = "publish"]
           \/ /\ "pre-commit" \in setting.failingHooks
              /\ pc' = [pc EXCEPT ![g] = "undo"]
              /\ UNCHANGED holder
        /\ next' = [next EXCEPT ![g] = 1]
        /\ UNCHANGED <<object, setting, partial, closed, expired, staging, cache, prepared, todo, failed,
                       reading, faults, seen, applied>>

MayCommit(g) == Calling(g, "Commit") /\ (setting.prepareFirst => prepared[g])
CommitCalled(g) ==
    /\ committing' = [committing EXCEPT ![g] = TRUE]
    /\ promised' = [promised EXCEPT ![g] = Staged(Tx(g))]
    /\ outcome' = [outcome EXCEPT ![g] = "none"]

CommitPrepared(g) ==
    /\ MayCommit(g) /\ state[Tx(g)] = "preparing"
    /\ CommitCalled(g)
    /\ BeginPublish(g)

\* An active transaction is prepared first, without the mutex.
CommitActive(g) ==
    /\ MayCommit(g) /\ Free(Tx(g)) /\ state[Tx(g)] = "active"
    /\ CommitCalled(g)
    /\ pc' = [pc EXCEPT ![g] = "prepare"]
    /\ UNCHANGED <<object, status, staging, cache, holder, prepared, todo, next, failed,
                   reading, faults, seen, applied>>

\* The mutex is taken again and the state is not checked.
Relock(g) ==
    /\ At(g, "relock")
    /\ BeginPublish(g)
    /\ UNCHANGED <<committing, promised, outcome>>

InBatchNever(t) == FALSE  \* faulty: operations always go one by one
InBatch(t) == Len(order[t]) > 1 /\ t \notin partial
Allowed(t, k) ==
    IF ops[t][k].type = "put" THEN PutAllowed(object[k], ops[t][k].cond)
    ELSE DeleteAllowed(object[k], ops[t][k].cond) /\ object[k] # None
Apply(t, ks) ==
    /\ object' = [k \in Keys |-> IF k \in ks THEN ops[t][k].data ELSE object[k]]
    /\ applied' = [applied EXCEPT ![t] = @ \cup ks]

PublishBatch(g) ==
    LET t == Tx(g)
    IN  /\ At(g, "publish") /\ InBatch(t)
        /\ IF setting.atomicBatch /\ \A k \in InOrder(t) : Allowed(t, k)
           THEN Apply(t, InOrder(t)) /\ End(g, "committed", "nil")
           ELSE Abort(g) /\ UNCHANGED <<object, applied>>
        /\ UNCHANGED <<setting, partial, expired, staging, cache, faults, seen, promised>>

Unfinished(g) == At(g, "publish") /\ ~InBatch(Tx(g)) /\ next[g] <= Len(order[Tx(g)])
AdvanceForgetful(g, error) ==  \* faulty: the error is dropped
    /\ next' = [next EXCEPT ![g] = @ + 1]
    /\ UNCHANGED <<state, closed, holder, pc, committing, prepared, todo, failed, reading,
                   outcome>>
Advance(g, error) ==
    /\ next' = [next EXCEPT ![g] = @ + 1]
    /\ failed' = [failed EXCEPT ![g] = @ \/ error]
    /\ UNCHANGED <<state, closed, holder, pc, committing, prepared, todo, reading, outcome>>
Refuse(g) == IF Tx(g) \in partial THEN Advance(g, TRUE) ELSE Abort(g)

PublishNext(g) ==
    LET t == Tx(g)
        k == order[t][next[g]]
    IN  /\ Unfinished(g)
        /\ IF Allowed(t, k)
           THEN Apply(t, {k}) /\ Advance(g, FALSE)
           ELSE Refuse(g) /\ UNCHANGED <<object, applied>>
        /\ UNCHANGED <<setting, partial, expired, staging, cache, faults, seen, promised>>

\* The storage call fails; if it took effect first, its error may still be
\* retriable, and applyOperationWithRetry issues it again.
PublishFailed(g) ==
    /\ Unfinished(g) \/ (At(g, "publish") /\ InBatch(Tx(g)) /\ setting.atomicBatch)
    /\ Fault("before")
    /\ IF InBatch(Tx(g)) THEN Abort(g) ELSE Refuse(g)
    /\ UNCHANGED <<object, applied, setting, partial, expired, staging, cache, seen, promised>>
PublishUnanswered(g) ==
    LET t == Tx(g)
        k == order[t][next[g]]
    IN  /\ Unfinished(g) /\ Allowed(t, k) /\ Fault("after")
        /\ Apply(t, {k})
        /\ \/ Refuse(g)
           \/ UNCHANGED <<state, closed, holder, call, outcome>>
        /\ UNCHANGED <<setting, partial, expired, staging, cache, seen, promised>>

Published(g) ==
    /\ At(g, "publish") /\ ~InBatch(Tx(g)) /\ next[g] > Len(order[Tx(g)])
    /\ End(g, "committed", IF failed[g] THEN "error" ELSE "nil")
    /\ UNCHANGED <<object, setting, partial, expired, staging, cache, faults, seen, applied, promised>>

CanRollBackAlways(t) == TRUE  \* faulty: no check of the state
CanRollBack(t) == ~closed[t] /\ state[t] \notin {"committed", "rolled-back"}
RollBack(t) ==
    /\ state' = [state EXCEPT ![t] = "rolled-back"]
    /\ closed' = [closed EXCEPT ![t] = TRUE]
    /\ ops' = [ops EXCEPT ![t] = [k \in Keys |-> None]]
    /\ order' = [order EXCEPT ![t] = << >>]

Rollback(g) ==
    /\ Calling(g, "Rollback") /\ Free(Tx(g)) /\ CanRollBack(Tx(g))
    /\ RollBack(Tx(g))
    /\ UNCHANGED <<object, setting, partial, expired, cache, holder, call, faults, history>>

\* The Rollback that Commit calls when the pre-commit hook has failed.
Undo(g) ==
    LET t == Tx(g)
    IN  /\ At(g, "undo") /\ Free(t)
        /\ IF CanRollBack(t) THEN RollBack(t) ELSE UNCHANGED <<state, closed, staging>>
        /\ Return(g, "error")
        /\ UNCHANGED <<object, setting, partial, expired, cache, holder, faults, seen, applied, promised>>

-------------------------------------------------------------------------------
\* A writer without a transaction.
WriteOutside(k, v) ==
    /\ k \in setting.outsideKeys /\ object[k] # v
    /\ object' = [object EXCEPT ![k] = v]
    /\ UNCHANGED <<status, staging, cache, holder, call, faults, history>>

Expire(t) ==
    /\ ~expired[t]
    /\ expired' = [expired EXCEPT ![t] = TRUE]
    /\ UNCHANGED <<object, setting, partial, state, closed, staging, cache, holder, call, faults, history>>

GivenConditions == {Unconditional, IfNotExists} \cup {IfMatch(e) : e \in ETags}

Staging(g) ==
    \E k \in Keys, c \in GivenConditions :
        (\E v \in ETags : Put(g, k, v, c)) \/ (c # IfNotExists /\ Delete(g, k, c))
Reading(g) ==
    \/ \E k \in Keys : Get(g, k) \/ HeadObject(g, k)
    \/ GetAnswered(g) \/ GetCached(g)
Preparing(g) ==
    \/ Prepare(g) \/ BeginPrepare(g) \/ PrepareRefused(g) \/ Prepared(g)
    \/ \E k \in Keys : Validate(g, k) \/ ValidateFailed(g, k)
Committing(g) ==
    \/ CommitPrepared(g) \/ CommitActive(g) \/ Relock(g) \/ PublishBatch(g) \/ PublishNext(g)
    \/ PublishFailed(g) \/ PublishUnanswered(g) \/ Published(g) \/ Undo(g)

Next ==
    \/ \E g \in Goroutines : Staging(g) \/ Reading(g) \/ Preparing(g) \/ Committing(g) \/ Rollback(g)
    \/ \E k \in Keys, v \in ETags \cup {None} : WriteOutside(k, v)
    \/ \E t \in Txs : Expire(t)

Spec == Init /\ [][Next]_vars

-------------------------------------------------------------------------------
(***************************************************************************)
(* Properties.                                                             *)
(***************************************************************************)

(* Every variable has the shape its declaration says.                      *)
TypeOK ==
    /\ setting \in Settings
    /\ object \in [Keys -> ETags \cup {None}]
    /\ partial \subseteq Txs
    /\ state \in [Txs -> States]
    /\ closed \in [Txs -> BOOLEAN] /\ expired \in [Txs -> BOOLEAN]
    /\ ops \in [Txs -> [Keys -> Ops \cup {None}]]
    /\ order \in [Txs -> Seq(Keys)]
    /\ metadata \in [Txs -> [Keys -> ETags \cup {Unknown}]]
    /\ fetched \in [Txs -> SUBSET Keys]
    /\ holder \in [Txs -> Goroutines \cup {None}]
    /\ pc \in [Goroutines -> Steps]
    /\ committing \in [Goroutines -> BOOLEAN] /\ prepared \in [Goroutines -> BOOLEAN]
    /\ todo \in [Goroutines -> SUBSET Keys]
    /\ next \in [Goroutines -> Nat]
    /\ failed \in [Goroutines -> BOOLEAN]
    /\ reading \in [Goroutines -> (Keys \cup {None}) \X (ETags \cup {None})]
    /\ faults \in 0..MaxFaults
    /\ seen \in [Txs -> [Keys -> ETags \cup {None, Unknown}]]
    /\ applied \in [Txs -> SUBSET Keys]
    /\ promised \in [Goroutines -> SUBSET Keys]
    /\ outcome \in [Goroutines -> {"none", "nil", "error"}]

(* A transaction that is not partial has published everything it staged if *)
(* it is committed, and nothing at all if it is aborted or rolled back,    *)
(* unless a storage call that failed may have taken effect (Commit,        *)
(* Rollback).                                                              *)
AllOrNothing ==
    \A t \in Txs \ partial :
        /\ state[t] = "committed" => applied[t] = Staged(t)
        /\ state[t] \in {"aborted", "rolled-back"} =>
               applied[t] = {} \/ ("after" \in setting.faultKinds /\ faults > 0)

(* Commit returned nil only if everything that was staged when it was      *)
(* called has been published: "Commit applies all pending changes"         *)
(* (transaction.go:50), partial commits included.                          *)
NilMeansApplied ==
    \A g \in Goroutines : outcome[g] = "nil" => promised[g] \subseteq applied[Tx(g)]

(* A transaction that is closed stays as it is: what has been committed is *)
(* not aborted afterwards, what has been rolled back is never published.   *)
ClosedIsFinal ==
    [][\A t \in Txs :
         closed[t] => state'[t] = state[t] /\ applied'[t] = applied[t]]_vars

(* A put of a transaction that one goroutine uses replaces exactly what    *)
(* the transaction saw in the key before, or what its caller named,        *)
(* however late it is published: no change of another writer is lost (the  *)
(* conditions Put attaches while staging). With two goroutines, a Get that *)
(* is on its way while the other stages a put returns a value older than   *)
(* the one the put relies on.                                              *)
Alone(t) == \A g, h \in Goroutines : Tx(g) = t /\ Tx(h) = t => g = h
Publishes(t, k, type) == k \in applied'[t] \ applied[t] /\ ops[t][k].type = type
PutsReplaceWhatWasSeen ==
    [][\A t \in Txs, k \in Keys :
         Alone(t) /\ Publishes(t, k, "put") => object[k] = seen[t][k]]_vars
===============================================================================
