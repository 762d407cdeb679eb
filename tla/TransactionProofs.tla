---------------------------- MODULE TransactionProofs ----------------------------
(***************************************************************************)
(* Proofs about Transaction: StagingInv is inductive, CommitInv is         *)
(* inductive relative to it when transactions are used in an orderly way,  *)
(* and the properties of Transaction follow from them.                     *)
(***************************************************************************)
EXTENDS TransactionInduction, TLAPS

-------------------------------------------------------------------------------
(***************************************************************************)
(* Data.                                                                   *)
(***************************************************************************)

LEMMA SettingFits ==
    ASSUME TypeOK
    PROVE  /\ setting.txOf \in [Goroutines -> Txs \cup {None}]
           /\ setting.outsideKeys \in SUBSET Keys
           /\ None \notin Goroutines /\ None \notin Txs
BY TransactionAssumption DEF TypeOK

\* What a goroutine works on is a transaction, and stays the same one.
LEMMA Mine ==
    ASSUME TypeOK, NEW g \in Goroutines, Tx(g) # None
    PROVE  Tx(g) \in Txs
BY SettingFits DEF Tx

LEMMA ConditionsGiven ==
    /\ \A c \in GivenConditions : c \in Conditions
    /\ IfNotExists \in Conditions /\ IfNotExists.match = Unset /\ IfNotExists.noMatch = Star
    /\ Unconditional.match = Unset /\ Unconditional.noMatch = Unset
    /\ ~Named(Unset) /\ ~Named(Star)
    /\ \A e \in ETags : /\ IfMatch(e) \in Conditions /\ IfMatch(e).match = e
                        /\ IfMatch(e).noMatch = Unset /\ Named(e)
BY ConditionAssumption
DEF GivenConditions, Conditions, Unconditional, IfNotExists, IfMatch, Named

LEMMA OperationsGiven ==
    /\ \A op \in Ops : op # None /\ op.data \in ETags \cup {None} /\ op.cond \in Conditions
    /\ \A c \in Conditions, v \in ETags : [type |-> "put", data |-> v, cond |-> c] \in Ops
    /\ \A c \in Conditions : [type |-> "delete", data |-> None, cond |-> c] \in Ops
BY OperationAssumption DEF Ops

\* What Put and Delete compare with their conditions.
LEMMA ExistingFits ==
    ASSUME TypeOK, NEW t \in Txs, NEW k \in Keys
    PROVE  Existing(t, k) \in ETags \cup {None}
BY OperationsGiven, TransactionAssumption DEF TypeOK, Existing

LEMMA OrderIndexed ==
    ASSUME TypeOK, NEW t \in Txs
    PROVE  /\ order[t] \in Seq(Keys) /\ Len(order[t]) \in Nat
           /\ InOrder(t) \subseteq Keys
           /\ \A i \in 1..Len(order[t]) : order[t][i] \in InOrder(t)
BY DEF TypeOK, InOrder

\* Whoever works on the transaction of another goroutine has prepared it first.
LEMMA ByOneself ==
    ASSUME Orderly, TypeOK, ~setting.prepareFirst, NEW g \in Goroutines, NEW h \in Goroutines,
           Tx(g) = Tx(h), Tx(g) # None
    PROVE  g = h
BY TransactionAssumption DEF Orderly, TypeOK, Tx

\* One goroutine at a time has the mutex.
LEMMA Exclusive ==
    ASSUME TypeOK, Holding, NEW g \in Goroutines, NEW h \in Goroutines, Tx(g) = Tx(h),
           pc[g] \in {"validate", "publish"}, pc[h] \in {"validate", "publish"}
    PROVE  g = h
BY DEF Holding

-------------------------------------------------------------------------------
(***************************************************************************)
(* Parts of the invariant that a step does not touch.                      *)
(***************************************************************************)

LEMMA StagingUnaffected ==
    /\ UNCHANGED <<setting, pc, committing, reading, next>> /\ InCall => InCall'
    /\ UNCHANGED <<ops, order>> /\ OrderFits => OrderFits'
    /\ UNCHANGED <<setting, pc, reading, ops>> /\ ReadsUnstaged => ReadsUnstaged'
    /\ UNCHANGED <<setting, ops, seen>> /\ SeenFits => SeenFits'
<1>1. UNCHANGED <<setting, pc, committing, reading, next>> /\ InCall => InCall'
  BY DEF InCall, Tx
<1>2. UNCHANGED <<ops, order>> /\ OrderFits => OrderFits'
  BY DEF OrderFits, Staged, InOrder
<1>3. UNCHANGED <<setting, pc, reading, ops>> /\ ReadsUnstaged => ReadsUnstaged'
  BY DEF ReadsUnstaged, Tx, Alone
<1>4. UNCHANGED <<setting, ops, seen>> /\ SeenFits => SeenFits'
  BY DEF SeenFits, Tx, Alone
<1> QED
  BY <1>1, <1>2, <1>3, <1>4

LEMMA CommitUnaffected ==
    /\ UNCHANGED <<setting, holder, pc, state>> /\ Holding => Holding'
    /\ UNCHANGED <<closed, state>> /\ ClosedFits => ClosedFits'
    /\ UNCHANGED <<setting, committing, pc, state, holder, prepared>> /\ Undisturbed =>
           Undisturbed'
    /\ UNCHANGED <<state, holder, applied>> /\ Untouched => Untouched'
    /\ UNCHANGED <<setting, pc, failed, applied, ops, order, next, partial, faults>>
       /\ PublishFits => PublishFits'
    /\ UNCHANGED <<setting, committing, pc, promised, outcome, ops>> /\ PromiseFits => PromiseFits'
    /\ UNCHANGED <<setting, partial, state, applied, ops, faults>> /\ AllOrNothing =>
           AllOrNothing'
    /\ UNCHANGED <<setting, outcome, promised, applied>> /\ NilMeansApplied =>
           NilMeansApplied'
<1>1. UNCHANGED <<setting, holder, pc, state>> /\ Holding => Holding'
  BY DEF Holding, Tx
<1>2. UNCHANGED <<closed, state>> /\ ClosedFits => ClosedFits'
  BY DEF ClosedFits
<1>3. UNCHANGED <<setting, committing, pc, state, holder, prepared>> /\ Undisturbed =>
          Undisturbed'
  BY DEF Undisturbed, Tx
<1>4. UNCHANGED <<state, holder, applied>> /\ Untouched => Untouched'
  BY DEF Untouched
<1>5. UNCHANGED <<setting, pc, failed, applied, ops, order, next, partial, faults>>
      /\ PublishFits => PublishFits'
  BY DEF PublishFits, Tx, Staged, InBatch, Lost
<1>6. UNCHANGED <<setting, committing, pc, promised, outcome, ops>> /\ PromiseFits => PromiseFits'
  BY DEF PromiseFits, Tx, Staged
<1>7. UNCHANGED <<setting, partial, state, applied, ops, faults>> /\ AllOrNothing =>
          AllOrNothing'
  BY DEF AllOrNothing, Staged
<1>8. UNCHANGED <<setting, outcome, promised, applied>> /\ NilMeansApplied =>
          NilMeansApplied'
  BY DEF NilMeansApplied, Tx
<1> QED
  BY <1>1, <1>2, <1>3, <1>4, <1>5, <1>6, <1>7, <1>8

-------------------------------------------------------------------------------
(***************************************************************************)
(* Staging, however transactions are used.                                 *)
(***************************************************************************)

\* The condition that Put or Delete stages lets it replace what Rely says was seen.
LEMMA PutRelies ==
    ASSUME StagingInv, NEW t \in Txs, NEW k \in Keys, NEW c \in GivenConditions,
           Rely(t, k, c), Alone(t)
    PROVE  OnlyReplaces(PutCondition(t, k, c), seen'[t][k])
<1>1. /\ seen[t] \in [Keys -> ETags \cup {None, Unknown}]
      /\ seen \in [Txs -> [Keys -> ETags \cup {None, Unknown}]]
      /\ Existing(t, k) \in ETags \cup {None}
  BY ExistingFits DEF StagingInv, TypeOK
<1>2. CASE \E e \in ETags : c = IfMatch(e)
  BY <1>1, <1>2, ConditionsGiven DEF Rely, PutCondition, OnlyReplaces, Unconditional
<1>3. CASE c = IfNotExists
  BY <1>1, <1>3, ConditionsGiven, ConditionAssumption
  DEF Rely, PutCondition, OnlyReplaces, Unconditional
<1>4. CASE c = Unconditional /\ ops[t][k] # None
  BY <1>1, <1>4, ConditionsGiven, ConditionAssumption DEF StagingInv, SeenFits, Rely, PutCondition
<1>5. CASE c = Unconditional /\ ops[t][k] = None
  BY <1>1, <1>5, ConditionsGiven, ConditionAssumption DEF Rely, PutCondition, OnlyReplaces
<1> QED
  BY <1>2, <1>3, <1>4, <1>5 DEF GivenConditions

LEMMA DeleteRelies ==
    ASSUME StagingInv, NEW t \in Txs, NEW k \in Keys, NEW c \in GivenConditions,
           c # IfNotExists, Existing(t, k) # None, Rely(t, k, c), Alone(t)
    PROVE  OnlyReplaces(DeleteCondition(t, k, c), seen'[t][k])
<1>1. /\ seen[t] \in [Keys -> ETags \cup {None, Unknown}]
      /\ seen \in [Txs -> [Keys -> ETags \cup {None, Unknown}]]
      /\ Existing(t, k) \in ETags
  BY ExistingFits DEF StagingInv, TypeOK
<1>2. CASE \E e \in ETags : c = IfMatch(e)
  BY <1>1, <1>2, ConditionsGiven DEF Rely, DeleteCondition, OnlyReplaces, Unconditional
<1>3. CASE c = Unconditional /\ ops[t][k] # None
  BY <1>1, <1>3, ConditionsGiven, ConditionAssumption
  DEF StagingInv, SeenFits, Rely, DeleteCondition
<1>4. CASE c = Unconditional /\ ops[t][k] = None
  BY <1>1, <1>4, ConditionsGiven, ConditionAssumption DEF Rely, DeleteCondition, OnlyReplaces
<1> QED
  BY <1>2, <1>3, <1>4 DEF GivenConditions

LEMMA ConditionStaged ==
    ASSUME StagingInv, NEW t \in Txs, NEW k \in Keys, NEW c \in GivenConditions
    PROVE  /\ PutCondition(t, k, c) \in Conditions
           /\ Existing(t, k) # None => DeleteCondition(t, k, c) \in Conditions
<1>1. Existing(t, k) \in ETags \cup {None} /\ (ops[t][k] # None => ops[t][k].cond \in Conditions)
  BY ExistingFits, OperationsGiven DEF StagingInv, TypeOK
<1> QED
  BY <1>1, ConditionsGiven DEF PutCondition, DeleteCondition

\* What is in a sequence that grows by one element.
LEMMA Appended ==
    ASSUME NEW s \in Seq(Keys), NEW k \in Keys
    PROVE  {Append(s, k)[i] : i \in 1..Len(Append(s, k))} = {s[i] : i \in 1..Len(s)} \cup {k}
<1>1. /\ Len(Append(s, k)) = Len(s) + 1 /\ Len(s) \in Nat /\ Append(s, k)[Len(s) + 1] = k
      /\ \A i \in 1..Len(s) : Append(s, k)[i] = s[i]
  OBVIOUS
<1> QED
  BY <1>1

\* An operation is staged in a transaction that the goroutine does nothing else with.
LEMMA Stages ==
    ASSUME StagingInv, NEW g \in Goroutines, NEW t \in Txs, t = Tx(g), pc[g] = "idle",
           NEW k \in Keys, NEW c \in GivenConditions, NEW op \in Ops,
           Stage(t, k, op), Rely(t, k, c), Alone(t) => OnlyReplaces(op.cond, seen'[t][k]),
           UNCHANGED <<setting, pc, reading>>
    PROVE  OrderFits' /\ ReadsUnstaged' /\ SeenFits'
<1> USE DEF StagingInv
<1>1. op # None
  BY OperationsGiven
<1>2. /\ ops' = [ops EXCEPT ![t][k] = op] /\ ops'[t][k] = op
      /\ \A u \in Txs, j \in Keys : u # t \/ j # k => ops'[u][j] = ops[u][j]
  BY <1>1 DEF Stage, TypeOK
<1>3. \A u \in Txs, j \in Keys : u # t \/ j # k => seen'[u][j] = seen[u][j]
  BY <1>1 DEF Rely, TypeOK
<1>4. OrderFits'
  <2>1. \A u \in Txs : Staged(u)' = IF u = t THEN Staged(u) \cup {k} ELSE Staged(u)
    BY <1>1, <1>2 DEF Staged
  <2>2. InOrder(t)' = InOrder(t) \cup {k}
    <3>1. CASE k \in InOrder(t)
      <4>1. order' = order
        BY <3>1 DEF Stage
      <4> QED
        BY <3>1, <4>1 DEF InOrder
    <3>2. CASE k \notin InOrder(t)
      <4>1. order'[t] = Append(order[t], k) /\ order[t] \in Seq(Keys)
        BY <3>2 DEF Stage, TypeOK
      <4> QED
        BY <4>1, Appended DEF InOrder
    <3> QED
      BY <3>1, <3>2
  <2>3. \A u \in Txs \ {t} : InOrder(u)' = InOrder(u)
    BY <1>1 DEF Stage, InOrder, TypeOK
  <2> QED
    BY <1>1, <2>1, <2>2, <2>3 DEF OrderFits
<1>5. ReadsUnstaged'
  <2>1. \A h \in Goroutines :
            pc[h] \in {"get", "cache"} /\ Alone(Tx(h)) => Tx(h) # t /\ reading[h][1] \in Keys
    BY DEF Alone, InCall
  <2>2. \A h \in Goroutines : pc[h] \in {"get", "cache"} => Tx(h) \in Txs
    BY Mine DEF InCall
  <2>3. \A h \in Goroutines : Tx(h)' = Tx(h) /\ (Alone(Tx(h)) <=> Alone(Tx(h))')
    BY DEF Tx, Alone
  <2> QED
    BY <1>2, <2>1, <2>2, <2>3 DEF ReadsUnstaged
<1>6. SeenFits'
  <2>1. \A u \in Txs : Alone(u)' <=> Alone(u)
    BY DEF Alone, Tx
  <2> QED
    BY <1>1, <1>2, <1>3, <2>1 DEF SeenFits
<1> QED
  BY <1>4, <1>5, <1>6

\* What Put and Delete leave behind in the cache and in the operations.
LEMMA StagesFitting ==
    ASSUME StagingInv, NEW t \in Txs, NEW k \in Keys, NEW c \in GivenConditions, NEW op \in Ops,
           LookUp(t, k),
           \/ Stage(t, k, op) /\ Rely(t, k, c)
           \/ UNCHANGED <<staging, seen>>
    PROVE  /\ ops' \in [Txs -> [Keys -> Ops \cup {None}]] /\ order' \in [Txs -> Seq(Keys)]
           /\ metadata' \in [Txs -> [Keys -> ETags \cup {Unknown}]]
           /\ fetched' \in [Txs -> SUBSET Keys]
           /\ seen' \in [Txs -> [Keys -> ETags \cup {None, Unknown}]]
<1>1. Existing(t, k) \in ETags \cup {None}
  BY ExistingFits DEF StagingInv
<1>2. Named(c.match) => c.match \in ETags
  BY ConditionsGiven DEF GivenConditions
<1>3. object[k] \in ETags \cup {None} /\ op # None
  BY OperationsGiven DEF StagingInv, TypeOK
<1>4. metadata' \in [Txs -> [Keys -> ETags \cup {Unknown}]] /\ fetched' \in [Txs -> SUBSET Keys]
  BY <1>3 DEF StagingInv, TypeOK, LookUp
<1>5. /\ seen \in [Txs -> [Keys -> ETags \cup {None, Unknown}]]
      /\ ops \in [Txs -> [Keys -> Ops \cup {None}]] /\ order \in [Txs -> Seq(Keys)]
  BY DEF StagingInv, TypeOK
<1>6. CASE Stage(t, k, op) /\ Rely(t, k, c)
  <2>1. seen' = seen \/ \E e \in ETags \cup {None} : seen' = [seen EXCEPT ![t][k] = e]
    BY <1>1, <1>2, <1>6 DEF Rely
  <2>2. seen' \in [Txs -> [Keys -> ETags \cup {None, Unknown}]]
    <3>1. ASSUME NEW e \in ETags \cup {None}, seen' = [seen EXCEPT ![t][k] = e]
          PROVE  seen' \in [Txs -> [Keys -> ETags \cup {None, Unknown}]]
      BY <1>5, <3>1
    <3> QED
      BY <1>5, <2>1, <3>1
  <2>3. ops' \in [Txs -> [Keys -> Ops \cup {None}]]
    BY <1>5, <1>6 DEF Stage
  <2>4. order' \in [Txs -> Seq(Keys)]
    BY <1>5, <1>6 DEF Stage
  <2> QED
    BY <1>4, <2>2, <2>3, <2>4
<1>7. CASE UNCHANGED <<staging, seen>>
  BY <1>4, <1>5, <1>7 DEF staging
<1> QED
  BY <1>6, <1>7

LEMMA PutStages ==
    ASSUME StagingInv, NEW g \in Goroutines, NEW k \in Keys, NEW v \in ETags,
           NEW c \in GivenConditions, Put(g, k, v, c)
    PROVE  StagingInv'
<1> DEFINE t == Tx(g)
           op == [type |-> "put", data |-> v, cond |-> PutCondition(t, k, c)]
<1>1. t \in Txs /\ t # None /\ pc[g] = "idle" /\ op \in Ops /\ op.cond = PutCondition(t, k, c)
  BY Mine, ConditionStaged, OperationsGiven, SettingFits DEF Put, Calling, StagingInv
<1>2. LookUp(t, k) /\ ((Stage(t, k, op) /\ Rely(t, k, c)) \/ UNCHANGED <<staging, seen>>)
  BY DEF Put
<1>3. UNCHANGED <<object, status, holder, call, faults, applied, promised, outcome>>
  BY DEF Put
<1>4. TypeOK'
  BY <1>1, <1>2, <1>3, StagesFitting DEF StagingInv, TypeOK, status, call
<1>5. CASE Stage(t, k, op) /\ Rely(t, k, c)
  BY <1>1, <1>3, <1>4, <1>5, Stages, PutRelies, StagingUnaffected
  DEF StagingInv, status, call
<1>6. CASE UNCHANGED <<staging, seen>>
  BY <1>3, <1>4, <1>6, StagingUnaffected DEF StagingInv, status, call, staging
<1> QED
  BY <1>2, <1>5, <1>6

LEMMA DeleteStages ==
    ASSUME StagingInv, NEW g \in Goroutines, NEW k \in Keys, NEW c \in GivenConditions,
           c # IfNotExists, Delete(g, k, c)
    PROVE  StagingInv'
<1> DEFINE t == Tx(g)
           op == [type |-> "delete", data |-> None, cond |-> DeleteCondition(t, k, c)]
<1>1. t \in Txs /\ t # None /\ pc[g] = "idle" /\ LookUp(t, k)
  BY Mine, SettingFits DEF Delete, Calling, StagingInv
<1>2. UNCHANGED <<object, status, holder, call, faults, applied, promised, outcome>>
  BY DEF Delete
<1>3. CASE Existing(t, k) # None /\ Stage(t, k, op) /\ Rely(t, k, c)
  <2>1. op \in Ops /\ op.cond = DeleteCondition(t, k, c)
    BY <1>1, <1>3, ConditionStaged, OperationsGiven
  <2>2. TypeOK'
    BY <1>1, <1>2, <1>3, <2>1, StagesFitting DEF StagingInv, TypeOK, status, call
  <2> QED
    BY <1>1, <1>2, <1>3, <2>1, <2>2, Stages, DeleteRelies, StagingUnaffected
    DEF StagingInv, status, call
<1>4. CASE UNCHANGED <<staging, seen>>
  <2>1. TypeOK'
    BY <1>1, <1>2, <1>4 DEF StagingInv, TypeOK, status, call, LookUp, staging
  <2> QED
    BY <1>2, <1>4, <2>1, StagingUnaffected DEF StagingInv, status, call, staging
<1> QED
  BY <1>3, <1>4 DEF Delete

\* A call that goes on to a stage where nothing is read keeps what is true of reading.
LEMMA ReadingEnds ==
    ASSUME StagingInv, NEW g \in Goroutines, NEW stage \in Steps \ {"get", "cache"},
           pc' = [pc EXCEPT ![g] = stage], UNCHANGED <<setting, reading, ops>>
    PROVE  ReadsUnstaged'
<1>1. \A h \in Goroutines :
          /\ pc'[h] \in {"get", "cache"} => pc[h] \in {"get", "cache"}
          /\ Tx(h)' = Tx(h) /\ (Alone(Tx(h)) <=> Alone(Tx(h))')
  BY DEF StagingInv, TypeOK, Tx, Alone
<1> QED
  BY <1>1 DEF StagingInv, ReadsUnstaged

LEMMA GetStages ==
    ASSUME StagingInv, NEW g \in Goroutines, NEW k \in Keys, Get(g, k)
    PROVE  StagingInv'
<1> USE DEF StagingInv, Get, Calling
<1>1. TypeOK'
  BY DEF TypeOK, Steps, status, staging, cache, history
<1>2. InCall'
  BY DEF TypeOK, InCall, Tx, status
<1>3. ReadsUnstaged'
  BY DEF TypeOK, ReadsUnstaged, Tx, Alone, status, staging
<1> QED
  BY <1>1, <1>2, <1>3, StagingUnaffected DEF status, staging, history

LEMMA GetAnsweredStages ==
    ASSUME StagingInv, NEW g \in Goroutines, GetAnswered(g)
    PROVE  StagingInv'
<1> USE DEF StagingInv, GetAnswered, At, Unread
<1> DEFINE k == reading[g][1]
<1>1. k \in Keys /\ object[k] \in ETags \cup {None}
  BY DEF TypeOK, InCall
<1>2. PICK r \in (Keys \cup {None}) \X (ETags \cup {None}) :
          /\ reading' = [reading EXCEPT ![g] = r]
          /\ \/ pc' = [pc EXCEPT ![g] = "idle"]
             \/ pc' = [pc EXCEPT ![g] = "cache"] /\ r[1] = k /\ r[2] \in ETags
  <2>1. <<None, None>> \in (Keys \cup {None}) \X (ETags \cup {None})
    OBVIOUS
  <2>2. /\ <<k, object[k]>> \in (Keys \cup {None}) \X (ETags \cup {None})
        /\ <<k, object[k]>>[1] = k /\ <<k, object[k]>>[2] = object[k]
    BY <1>1
  <2>3. CASE object[k] = None
    BY <2>1, <2>3
  <2>4. CASE object[k] # None
    BY <1>1, <2>2, <2>4
  <2> QED
    BY <2>3, <2>4
<1>3. TypeOK'
  BY <1>2 DEF TypeOK, Steps, status, staging, cache, history
<1>4. InCall'
  BY <1>1, <1>2 DEF TypeOK, InCall, Tx, status
<1>5. ReadsUnstaged'
  <2>1. \A h \in Goroutines :
            /\ Tx(h)' = Tx(h) /\ (Alone(Tx(h)) <=> Alone(Tx(h))')
            /\ pc'[h] \in {"get", "cache"} =>
                   pc[h] \in {"get", "cache"} /\ reading'[h][1] = reading[h][1]
    BY <1>2 DEF TypeOK, Tx, Alone, status
  <2> QED
    BY <2>1 DEF ReadsUnstaged, staging
<1> QED
  BY <1>3, <1>4, <1>5, StagingUnaffected DEF status, staging, history

LEMMA GetCachedStages ==
    ASSUME StagingInv, NEW g \in Goroutines, GetCached(g)
    PROVE  StagingInv'
<1> USE DEF StagingInv, GetCached, At, Unread
<1>1. reading[g][1] \in Keys /\ reading[g][2] \in ETags /\ Tx(g) \in Txs
  BY Mine DEF InCall
<1>2. TypeOK'
  BY <1>1 DEF TypeOK, Steps, status, staging, call
<1>3. InCall' /\ ReadsUnstaged'
  BY <1>1 DEF TypeOK, InCall, ReadsUnstaged, Tx, Alone, status, staging
<1>4. SeenFits'
  <2>1. Alone(Tx(g)) => ops[Tx(g)][reading[g][1]] = None
    BY DEF ReadsUnstaged
  <2>2. \A t \in Txs : Alone(t)' <=> Alone(t)
    BY DEF Alone, Tx, status
  <2> QED
    BY <1>1, <2>1, <2>2 DEF TypeOK, SeenFits, staging
<1> QED
  BY <1>2, <1>3, <1>4, StagingUnaffected DEF status, staging

LEMMA HeadStages ==
    ASSUME StagingInv, NEW g \in Goroutines, NEW k \in Keys, HeadObject(g, k)
    PROVE  StagingInv'
<1> USE DEF StagingInv, HeadObject, Calling
<1>1. Tx(g) \in Txs /\ object[k] \in ETags
  BY Mine DEF TypeOK
<1>2. TypeOK'
  BY <1>1 DEF TypeOK, status, staging, call
<1>3. SeenFits'
  <2>1. \A t \in Txs : Alone(t)' <=> Alone(t)
    BY DEF Alone, Tx, status
  <2> QED
    BY <1>1, <2>1 DEF TypeOK, SeenFits, staging
<1> QED
  BY <1>2, <1>3, StagingUnaffected DEF status, staging, call

\* A call ends.
LEMMA ReturnStages ==
    ASSUME StagingInv, NEW g \in Goroutines, NEW result \in {"nil", "error"}, Return(g, result),
           UNCHANGED <<setting, ops>>
    PROVE  /\ InCall' /\ ReadsUnstaged'
           /\ pc' \in [Goroutines -> Steps] /\ reading' = reading
           /\ committing' \in [Goroutines -> BOOLEAN] /\ prepared' \in [Goroutines -> BOOLEAN]
           /\ todo' \in [Goroutines -> SUBSET Keys] /\ next' \in [Goroutines -> Nat]
           /\ failed' \in [Goroutines -> BOOLEAN]
           /\ outcome' \in [Goroutines -> {"none", "nil", "error"}]
<1> USE DEF StagingInv, Return
<1>1. prepared' \in [Goroutines -> BOOLEAN]
  BY Zenon DEF TypeOK
<1>2. ReadsUnstaged'
  BY ReadingEnds DEF Steps
<1> QED
  BY <1>1, <1>2 DEF TypeOK, InCall, Tx, Steps

\* A Prepare or a Commit ends with the transaction in state s.
LEMMA EndStages ==
    ASSUME StagingInv, NEW g \in Goroutines, pc[g] # "idle", NEW s \in States,
           NEW result \in {"nil", "error"}, End(g, s, result),
           object' \in [Keys -> ETags \cup {None}], faults' \in 0..MaxFaults,
           applied' \in [Txs -> SUBSET Keys],
           UNCHANGED <<setting, partial, expired, staging, cache, seen, promised>>
    PROVE  StagingInv'
<1> USE DEF StagingInv
<1>1. Tx(g) \in Txs /\ Return(g, result)
  BY Mine DEF InCall, End
<1>2. closed' \in [Txs -> BOOLEAN]
  BY Zenon, <1>1 DEF End, TypeOK
<1>3. state' \in [Txs -> States] /\ holder' \in [Txs -> Goroutines \cup {None}]
  BY <1>1 DEF End, TypeOK
<1>4. TypeOK'
  BY <1>1, <1>2, <1>3, ReturnStages DEF TypeOK, staging, cache
<1> QED
  BY <1>1, <1>4, ReturnStages, StagingUnaffected DEF staging

\* The steps of Prepare, of Commit before it publishes, and of Rollback.
LEMMA PrepareStages ==
    ASSUME StagingInv, NEW g \in Goroutines, Prepare(g)
    PROVE  StagingInv'
<1> USE DEF StagingInv, Prepare, Calling
<1>1. TypeOK' /\ InCall'
  BY DEF TypeOK, InCall, Tx, Steps, status, staging, cache, history
<1>2. ReadsUnstaged'
  BY ReadingEnds DEF Steps, status, staging
<1> QED
  BY <1>1, <1>2, StagingUnaffected DEF status, staging, history

LEMMA BeginPrepareStages ==
    ASSUME StagingInv, NEW g \in Goroutines, BeginPrepare(g)
    PROVE  StagingInv'
<1> USE DEF StagingInv, BeginPrepare, At
<1>1. Tx(g) \in Txs /\ Staged(Tx(g)) \subseteq Keys
  BY Mine DEF InCall, Staged
<1>2. TypeOK'
  BY <1>1 DEF TypeOK, Steps, States, staging, cache, history
<1>3. InCall'
  BY DEF TypeOK, InCall, Tx
<1>4. ReadsUnstaged'
  BY ReadingEnds DEF Steps, staging
<1> QED
  BY <1>2, <1>3, <1>4, StagingUnaffected DEF staging, history

LEMMA PrepareRefusedStages ==
    ASSUME StagingInv, NEW g \in Goroutines, PrepareRefused(g)
    PROVE  StagingInv'
<1> USE DEF StagingInv, PrepareRefused, At
<1>1. CASE Abort(g)
  BY <1>1, EndStages DEF Abort, States, TypeOK
<1>2. CASE Return(g, "error") /\ UNCHANGED <<state, closed, holder>>
  <2>1. TypeOK'
    BY <1>2, ReturnStages DEF TypeOK, staging, cache
  <2> QED
    BY <1>2, <2>1, ReturnStages, StagingUnaffected DEF staging
<1> QED
  BY <1>1, <1>2

LEMMA ValidateStages ==
    ASSUME StagingInv, NEW g \in Goroutines, NEW k \in Keys, Validate(g, k)
    PROVE  StagingInv'
<1> USE DEF StagingInv, Validate
<1>1. TypeOK'
  BY DEF TypeOK, status, staging, cache, history
<1> QED
  BY <1>1, StagingUnaffected DEF status, staging, history

LEMMA FaultCounted ==
    ASSUME TypeOK, NEW kind, Fault(kind)
    PROVE  /\ faults' \in 0..MaxFaults /\ faults' > 0 /\ kind \in setting.faultKinds
           /\ faults \in Nat
BY TransactionAssumption DEF TypeOK, Fault

LEMMA ValidateFailedStages ==
    ASSUME StagingInv, NEW g \in Goroutines, NEW k \in Keys, ValidateFailed(g, k)
    PROVE  StagingInv'
<1>1. faults' \in 0..MaxFaults
  BY FaultCounted DEF ValidateFailed, StagingInv, TypeOK
<1> QED
  BY <1>1, EndStages DEF ValidateFailed, At, Abort, States, StagingInv, TypeOK

LEMMA PreparedStages ==
    ASSUME StagingInv, NEW g \in Goroutines, Prepared(g)
    PROVE  StagingInv'
<1> USE DEF StagingInv, Prepared, At
<1>1. CASE Abort(g)
  BY <1>1, EndStages DEF Abort, States, TypeOK
<1>2. CASE End(g, "preparing", "nil")
  BY <1>2, EndStages DEF States, TypeOK
<1>3. CASE /\ committing[g] /\ holder' = [holder EXCEPT ![Tx(g)] = None]
           /\ pc' = [pc EXCEPT ![g] = "relock"]
           /\ UNCHANGED <<state, closed, committing, prepared, todo, next, failed,
                          reading, outcome>>
  <2>1. Tx(g) \in Txs
    BY Mine DEF InCall
  <2>2. TypeOK'
    BY <1>3, <2>1 DEF TypeOK, Steps, staging, cache
  <2>3. InCall'
    BY <1>3 DEF TypeOK, InCall, Tx
  <2>4. ReadsUnstaged'
    BY <1>3, ReadingEnds DEF Steps, staging
  <2> QED
    BY <1>3, <2>2, <2>3, <2>4, StagingUnaffected DEF staging
<1> QED
  BY <1>1, <1>2, <1>3

\* Commit takes the mutex, or its last hook fails.
LEMMA BeginPublishStages ==
    ASSUME StagingInv, NEW g \in Goroutines, Tx(g) # None, BeginPublish(g),
           committing' = [committing EXCEPT ![g] = TRUE],
           promised' \in [Goroutines -> SUBSET Keys],
           outcome' \in [Goroutines -> {"none", "nil", "error"}]
    PROVE  StagingInv'
<1> USE DEF StagingInv, BeginPublish
<1>1. Tx(g) \in Txs
  BY Mine
<1>2. PICK stage \in {"publish", "undo"} : pc' = [pc EXCEPT ![g] = stage]
  OBVIOUS
<1>3. TypeOK'
  <2>1. state' \in [Txs -> States] /\ next' \in [Goroutines -> Nat]
    BY <1>1 DEF TypeOK, States
  <2>2. holder' = holder \/ holder' = [holder EXCEPT ![Tx(g)] = g]
    OBVIOUS
  <2>3. holder' \in [Txs -> Goroutines \cup {None}]
    BY <1>1, <2>2 DEF TypeOK
  <2>4. pc' \in [Goroutines -> Steps]
    BY <1>2 DEF TypeOK, Steps
  <2>5. committing' \in [Goroutines -> BOOLEAN]
    BY DEF TypeOK
  <2> QED
    BY <2>1, <2>3, <2>4, <2>5 DEF TypeOK, staging, cache
<1>4. InCall'
  BY <1>2 DEF TypeOK, InCall, Tx
<1>5. ReadsUnstaged'
  BY <1>2, ReadingEnds DEF Steps, staging
<1> QED
  BY <1>3, <1>4, <1>5, StagingUnaffected DEF staging

LEMMA CommitPreparedStages ==
    ASSUME StagingInv, NEW g \in Goroutines, CommitPrepared(g)
    PROVE  StagingInv'
BY BeginPublishStages
DEF CommitPrepared, CommitCalled, MayCommit, Calling, Staged, StagingInv, TypeOK

LEMMA CommitActiveStages ==
    ASSUME StagingInv, NEW g \in Goroutines, CommitActive(g)
    PROVE  StagingInv'
<1> USE DEF StagingInv, CommitActive, CommitCalled, MayCommit, Calling
<1>1. Tx(g) \in Txs /\ Staged(Tx(g)) \subseteq Keys
  BY Mine DEF Staged
<1>2. TypeOK'
  BY <1>1 DEF TypeOK, Steps, status, staging, cache
<1>3. InCall'
  BY DEF TypeOK, InCall, Tx, status
<1>4. ReadsUnstaged'
  BY ReadingEnds DEF Steps, status, staging
<1> QED
  BY <1>2, <1>3, <1>4, StagingUnaffected DEF status, staging

LEMMA RelockStages ==
    ASSUME StagingInv, NEW g \in Goroutines, Relock(g)
    PROVE  StagingInv'
<1>1. committing[g] /\ Tx(g) # None
  BY DEF StagingInv, InCall, Relock, At
<1>2. committing' = [committing EXCEPT ![g] = TRUE]
  BY <1>1 DEF StagingInv, TypeOK, Relock
<1> QED
  BY <1>1, <1>2, BeginPublishStages DEF Relock, StagingInv, TypeOK

\* What is rolled back is no longer staged.
LEMMA RollBackStages ==
    ASSUME StagingInv, NEW t \in Txs, RollBack(t), UNCHANGED <<setting, seen>>
    PROVE  /\ OrderFits' /\ SeenFits'
           /\ state' \in [Txs -> States] /\ closed' \in [Txs -> BOOLEAN]
           /\ ops' \in [Txs -> [Keys -> Ops \cup {None}]] /\ order' \in [Txs -> Seq(Keys)]
           /\ \A u \in Txs, k \in Keys : ops'[u][k] # None => ops'[u][k] = ops[u][k]
<1> USE DEF StagingInv, RollBack
<1>1. /\ state' \in [Txs -> States] /\ closed' \in [Txs -> BOOLEAN]
      /\ ops' \in [Txs -> [Keys -> Ops \cup {None}]]
      /\ \A u \in Txs, k \in Keys : ops'[u][k] # None => ops'[u][k] = ops[u][k]
  BY DEF TypeOK, States
<1>2. order' \in [Txs -> Seq(Keys)]
  BY DEF TypeOK
<1>3. OrderFits'
  <2>1. Staged(t)' = {} /\ InOrder(t)' = {}
    BY DEF Staged, InOrder, TypeOK
  <2>2. \A u \in Txs \ {t} : Staged(u)' = Staged(u) /\ InOrder(u)' = InOrder(u)
    BY DEF Staged, InOrder, TypeOK
  <2> QED
    BY <2>1, <2>2 DEF OrderFits
<1>4. SeenFits'
  <2>1. \A u \in Txs : Alone(u)' <=> Alone(u)
    BY DEF Alone, Tx
  <2> QED
    BY <1>1, <2>1 DEF SeenFits
<1> QED
  BY <1>1, <1>2, <1>3, <1>4

LEMMA RollbackStages ==
    ASSUME StagingInv, NEW g \in Goroutines, Rollback(g)
    PROVE  StagingInv'
<1> USE DEF StagingInv, Rollback, Calling
<1>1. Tx(g) \in Txs
  BY Mine
<1>2. TypeOK'
  BY <1>1, RollBackStages DEF TypeOK, cache, call, history
<1>3. ReadsUnstaged'
  <2>1. \A h \in Goroutines :
            /\ Tx(h)' = Tx(h) /\ (Alone(Tx(h)) <=> Alone(Tx(h))')
            /\ pc[h] \in {"get", "cache"} => Tx(h) \in Txs /\ reading[h][1] \in Keys
    BY Mine DEF InCall, Tx, Alone
  <2> QED
    BY <1>1, <2>1, RollBackStages DEF ReadsUnstaged, call, history
<1> QED
  BY <1>1, <1>2, <1>3, RollBackStages, StagingUnaffected DEF call, history

LEMMA UndoStages ==
    ASSUME StagingInv, NEW g \in Goroutines, Undo(g)
    PROVE  StagingInv'
<1> USE DEF StagingInv, Undo, At
<1>1. Tx(g) \in Txs /\ Return(g, "error")
  BY Mine DEF InCall
<1>2. CASE RollBack(Tx(g))
  <2>1. PICK t \in Txs : RollBack(t)
    BY <1>1, <1>2
  <2>2. TypeOK'
    <3>1. /\ pc' \in [Goroutines -> Steps] /\ reading' = reading
          /\ committing' \in [Goroutines -> BOOLEAN] /\ prepared' \in [Goroutines -> BOOLEAN]
          /\ todo' \in [Goroutines -> SUBSET Keys] /\ next' \in [Goroutines -> Nat]
          /\ failed' \in [Goroutines -> BOOLEAN]
          /\ outcome' \in [Goroutines -> {"none", "nil", "error"}]
      <4>1. prepared' \in [Goroutines -> BOOLEAN]
        BY Zenon, <1>1 DEF Return, TypeOK
      <4> QED
        BY <1>1, <4>1 DEF Return, TypeOK, Steps
    <3>2. /\ state' \in [Txs -> States] /\ closed' \in [Txs -> BOOLEAN]
          /\ ops' \in [Txs -> [Keys -> Ops \cup {None}]] /\ order' \in [Txs -> Seq(Keys)]
      BY <2>1, RollBackStages
    <3> QED
      BY <3>1, <3>2 DEF TypeOK, cache
  <2>3. InCall'
    BY <1>1 DEF InCall, Return, TypeOK, Tx
  <2>4. ReadsUnstaged'
    <3>1. \A h \in Goroutines :
              /\ Tx(h)' = Tx(h) /\ (Alone(Tx(h)) <=> Alone(Tx(h))')
              /\ pc'[h] \in {"get", "cache"} =>
                     /\ pc[h] \in {"get", "cache"} /\ reading'[h][1] = reading[h][1]
                     /\ Tx(h) \in Txs /\ reading[h][1] \in Keys
      BY <1>1, Mine DEF InCall, Tx, Alone, Return, TypeOK
    <3>2. \A u \in Txs, k \in Keys : ops'[u][k] # None => ops'[u][k] = ops[u][k]
      BY <2>1, RollBackStages
    <3>3. \A h \in Goroutines :
              pc'[h] \in {"get", "cache"} /\ Alone(Tx(h)) => ops'[Tx(h)][reading[h][1]] = None
      BY <3>1, <3>2 DEF ReadsUnstaged
    <3> QED
      BY <3>1, <3>3 DEF ReadsUnstaged
  <2> QED
    BY <2>1, <2>2, <2>3, <2>4, RollBackStages
<1>3. CASE UNCHANGED <<state, closed, staging>>
  <2>1. TypeOK'
    BY <1>1, <1>3, ReturnStages DEF TypeOK, staging, cache
  <2> QED
    BY <1>1, <1>3, <2>1, ReturnStages, StagingUnaffected DEF staging
<1> QED
  BY <1>2, <1>3

-------------------------------------------------------------------------------
(***************************************************************************)
(* Publishing.                                                             *)
(***************************************************************************)

\* The next operation is a staged one.
LEMMA NextIsStaged ==
    ASSUME StagingInv, NEW g \in Goroutines, Unfinished(g)
    PROVE  /\ Tx(g) \in Txs /\ next[g] \in 1..Len(order[Tx(g)])
           /\ order[Tx(g)][next[g]] \in Staged(Tx(g)) /\ Staged(Tx(g)) \subseteq Keys
<1>1. Tx(g) \in Txs /\ next[g] \in Nat /\ next[g] >= 1
  BY Mine DEF StagingInv, InCall, Unfinished, At, TypeOK
<1>2. next[g] \in 1..Len(order[Tx(g)])
  BY <1>1, OrderIndexed DEF Unfinished, StagingInv
<1>3. order[Tx(g)][next[g]] \in InOrder(Tx(g))
  BY <1>1, <1>2, OrderIndexed DEF StagingInv
<1> QED
  BY <1>1, <1>2, <1>3 DEF StagingInv, OrderFits, Staged

\* What is published was staged.
LEMMA AppliesFitting ==
    ASSUME StagingInv, NEW t \in Txs, NEW ks, ks \subseteq Staged(t), Apply(t, ks)
    PROVE  object' \in [Keys -> ETags \cup {None}] /\ applied' \in [Txs -> SUBSET Keys]
<1>1. \A k \in ks : k \in Keys /\ ops[t][k] \in Ops
  BY DEF Staged, StagingInv, TypeOK
<1>2. \A k \in ks : ops[t][k].data \in ETags \cup {None}
  BY <1>1, OperationsGiven
<1> QED
  BY <1>1, <1>2 DEF Apply, StagingInv, TypeOK

\* Commit goes on with the next operation.
LEMMA AdvanceStages ==
    ASSUME StagingInv, NEW g \in Goroutines, NEW error \in BOOLEAN, Advance(g, error),
           object' \in [Keys -> ETags \cup {None}], faults' \in 0..MaxFaults,
           applied' \in [Txs -> SUBSET Keys],
           UNCHANGED <<setting, partial, expired, staging, cache, seen, promised>>
    PROVE  StagingInv'
<1> USE DEF StagingInv, Advance
<1>1. failed' \in [Goroutines -> BOOLEAN]
  BY Zenon DEF TypeOK
<1>2. TypeOK'
  BY <1>1 DEF TypeOK, staging, cache
<1>3. InCall'
  BY DEF TypeOK, InCall, Tx
<1> QED
  BY <1>2, <1>3, StagingUnaffected DEF staging

LEMMA RefuseStages ==
    ASSUME StagingInv, NEW g \in Goroutines, pc[g] # "idle", Refuse(g) \/ Abort(g),
           object' \in [Keys -> ETags \cup {None}], faults' \in 0..MaxFaults,
           applied' \in [Txs -> SUBSET Keys],
           UNCHANGED <<setting, partial, expired, staging, cache, seen, promised>>
    PROVE  StagingInv'
<1>1. Advance(g, TRUE) \/ End(g, "aborted", "error")
  BY DEF Refuse, Abort
<1> QED
  BY <1>1, AdvanceStages, EndStages DEF States

LEMMA PublishBatchStages ==
    ASSUME StagingInv, NEW g \in Goroutines, PublishBatch(g)
    PROVE  StagingInv'
<1> USE DEF PublishBatch, At
<1>1. Tx(g) \in Txs /\ InOrder(Tx(g)) = Staged(Tx(g)) /\ faults \in 0..MaxFaults
  BY Mine DEF StagingInv, InCall, OrderFits, TypeOK
<1>2. CASE Apply(Tx(g), InOrder(Tx(g))) /\ End(g, "committed", "nil")
  BY <1>1, <1>2, AppliesFitting, EndStages DEF States
<1>3. CASE Abort(g) /\ UNCHANGED <<object, applied>>
  BY <1>1, <1>3, RefuseStages DEF StagingInv, TypeOK
<1> QED
  BY <1>2, <1>3

LEMMA PublishNextStages ==
    ASSUME StagingInv, NEW g \in Goroutines, PublishNext(g)
    PROVE  StagingInv'
<1> DEFINE k == order[Tx(g)][next[g]]
<1> USE DEF PublishNext
<1>1. Tx(g) \in Txs /\ {k} \subseteq Staged(Tx(g)) /\ faults \in 0..MaxFaults
  BY NextIsStaged DEF StagingInv, TypeOK
<1>2. CASE Apply(Tx(g), {k}) /\ Advance(g, FALSE)
  BY <1>1, <1>2, AppliesFitting, AdvanceStages
<1>3. CASE Refuse(g) /\ UNCHANGED <<object, applied>>
  BY <1>1, <1>3, RefuseStages DEF StagingInv, TypeOK, Unfinished, At
<1> QED
  BY <1>2, <1>3

LEMMA PublishFailedStages ==
    ASSUME StagingInv, NEW g \in Goroutines, PublishFailed(g)
    PROVE  StagingInv'
<1>1. faults' \in 0..MaxFaults
  BY FaultCounted DEF PublishFailed, StagingInv
<1> QED
  BY <1>1, RefuseStages DEF PublishFailed, Unfinished, At, StagingInv, TypeOK

LEMMA PublishUnansweredStages ==
    ASSUME StagingInv, NEW g \in Goroutines, PublishUnanswered(g)
    PROVE  StagingInv'
<1> DEFINE k == order[Tx(g)][next[g]]
<1>1. Tx(g) \in Txs /\ {k} \subseteq Staged(Tx(g)) /\ pc[g] # "idle"
  BY NextIsStaged DEF PublishUnanswered, Unfinished, At
<1>2. object' \in [Keys -> ETags \cup {None}] /\ applied' \in [Txs -> SUBSET Keys]
  BY <1>1, AppliesFitting DEF PublishUnanswered
<1>3. faults' \in 0..MaxFaults
  BY FaultCounted DEF PublishUnanswered, StagingInv
<1>4. UNCHANGED <<setting, partial, expired, staging, cache, seen, promised>>
  BY DEF PublishUnanswered
<1>5. CASE Refuse(g)
  BY <1>1, <1>2, <1>3, <1>4, <1>5, RefuseStages
<1>6. CASE UNCHANGED <<state, closed, holder, call, outcome>>
  <2>1. TypeOK'
    BY <1>2, <1>3, <1>4, <1>6 DEF StagingInv, TypeOK, staging, cache, call
  <2> QED
    BY <1>4, <1>6, <2>1, StagingUnaffected DEF StagingInv, staging, call
<1> QED
  BY <1>5, <1>6 DEF PublishUnanswered

LEMMA PublishedStages ==
    ASSUME StagingInv, NEW g \in Goroutines, Published(g)
    PROVE  StagingInv'
BY EndStages DEF Published, At, States, StagingInv, TypeOK

-------------------------------------------------------------------------------
(***************************************************************************)
(* The invariant of staging, and its consequences.                         *)
(***************************************************************************)

LEMMA OthersStage ==
    ASSUME StagingInv, \/ \E k \in Keys, v \in ETags \cup {None} : WriteOutside(k, v)
                       \/ \E t \in Txs : Expire(t)
                       \/ UNCHANGED vars
    PROVE  StagingInv'
<1> USE DEF StagingInv
<1>1. ASSUME NEW k \in Keys, NEW v \in ETags \cup {None}, WriteOutside(k, v) PROVE StagingInv'
  <2>1. TypeOK'
    BY <1>1 DEF WriteOutside, TypeOK, status, staging, cache, call, history
  <2> QED
    BY <1>1, <2>1, StagingUnaffected DEF WriteOutside, status, staging, call, history
<1>2. ASSUME NEW t \in Txs, Expire(t) PROVE StagingInv'
  <2>1. TypeOK'
    BY <1>2 DEF Expire, TypeOK, staging, cache, call, history
  <2> QED
    BY <1>2, <2>1, StagingUnaffected DEF Expire, staging, call, history
<1>3. ASSUME UNCHANGED vars PROVE StagingInv'
  <2>1. TypeOK'
    BY <1>3 DEF vars, TypeOK, status, staging, cache, call, history
  <2> QED
    BY <1>3, <2>1, StagingUnaffected DEF vars, status, staging, call, history
<1> QED
  BY <1>1, <1>2, <1>3

LEMMA StagingInitially == Init => StagingInv
<1> SUFFICES ASSUME Init PROVE StagingInv
  OBVIOUS
<1> USE DEF Init
<1>1. order \in [Txs -> Seq(Keys)]
  OBVIOUS
<1>2. TypeOK
  BY <1>1, TransactionAssumption DEF TypeOK, States, Steps, Unread
<1>3. OrderFits
  BY DEF OrderFits, Staged, InOrder
<1> QED
  BY <1>2, <1>3 DEF StagingInv, InCall, ReadsUnstaged, SeenFits

LEMMA StagingKept == StagingInv /\ [Next]_vars => StagingInv'
<1> SUFFICES ASSUME StagingInv, [Next]_vars PROVE StagingInv'
  OBVIOUS
<1>1. ASSUME NEW g \in Goroutines, Staging(g) PROVE StagingInv'
  BY <1>1, PutStages, DeleteStages DEF Staging
<1>2. ASSUME NEW g \in Goroutines, Reading(g) PROVE StagingInv'
  BY <1>2, GetStages, GetAnsweredStages, GetCachedStages, HeadStages DEF Reading
<1>3. ASSUME NEW g \in Goroutines, Preparing(g) PROVE StagingInv'
  BY <1>3, PrepareStages, BeginPrepareStages, PrepareRefusedStages, ValidateStages,
     ValidateFailedStages, PreparedStages
  DEF Preparing
<1>4. ASSUME NEW g \in Goroutines, Committing(g) PROVE StagingInv'
  BY <1>4, CommitPreparedStages, CommitActiveStages, RelockStages, PublishBatchStages,
     PublishNextStages, PublishFailedStages, PublishUnansweredStages, PublishedStages, UndoStages
  DEF Committing
<1> QED
  BY <1>1, <1>2, <1>3, <1>4, RollbackStages, OthersStage DEF Next

LEMMA StagingInduction == Spec => []StagingInv
BY StagingInitially, StagingKept, PTL DEF Spec

\* Type correctness of transactions.
THEOREM TypeCorrect == Spec => []TypeOK
<1>1. StagingInv => TypeOK
  BY DEF StagingInv
<1> QED
  BY <1>1, StagingInduction, PTL

\* A put whose condition allows it replaces what was seen.
LEMMA AllowedReplaces ==
    ASSUME StagingInv, NEW t \in Txs, NEW k \in Staged(t), Alone(t), ops[t][k].type = "put",
           Allowed(t, k)
    PROVE  object[k] = seen[t][k]
<1>1. /\ k \in Keys /\ OnlyReplaces(ops[t][k].cond, seen[t][k])
      /\ PutAllowed(object[k], ops[t][k].cond)
  BY DEF Staged, StagingInv, SeenFits, Allowed
<1> QED
  BY <1>1 DEF OnlyReplaces, PutAllowed

\* Only what is staged and allowed is published.
LEMMA PublishesAllowed ==
    ASSUME StagingInv, Next, NEW t \in Txs, NEW k \in Keys, k \in applied'[t] \ applied[t]
    PROVE  k \in Staged(t) /\ Allowed(t, k)
<1>1. ASSUME NEW g \in Goroutines, PublishBatch(g) PROVE k \in Staged(t) /\ Allowed(t, k)
  <2>1. Tx(g) \in Txs /\ InOrder(Tx(g)) = Staged(Tx(g))
    BY <1>1, Mine DEF PublishBatch, At, StagingInv, InCall, OrderFits
  <2>2. /\ applied' = [applied EXCEPT ![Tx(g)] = @ \cup InOrder(Tx(g))]
        /\ \A j \in InOrder(Tx(g)) : Allowed(Tx(g), j)
    BY <1>1 DEF PublishBatch, Apply
  <2>3. t = Tx(g) /\ k \in InOrder(t)
    BY <2>1, <2>2 DEF StagingInv, TypeOK
  <2> QED
    BY <2>1, <2>2, <2>3
<1>2. ASSUME NEW g \in Goroutines, PublishNext(g) PROVE k \in Staged(t) /\ Allowed(t, k)
  <2> DEFINE j == order[Tx(g)][next[g]]
  <2>1. Tx(g) \in Txs /\ j \in Staged(Tx(g))
    BY <1>2, NextIsStaged DEF PublishNext
  <2>2. applied' = [applied EXCEPT ![Tx(g)] = @ \cup {j}] /\ Allowed(Tx(g), j)
    BY <1>2 DEF PublishNext, Apply
  <2>3. t = Tx(g) /\ k = j
    BY <2>1, <2>2 DEF StagingInv, TypeOK
  <2> QED
    BY <2>1, <2>2, <2>3
<1>3. ASSUME NEW g \in Goroutines, PublishUnanswered(g) PROVE k \in Staged(t) /\ Allowed(t, k)
  BY <1>3, NextIsStaged DEF PublishUnanswered, Apply, StagingInv, TypeOK
<1>4. ASSUME applied' = applied PROVE FALSE
  BY <1>4
<1>5. ASSUME NEW g \in Goroutines, Staging(g) \/ Reading(g) \/ Preparing(g) \/ Rollback(g)
      PROVE  applied' = applied
  BY <1>5
  DEF Staging, Put, Delete, Reading, Get, GetAnswered, GetCached, HeadObject, Preparing, Prepare,
      BeginPrepare, PrepareRefused, Validate, ValidateFailed, Prepared, Rollback, history
<1>6. ASSUME NEW g \in Goroutines,
             \/ CommitPrepared(g) \/ CommitActive(g) \/ Relock(g) \/ PublishFailed(g)
             \/ Published(g) \/ Undo(g)
      PROVE  applied' = applied
  BY <1>6
  DEF CommitPrepared, CommitActive, Relock, BeginPublish, PublishFailed, Published, Undo
<1>7. ASSUME \/ \E j \in Keys, v \in ETags \cup {None} : WriteOutside(j, v)
             \/ \E u \in Txs : Expire(u)
      PROVE  applied' = applied
  BY <1>7 DEF WriteOutside, Expire, history
<1> QED
  BY <1>1, <1>2, <1>3, <1>4, <1>5, <1>6, <1>7 DEF Next, Committing

\* Every put replaces what its transaction saw, or what its caller named, however many
\* writers there are.
THEOREM PutsReplace == Spec => PutsReplaceWhatWasSeen
<1>1. ASSUME StagingInv, [Next]_vars, NEW t \in Txs, NEW k \in Keys, Alone(t),
             Publishes(t, k, "put")
      PROVE  object[k] = seen[t][k]
  <2>1. k \in applied'[t] \ applied[t] /\ ops[t][k].type = "put"
    BY <1>1 DEF Publishes
  <2>2. Next
    BY <1>1, <2>1 DEF vars, history
  <2> QED
    BY <1>1, <2>1, <2>2, PublishesAllowed, AllowedReplaces
<1>2. StagingInv /\ [Next]_vars =>
          [\A t \in Txs, k \in Keys :
               Alone(t) /\ Publishes(t, k, "put") => object[k] = seen[t][k]]_vars
  BY <1>1
<1> QED
  BY <1>2, StagingInduction, PTL DEF Spec, PutsReplaceWhatWasSeen

-------------------------------------------------------------------------------
(***************************************************************************)
(* Committing, when transactions are used in an orderly way: what a step   *)
(* does to the transaction and to the goroutine that takes it, and to      *)
(* nobody else.                                                            *)
(***************************************************************************)

\* Other goroutines, other transactions.
LEMMA Others ==
    ASSUME TypeOK, UNCHANGED setting
    PROVE  /\ \A h \in Goroutines : Tx(h)' = Tx(h) /\ (Tx(h) # None => Tx(h) \in Txs)
           /\ Lost /\ faults' \in Nat /\ faults' >= faults => Lost'
BY Mine DEF Tx, Lost, TypeOK

\* Whoever has a mutex is between two storage calls.
LEMMA HeldElsewhere ==
    ASSUME TypeOK, Holding, NEW g \in Goroutines, pc[g] \notin {"validate", "publish"},
           NEW u \in Txs, holder[u] # None
    PROVE  holder[u] \in Goroutines \ {g}
<1>1. holder[u] \in Goroutines
  BY DEF TypeOK
<1>2. pc[holder[u]] \in {"validate", "publish"}
  BY DEF Holding
<1> QED
  BY <1>1, <1>2

\* A Prepare or a Commit ends.
LEMMA EndCommits ==
    ASSUME Orderly, StagingInv, CommitInv, NEW g \in Goroutines, NEW t \in Txs, t = Tx(g),
           NEW s \in {"preparing", "committed", "aborted"}, NEW result \in {"nil", "error"},
           End(g, s, result),
           \/ pc[g] \in {"validate", "publish"}
           \/ pc[g] = "prepare" /\ Free(t) /\ state[t] = "active",
           UNCHANGED <<setting, partial, ops, order, promised>>,
           \A u \in Txs : applied[u] \subseteq applied'[u] /\ (u # t => applied'[u] = applied[u]),
           faults' \in Nat, faults' >= faults,
           s = "preparing" => applied'[t] = {},
           s = "committed" /\ t \notin partial => applied'[t] = Staged(t),
           s = "aborted" /\ t \notin partial => applied'[t] = {} \/ Lost',
           committing[g] /\ result = "nil" => Staged(t) \subseteq applied'[t]
    PROVE  CommitInv'
<1> USE DEF StagingInv, CommitInv
<1>1. /\ state' = [state EXCEPT ![t] = s] /\ holder' = [holder EXCEPT ![t] = None]
      /\ state'[t] = s /\ holder'[t] = None
      /\ \A u \in Txs \ {t} : state'[u] = state[u] /\ holder'[u] = holder[u]
  BY DEF End, TypeOK
<1>2. /\ pc'[g] = "idle" /\ ~committing'[g] /\ ~failed'[g]
      /\ prepared'[g] => s # "active"
      /\ outcome'[g] = IF committing[g] THEN result ELSE outcome[g]
      /\ \A h \in Goroutines \ {g} :
             /\ pc'[h] = pc[h] /\ committing'[h] = committing[h] /\ prepared'[h] = prepared[h]
             /\ failed'[h] = failed[h] /\ next'[h] = next[h] /\ outcome'[h] = outcome[h]
  BY DEF End, Return, TypeOK
<1>3. \A h \in Goroutines : Tx(h)' = Tx(h) /\ (Tx(h) # None => Tx(h) \in Txs)
  BY Others
<1>4. \A h \in Goroutines \ {g} :
          Tx(h) = t => pc[h] \notin {"validate", "publish", "undo", "relock"}
  <2> SUFFICES ASSUME NEW h \in Goroutines \ {g}, Tx(h) = t,
                      pc[h] \in {"validate", "publish", "undo", "relock"}
               PROVE  FALSE
    OBVIOUS
  <2>1. t # None /\ g # None
    BY SettingFits
  <2>2. CASE pc[h] = "relock"
    BY <2>1, <2>2, ByOneself DEF Undisturbed, InCall
  <2>3. CASE pc[h] \in {"validate", "publish"}
    BY <2>3, SettingFits DEF Holding, Free
  <2>4. CASE pc[h] = "undo"
    BY <2>1, <2>4, SettingFits DEF Holding, Undisturbed
  <2> QED
    BY <2>2, <2>3, <2>4
<1>5. \A u \in Txs : Staged(u)' = Staged(u) /\ (InBatch(u)' <=> InBatch(u))
  BY DEF Staged, InBatch
<1>6. Lost => Lost'
  BY Others
<1>7. Holding'
  <2>1. \A u \in Txs : holder'[u] # None =>
            u # t /\ holder[u] = holder'[u] /\ holder[u] \in Goroutines \ {g}
    BY <1>1, SettingFits DEF TypeOK, Holding
  <2> QED
    BY <1>1, <1>2, <1>3, <1>4, <2>1 DEF Holding, InCall
<1>8. ClosedFits'
  <2>1. closed'[t] = (closed[t] \/ s = "committed") /\ \A u \in Txs \ {t} : closed'[u] = closed[u]
    BY Zenon DEF End, TypeOK
  <2>2. ~closed[t]
    BY SettingFits DEF Holding, ClosedFits
  <2> QED
    BY <1>1, <2>1, <2>2 DEF ClosedFits
<1>9. Undisturbed'
  BY <1>1, <1>2, <1>3, <1>4, SettingFits DEF Undisturbed, InCall
<1>10. Untouched'
  BY <1>1 DEF Untouched
<1>11. PublishFits'
  BY <1>2, <1>3, <1>4, <1>5, <1>6 DEF PublishFits, InCall
<1>12. PromiseFits'
  <2>1. \A h \in Goroutines : committing[h] => Tx(h) \in Txs
    BY <1>3 DEF InCall
  <2>2. \A h \in Goroutines : outcome'[h] = "nil" => Tx(h) # None
    BY <1>2, <1>3, SettingFits DEF PromiseFits
  <2> QED
    BY <1>2, <1>3, <1>5, <2>1, <2>2 DEF PromiseFits
<1>13. AllOrNothing'
  BY <1>1, <1>5, <1>6 DEF AllOrNothing, Lost
<1>14. NilMeansApplied'
  <2>1. committing[g] /\ result = "nil" => promised[g] \subseteq Staged(t)
    <3>1. committing[g] /\ result = "nil" => pc[g] # "undo"
      OBVIOUS
    <3> QED
      BY <3>1 DEF PromiseFits
  <2>2. ASSUME NEW h \in Goroutines, outcome'[h] = "nil" PROVE promised[h] \subseteq applied'[Tx(h)]
    <3>1. CASE outcome[h] = "nil"
      BY <1>3, <3>1 DEF NilMeansApplied, PromiseFits
    <3>2. CASE h = g /\ committing[g] /\ result = "nil"
      BY <2>1, <3>2
    <3> QED
      BY <1>2, <2>2, <3>1, <3>2
  <2> QED
    BY <1>3, <2>2 DEF NilMeansApplied
<1> QED
  BY <1>7, <1>8, <1>9, <1>10, <1>11, <1>12, <1>13, <1>14

\* Commit goes on with the next operation.
LEMMA AdvanceCommits ==
    ASSUME StagingInv, CommitInv, NEW g \in Goroutines, NEW t \in Txs, t = Tx(g),
           Unfinished(g), NEW error \in BOOLEAN, Advance(g, error),
           UNCHANGED <<setting, partial, ops, order, promised>>,
           \A u \in Txs : applied[u] \subseteq applied'[u] /\ (u # t => applied'[u] = applied[u]),
           faults' \in Nat, faults' >= faults,
           applied'[t] \subseteq Staged(t),
           ~error => order[t][next[g]] \in applied'[t],
           t \notin partial => ~error
    PROVE  CommitInv'
<1> USE DEF StagingInv, CommitInv, Advance
<1>1. pc[g] = "publish" /\ holder[t] = g /\ state[t] = "committing" /\ g # None
  BY SettingFits DEF Unfinished, At, Holding
<1>2. \A h \in Goroutines : Tx(h)' = Tx(h) /\ (Tx(h) # None => Tx(h) \in Txs)
  BY Others
<1>3. \A h \in Goroutines \ {g} : Tx(h) = t => pc[h] # "publish"
  BY <1>1, Exclusive
<1>4. \A u \in Txs : Staged(u)' = Staged(u) /\ (InBatch(u)' <=> InBatch(u))
  BY DEF Staged, InBatch
<1>5. Untouched' /\ AllOrNothing'
  <2>1. Lost => Lost'
    BY Others
  <2> QED
    BY <1>1, <1>4, <2>1 DEF Untouched, AllOrNothing, Lost
<1>6. NilMeansApplied'
  <2>1. \A h \in Goroutines : outcome[h] = "nil" => Tx(h) \in Txs
    BY <1>2 DEF PromiseFits
  <2> QED
    BY <1>2, <2>1 DEF NilMeansApplied
<1>7. PublishFits'
  <2>1. /\ failed'[g] = (failed[g] \/ error) /\ next'[g] = next[g] + 1
        /\ \A h \in Goroutines \ {g} : failed'[h] = failed[h] /\ next'[h] = next[h]
    <3>1. failed'[g] = (failed[g] \/ error) /\ \A h \in Goroutines \ {g} : failed'[h] = failed[h]
      BY Zenon DEF TypeOK
    <3> QED
      BY <3>1 DEF TypeOK
  <2>2. next[g] \in Nat /\ next[g] >= 1 /\ ~InBatch(t) /\ Len(order[t]) \in Nat
    BY <1>1, OrderIndexed DEF TypeOK, InCall, Unfinished
  <2>3. ~failed'[g] => \A i \in 1..Len(order[t]) : i < next'[g] => order[t][i] \in applied'[t]
    <3> SUFFICES ASSUME ~failed'[g], NEW i \in 1..Len(order[t]), i < next'[g]
                 PROVE  order[t][i] \in applied'[t]
      OBVIOUS
    <3>1. CASE i = next[g]
      BY <2>1, <3>1
    <3>2. CASE i < next[g]
      BY <1>1, <2>1, <3>2 DEF PublishFits
    <3> QED
      BY <2>1, <2>2, <3>1, <3>2
  <2>4. t \notin partial => ~failed'[g]
    BY <1>1, <2>1 DEF PublishFits
  <2>5. Lost => Lost'
    BY Others
  <2>6. ASSUME NEW h \in Goroutines \ {g}, pc[h] = "publish"
        PROVE  Tx(h) \in Txs \ {t}
    BY <1>2, <1>3, <2>6 DEF InCall
  <2> QED
    BY <1>1, <1>2, <1>4, <2>1, <2>2, <2>3, <2>4, <2>5, <2>6 DEF PublishFits
<1> QED
  BY <1>5, <1>6, <1>7, CommitUnaffected

\* Commit takes the mutex, or its last hook fails.
LEMMA BeginPublishCommits ==
    ASSUME Orderly, StagingInv, CommitInv, NEW g \in Goroutines, NEW t \in Txs, t = Tx(g),
           BeginPublish(g), pc[g] \in {"idle", "relock"}, state[t] = "preparing",
           committing' = [committing EXCEPT ![g] = TRUE],
           promised'[g] \subseteq Staged(t),
           \A h \in Goroutines \ {g} : promised'[h] = promised[h] /\ outcome'[h] = outcome[h],
           outcome'[g] = "nil" => outcome[g] = "nil" /\ promised'[g] = promised[g]
    PROVE  CommitInv'
<1> USE DEF StagingInv, CommitInv, BeginPublish
<1>1. PICK stage \in {"publish", "undo"} :
          /\ pc' = [pc EXCEPT ![g] = stage]
          /\ stage = "publish" => holder' = [holder EXCEPT ![t] = g]
          /\ stage = "undo" => holder' = holder
  OBVIOUS
<1>2. /\ holder[t] = None /\ state'[t] = "committing" /\ next'[g] = 1 /\ committing'[g]
      /\ pc'[g] = stage
      /\ \A u \in Txs \ {t} : state'[u] = state[u] /\ holder'[u] = holder[u]
      /\ \A h \in Goroutines \ {g} :
             pc'[h] = pc[h] /\ next'[h] = next[h] /\ committing'[h] = committing[h]
  BY <1>1 DEF Free, TypeOK
<1>3. \A h \in Goroutines : Tx(h)' = Tx(h) /\ (Tx(h) # None => Tx(h) \in Txs)
  BY Others
<1>4. \A h \in Goroutines \ {g} :
          Tx(h) = t => pc[h] \notin {"validate", "publish", "undo", "relock"}
  <2> SUFFICES ASSUME NEW h \in Goroutines \ {g}, Tx(h) = t,
                      pc[h] \in {"validate", "publish", "undo", "relock"}
               PROVE  FALSE
    OBVIOUS
  <2>1. t # None /\ h # None
    BY SettingFits
  <2>2. CASE pc[h] = "relock"
    BY <2>1, <2>2, ByOneself DEF Undisturbed, InCall
  <2>3. CASE pc[h] \in {"validate", "publish"}
    BY <1>2, <2>1, <2>3 DEF Holding
  <2>4. CASE pc[h] = "undo"
    BY <2>4 DEF Undisturbed
  <2> QED
    BY <2>2, <2>3, <2>4
<1>5. /\ UNCHANGED <<ops, order>>
      /\ \A u \in Txs : Staged(u)' = Staged(u) /\ (InBatch(u)' <=> InBatch(u))
  BY DEF Staged, InBatch, staging
<1>6. applied[t] = {}
  BY DEF Untouched
<1>7. Holding'
  <2>1. stage = "publish" => holder'[t] = g
    BY <1>1 DEF TypeOK
  <2>2. stage = "undo" => holder'[t] = None
    BY <1>1, <1>2
  <2>3. \A u \in Txs \ {t} : holder[u] # None => holder[u] \in Goroutines \ {g}
    BY DEF TypeOK, Holding
  <2> QED
    BY <1>2, <1>3, <1>4, <2>1, <2>2, <2>3 DEF Holding, InCall
<1>8. ClosedFits'
  BY <1>2 DEF ClosedFits
<1>9. Undisturbed'
  BY <1>1, <1>2, <1>3, <1>4 DEF Undisturbed, InCall
<1>10. Untouched'
  BY <1>2, <1>6 DEF Untouched
<1>11. PublishFits'
  <2>1. ~failed[g] /\ failed' = failed
    BY DEF PublishFits
  <2>2. \A i \in 1..Len(order[t]) : ~(i < 1)
    BY OrderIndexed
  <2>3. Lost' <=> Lost
    BY DEF Lost
  <2>4. ASSUME NEW h \in Goroutines \ {g}
        PROVE  /\ pc'[h] = pc[h] /\ failed'[h] = failed[h] /\ next'[h] = next[h]
               /\ pc[h] = "publish" => Tx(h) \in Txs \ {t}
    BY <1>2, <1>3, <1>4, <2>1 DEF InCall
  <2> QED
    BY <1>2, <1>3, <1>5, <1>6, <2>1, <2>2, <2>3, <2>4 DEF PublishFits
<1>12. PromiseFits'
  <2>1. \A h \in Goroutines : committing[h] => Tx(h) \in Txs
    BY <1>3 DEF InCall
  <2>2. \A h \in Goroutines : outcome'[h] = "nil" => Tx(h) # None
    BY <1>3 DEF PromiseFits
  <2> QED
    BY <1>2, <1>3, <1>5, <2>1, <2>2 DEF PromiseFits
<1>13. AllOrNothing'
  BY <1>2, <1>5 DEF AllOrNothing
<1>14. NilMeansApplied'
  <2>1. \A h \in Goroutines :
            outcome'[h] = "nil" => outcome[h] = "nil" /\ promised'[h] = promised[h]
    OBVIOUS
  <2> QED
    BY <1>3, <2>1 DEF NilMeansApplied
<1> QED
  BY <1>7, <1>8, <1>9, <1>10, <1>11, <1>12, <1>13, <1>14

\* Staging and rolling back change the operations of a transaction while nobody
\* commits it.
LEMMA FreshCommits ==
    ASSUME Orderly, StagingInv, CommitInv, NEW g \in Goroutines, NEW t \in Txs, t = Tx(g),
           pc[g] \in {"idle", "undo"}, holder[t] = None,
           \A u \in Txs \ {t}, k \in Keys : ops'[u][k] = ops[u][k],
           \A u \in Txs \ {t} : order'[u] = order[u],
           UNCHANGED <<setting, partial, applied, faults>>
    PROVE  /\ \A h \in Goroutines \ {g} :
                  Tx(h) = t => /\ pc[h] \notin {"validate", "publish", "relock"}
                               /\ ~(committing[h] /\ pc[h] # "undo")
           /\ UNCHANGED <<pc, failed, next>> => PublishFits'
           /\ UNCHANGED <<pc, committing, promised, outcome>>
              /\ ~(committing[g] /\ pc[g] # "undo") => PromiseFits'
<1> USE DEF StagingInv, CommitInv
<1>1. \A h \in Goroutines : Tx(h)' = Tx(h) /\ (Tx(h) # None => Tx(h) \in Txs)
  BY Others
<1>2. \A h \in Goroutines \ {g} :
          Tx(h) = t => /\ pc[h] \notin {"validate", "publish", "relock"}
                       /\ ~(committing[h] /\ pc[h] # "undo")
  <2> SUFFICES ASSUME NEW h \in Goroutines \ {g}, Tx(h) = t
               PROVE  /\ pc[h] \notin {"validate", "publish", "relock"}
                      /\ ~(committing[h] /\ pc[h] # "undo")
    OBVIOUS
  <2>1. t # None /\ h # None /\ setting.prepareFirst
    BY SettingFits, ByOneself
  <2> QED
    BY <2>1 DEF Undisturbed, Holding, InCall
<1>3. \A u \in Txs \ {t} : Staged(u)' = Staged(u) /\ (InBatch(u)' <=> InBatch(u))
  BY DEF Staged, InBatch
<1>4. Lost' <=> Lost
  BY DEF Lost
<1>5. ASSUME UNCHANGED <<pc, failed, next>> PROVE PublishFits'
  <2>1. \A h \in Goroutines : pc[h] = "publish" => Tx(h) \in Txs \ {t}
    BY <1>1, <1>2 DEF InCall
  <2> QED
    BY <1>1, <1>3, <1>4, <1>5, <2>1 DEF PublishFits
<1>6. ASSUME UNCHANGED <<pc, committing, promised, outcome>>, ~(committing[g] /\ pc[g] # "undo")
      PROVE  PromiseFits'
  <2>1. \A h \in Goroutines : committing[h] /\ pc[h] # "undo" => Tx(h) \in Txs \ {t}
    BY <1>1, <1>2, <1>6 DEF InCall
  <2> QED
    BY <1>1, <1>3, <1>6, <2>1 DEF PromiseFits
<1> QED
  BY <1>2, <1>5, <1>6

-------------------------------------------------------------------------------
(***************************************************************************)
(* The actions.                                                            *)
(***************************************************************************)

LEMMA StagingCommits ==
    ASSUME Orderly, StagingInv, CommitInv, NEW g \in Goroutines, Staging(g)
    PROVE  CommitInv'
<1> USE DEF StagingInv, CommitInv
<1>1. /\ Tx(g) # None /\ pc[g] = "idle" /\ Accepting(Tx(g))
      /\ UNCHANGED <<object, status, holder, call, faults, applied, promised, outcome>>
      /\ \/ UNCHANGED staging
         \/ \E k \in Keys, op \in Ops : Stage(Tx(g), k, op)
  <2>1. ASSUME NEW k \in Keys, NEW c \in GivenConditions, NEW v \in ETags, Put(g, k, v, c),
               ~UNCHANGED staging
        PROVE  \E op \in Ops : Stage(Tx(g), k, op)
    <3>1. Tx(g) \in Txs
      BY <2>1, Mine DEF Put, Calling
    <3> QED
      BY <2>1, <3>1, ConditionStaged, OperationsGiven DEF Put
  <2>2. ASSUME NEW k \in Keys, NEW c \in GivenConditions, Delete(g, k, c), ~UNCHANGED staging
        PROVE  \E op \in Ops : Stage(Tx(g), k, op)
    <3>1. Tx(g) \in Txs
      BY <2>2, Mine DEF Delete, Calling
    <3> QED
      BY <2>2, <3>1, ConditionStaged, OperationsGiven DEF Delete
  <2> QED
    BY <2>1, <2>2 DEF Staging, Put, Delete, Calling
<1>2. PICK t \in Txs : t = Tx(g)
  BY <1>1, Mine
<1>3. holder[t] = None /\ state[t] = "active"
  BY <1>1, <1>2 DEF Accepting, Free
<1>4. /\ \A u \in Txs \ {t}, k \in Keys : ops'[u][k] = ops[u][k]
      /\ \A u \in Txs \ {t} : order'[u] = order[u]
  <2>1. CASE UNCHANGED staging
    BY <2>1 DEF staging
  <2>2. CASE \E k \in Keys, op \in Ops : Stage(t, k, op)
    BY <2>2 DEF Stage, TypeOK
  <2> QED
    BY <1>1, <1>2, <2>1, <2>2
<1>5. PublishFits' /\ PromiseFits'
  BY <1>1, <1>2, <1>3, <1>4, FreshCommits DEF InCall, status, call
<1>6. AllOrNothing'
  BY <1>1, <1>3, <1>4 DEF AllOrNothing, Staged, status
<1> QED
  BY <1>1, <1>5, <1>6, CommitUnaffected DEF status, call

\* A step of a goroutine that does not commit and does not hold the mutex.
LEMMA ElsewhereCommits ==
    ASSUME StagingInv, CommitInv, NEW g \in Goroutines, pc[g] \in {"idle", "get", "cache"},
           NEW stage \in {"idle", "get", "cache", "prepare"}, pc' = [pc EXCEPT ![g] = stage],
           UNCHANGED <<status, staging, holder, committing, prepared, next, failed, faults, applied,
                       promised, outcome>>
    PROVE  CommitInv'
<1> USE DEF StagingInv, CommitInv
<1>1. /\ ~committing[g] /\ pc'[g] = stage
      /\ \A h \in Goroutines \ {g} : pc'[h] = pc[h]
  BY DEF InCall, TypeOK
<1>2. \A h \in Goroutines : Tx(h)' = Tx(h)
  BY DEF Tx, status
<1>3. Holding'
  <2>1. \A u \in Txs : holder[u] # None => holder[u] \in Goroutines \ {g}
    BY HeldElsewhere
  <2> QED
    BY <1>1, <1>2, <2>1 DEF Holding, status
<1>4. Undisturbed'
  BY <1>1, <1>2 DEF Undisturbed, status
<1>5. PublishFits'
  <2>1. \A u \in Txs : Staged(u)' = Staged(u) /\ (InBatch(u)' <=> InBatch(u))
    BY DEF Staged, InBatch, status, staging
  <2>2. \A h \in Goroutines :
            /\ pc'[h] = "publish" => pc[h] = "publish" /\ Tx(h) \in Txs
            /\ pc[h] = "publish" => pc'[h] = "publish"
    BY <1>1, Mine DEF InCall
  <2> QED
    BY <1>2, <2>1, <2>2 DEF PublishFits, Lost, status, staging
<1>6. PromiseFits'
  BY <1>1, <1>2 DEF PromiseFits, Staged, staging
<1> QED
  BY <1>3, <1>4, <1>5, <1>6, CommitUnaffected DEF status, staging

LEMMA ReadingCommits ==
    ASSUME StagingInv, CommitInv, NEW g \in Goroutines, Reading(g) \/ Prepare(g)
    PROVE  CommitInv'
<1>1. ASSUME NEW k \in Keys, HeadObject(g, k) PROVE CommitInv'
  BY <1>1, CommitUnaffected DEF HeadObject, CommitInv, status, staging, call
<1>2. CASE Prepare(g) \/ GetAnswered(g) \/ GetCached(g) \/ \E k \in Keys : Get(g, k)
  <2>1. PICK stage \in {"idle", "get", "cache", "prepare"} : pc' = [pc EXCEPT ![g] = stage]
    BY <1>2 DEF Prepare, GetAnswered, GetCached, Get
  <2> QED
    BY <1>2, <2>1, ElsewhereCommits
    DEF Prepare, GetAnswered, GetCached, Get, Calling, At, history
<1> QED
  BY <1>1, <1>2 DEF Reading

LEMMA BeginPrepareCommits ==
    ASSUME Orderly, StagingInv, CommitInv, NEW g \in Goroutines, BeginPrepare(g)
    PROVE  CommitInv'
<1> USE DEF StagingInv, CommitInv
<1>1. PICK t \in Txs : t = Tx(g)
  BY Mine DEF BeginPrepare, At, InCall
<1>2. /\ pc[g] = "prepare" /\ pc'[g] = "validate" /\ holder[t] = None /\ state[t] = "active"
      /\ holder'[t] = g /\ state'[t] = "preparing"
      /\ \A u \in Txs \ {t} : state'[u] = state[u] /\ holder'[u] = holder[u]
      /\ \A h \in Goroutines \ {g} : pc'[h] = pc[h]
      /\ UNCHANGED <<setting, partial, closed, ops, order, committing, prepared, next, failed,
                     faults, applied, promised, outcome>>
  BY <1>1 DEF BeginPrepare, At, Free, TypeOK, staging, history
<1>3. \A h \in Goroutines : Tx(h)' = Tx(h) /\ (Tx(h) # None => Tx(h) \in Txs)
  BY <1>2, Others
<1>4. \A h \in Goroutines \ {g} :
          Tx(h) = t => pc[h] \notin {"validate", "publish", "undo", "relock"}
  BY <1>2, SettingFits DEF Holding, Undisturbed
<1>5. Holding'
  <2>1. \A u \in Txs \ {t} : holder[u] # None => holder[u] \in Goroutines \ {g}
    BY <1>2, HeldElsewhere
  <2> QED
    BY <1>1, <1>2, <1>3, <1>4, <2>1 DEF Holding, InCall
<1>6. ClosedFits' /\ Untouched' /\ AllOrNothing'
  BY <1>2 DEF ClosedFits, Untouched, AllOrNothing, Staged
<1>7. Undisturbed'
  BY <1>1, <1>2, <1>3, <1>4 DEF Undisturbed, InCall
<1>8. PublishFits'
  <2>1. \A u \in Txs : Staged(u)' = Staged(u) /\ (InBatch(u)' <=> InBatch(u))
    BY <1>2 DEF Staged, InBatch
  <2>2. \A h \in Goroutines :
            /\ pc'[h] = "publish" => pc[h] = "publish" /\ Tx(h) \in Txs
            /\ pc[h] = "publish" => pc'[h] = "publish"
    BY <1>2, <1>3 DEF InCall
  <2> QED
    BY <1>2, <1>3, <2>1, <2>2 DEF PublishFits, Lost
<1>9. PromiseFits'
  BY <1>2, <1>3 DEF PromiseFits, Staged
<1> QED
  BY <1>2, <1>5, <1>6, <1>7, <1>8, <1>9, CommitUnaffected

\* A Prepare that is refused: another one was there first.
LEMMA PrepareRefusedCommits ==
    ASSUME Orderly, StagingInv, CommitInv, NEW g \in Goroutines, PrepareRefused(g)
    PROVE  CommitInv'
<1> USE DEF StagingInv, CommitInv
<1>1. PICK t \in Txs : t = Tx(g)
  BY Mine DEF PrepareRefused, At, InCall
<1>2. pc[g] = "prepare" /\ holder[t] = None /\ faults \in Nat
  BY <1>1, TransactionAssumption DEF PrepareRefused, At, Free, TypeOK
<1>3. CASE state[t] = "active" /\ Abort(g)
  <2>1. applied[t] = {}
    BY <1>3 DEF Untouched
  <2> QED
    BY <1>1, <1>2, <1>3, <2>1, EndCommits DEF PrepareRefused, Abort, Free, staging
<1>4. CASE Return(g, "error") /\ UNCHANGED <<state, closed, holder>>
  <2>1. /\ pc'[g] = "idle" /\ ~committing'[g] /\ ~prepared'[g] /\ ~failed'[g]
        /\ outcome'[g] = "nil" => outcome[g] = "nil"
        /\ \A h \in Goroutines \ {g} :
               /\ pc'[h] = pc[h] /\ committing'[h] = committing[h]
               /\ prepared'[h] = prepared[h] /\ failed'[h] = failed[h]
               /\ next'[h] = next[h] /\ outcome'[h] = outcome[h]
    BY <1>4 DEF Return, TypeOK
  <2>2. UNCHANGED <<setting, partial, ops, order, faults, applied, promised>>
    BY DEF PrepareRefused, staging
  <2>3. \A h \in Goroutines : Tx(h)' = Tx(h) /\ (Tx(h) # None => Tx(h) \in Txs)
    BY <1>2, <2>2, Others
  <2>4. Holding'
    <3>1. \A u \in Txs : holder[u] # None => holder[u] \in Goroutines \ {g}
      BY <1>2, HeldElsewhere
    <3> QED
      BY <1>4, <2>1, <2>3, <3>1 DEF Holding
  <2>5. Undisturbed'
    BY <1>4, <2>1, <2>2, <2>3 DEF Undisturbed
  <2>6. PublishFits'
    <3>1. \A u \in Txs : Staged(u)' = Staged(u) /\ (InBatch(u)' <=> InBatch(u))
      BY <2>2 DEF Staged, InBatch
    <3>2. \A h \in Goroutines : pc'[h] = "publish" => h # g /\ pc[h] = "publish" /\ Tx(h) \in Txs
      BY <2>1, <2>3 DEF InCall
    <3> QED
      BY <2>1, <2>2, <2>3, <3>1, <3>2 DEF PublishFits, Lost
  <2>7. PromiseFits' /\ NilMeansApplied'
    BY <2>1, <2>2, <2>3 DEF PromiseFits, NilMeansApplied, Staged
  <2> QED
    BY <1>4, <2>2, <2>4, <2>5, <2>6, <2>7, CommitUnaffected
<1> QED
  BY <1>1, <1>3, <1>4 DEF PrepareRefused

LEMMA ValidateCommits ==
    ASSUME StagingInv, CommitInv, NEW g \in Goroutines, NEW k \in Keys, Validate(g, k)
    PROVE  CommitInv'
BY CommitUnaffected DEF Validate, CommitInv, status, staging, history

LEMMA ValidateFailedCommits ==
    ASSUME Orderly, StagingInv, CommitInv, NEW g \in Goroutines, NEW k \in Keys,
           ValidateFailed(g, k)
    PROVE  CommitInv'
<1> USE DEF StagingInv, CommitInv
<1>1. PICK t \in Txs : t = Tx(g)
  BY Mine DEF ValidateFailed, At, InCall
<1>2. pc[g] = "validate" /\ applied[t] = {}
  BY <1>1 DEF ValidateFailed, At, Holding, Untouched
<1>3. faults' \in Nat /\ faults' >= faults
  BY TransactionAssumption DEF ValidateFailed, Fault, TypeOK
<1>4. End(g, "aborted", "error") /\ UNCHANGED <<setting, partial, ops, order, promised, applied>>
  BY DEF ValidateFailed, Abort, staging
<1> QED
  BY <1>1, <1>2, <1>3, <1>4, EndCommits

LEMMA PreparedCommits ==
    ASSUME Orderly, StagingInv, CommitInv, NEW g \in Goroutines, Prepared(g)
    PROVE  CommitInv'
<1> USE DEF StagingInv, CommitInv
<1>1. PICK t \in Txs : t = Tx(g)
  BY Mine DEF Prepared, At, InCall
<1>2. /\ pc[g] = "validate" /\ applied[t] = {} /\ holder[t] = g /\ state[t] = "preparing"
      /\ faults \in Nat
  BY <1>1, TransactionAssumption DEF Prepared, At, Holding, Untouched, TypeOK
<1>3. UNCHANGED <<setting, partial, ops, order, promised, applied, faults>>
  BY DEF Prepared, staging
<1>4. CASE Abort(g)
  BY <1>1, <1>2, <1>3, <1>4, EndCommits DEF Abort
<1>5. CASE ~committing[g] /\ End(g, "preparing", "nil")
  BY <1>1, <1>2, <1>3, <1>5, EndCommits
<1>6. CASE /\ committing[g] /\ holder' = [holder EXCEPT ![t] = None]
           /\ pc' = [pc EXCEPT ![g] = "relock"]
           /\ UNCHANGED <<state, closed, committing, prepared, todo, next, failed,
                          reading, outcome>>
  <2>1. /\ pc'[g] = "relock" /\ holder'[t] = None
        /\ \A u \in Txs \ {t} : holder'[u] = holder[u]
        /\ \A h \in Goroutines \ {g} : pc'[h] = pc[h]
    BY <1>6 DEF TypeOK
  <2>2. \A h \in Goroutines : Tx(h)' = Tx(h) /\ (Tx(h) # None => Tx(h) \in Txs)
    BY <1>2, <1>3, Others
  <2>3. \A h \in Goroutines \ {g} : Tx(h) = t => pc[h] \notin {"validate", "publish"}
    BY <1>1, <1>2, Exclusive
  <2>4. Holding'
    <3>1. \A u \in Txs \ {t} : holder[u] # None => holder[u] \in Goroutines \ {g}
      BY <1>1, <1>2, SettingFits DEF TypeOK, Holding
    <3> QED
      BY <1>1, <1>6, <2>1, <2>2, <2>3, <3>1 DEF Holding, InCall
  <2>5. Undisturbed'
    BY <1>1, <1>2, <1>3, <1>6, <2>1, <2>2 DEF Undisturbed, InCall
  <2>6. Untouched'
    BY <1>2, <1>3, <1>6, <2>1 DEF Untouched
  <2>7. PublishFits'
    <3>1. \A u \in Txs : Staged(u)' = Staged(u) /\ (InBatch(u)' <=> InBatch(u))
      BY <1>3 DEF Staged, InBatch
    <3>2. \A h \in Goroutines :
              /\ pc'[h] = "publish" => pc[h] = "publish" /\ Tx(h) \in Txs
              /\ pc[h] = "publish" => pc'[h] = "publish"
      BY <1>2, <2>1, <2>2 DEF InCall
    <3> QED
      BY <1>3, <1>6, <2>2, <3>1, <3>2 DEF PublishFits, Lost
  <2>8. PromiseFits'
    BY <1>2, <1>3, <1>6, <2>1, <2>2 DEF PromiseFits, Staged
  <2> QED
    BY <1>3, <1>6, <2>4, <2>5, <2>6, <2>7, <2>8, CommitUnaffected
<1> QED
  BY <1>1, <1>4, <1>5, <1>6 DEF Prepared

LEMMA CommitPreparedCommits ==
    ASSUME Orderly, StagingInv, CommitInv, NEW g \in Goroutines, CommitPrepared(g)
    PROVE  CommitInv'
<1>1. PICK t \in Txs : t = Tx(g)
  BY Mine DEF CommitPrepared, MayCommit, Calling, StagingInv
<1>2. /\ pc[g] = "idle" /\ state[t] = "preparing" /\ BeginPublish(g)
      /\ committing' = [committing EXCEPT ![g] = TRUE]
      /\ promised'[g] = Staged(t) /\ outcome'[g] = "none"
      /\ \A h \in Goroutines \ {g} : promised'[h] = promised[h] /\ outcome'[h] = outcome[h]
  BY <1>1 DEF CommitPrepared, CommitCalled, MayCommit, Calling, StagingInv, TypeOK
<1> QED
  BY <1>1, <1>2, BeginPublishCommits

LEMMA RelockCommits ==
    ASSUME Orderly, StagingInv, CommitInv, NEW g \in Goroutines, Relock(g)
    PROVE  CommitInv'
<1> USE DEF StagingInv, CommitInv
<1>1. PICK t \in Txs : t = Tx(g)
  BY Mine DEF Relock, At, InCall
<1>2. /\ pc[g] = "relock" /\ state[t] = "preparing" /\ BeginPublish(g)
      /\ committing' = [committing EXCEPT ![g] = TRUE]
      /\ UNCHANGED <<promised, outcome>>
  BY <1>1 DEF Relock, At, InCall, TypeOK, Undisturbed
<1>3. promised[g] \subseteq Staged(t)
  BY <1>1, <1>2 DEF PromiseFits, InCall
<1> QED
  BY <1>1, <1>2, <1>3, BeginPublishCommits

LEMMA CommitActiveCommits ==
    ASSUME Orderly, StagingInv, CommitInv, NEW g \in Goroutines, CommitActive(g)
    PROVE  CommitInv'
<1> USE DEF StagingInv, CommitInv
<1>1. PICK t \in Txs : t = Tx(g)
  BY Mine DEF CommitActive, MayCommit, Calling
<1>2. /\ pc[g] = "idle" /\ pc'[g] = "prepare" /\ committing'[g] /\ state[t] = "active"
      /\ promised'[g] = Staged(t) /\ outcome'[g] = "none"
      /\ setting.prepareFirst => prepared[g]
      /\ \A h \in Goroutines \ {g} :
             /\ pc'[h] = pc[h] /\ committing'[h] = committing[h]
             /\ promised'[h] = promised[h] /\ outcome'[h] = outcome[h]
      /\ UNCHANGED <<setting, partial, state, closed, ops, order, holder, prepared, next, failed,
                     faults, applied>>
  BY <1>1 DEF CommitActive, CommitCalled, MayCommit, Calling, TypeOK, status, staging
<1>3. \A h \in Goroutines : Tx(h)' = Tx(h) /\ (Tx(h) # None => Tx(h) \in Txs)
  BY <1>2, Others DEF TypeOK
<1>4. ~setting.prepareFirst
  BY <1>1, <1>2 DEF Undisturbed
<1>5. Holding'
  <2>1. \A u \in Txs : holder[u] # None => holder[u] \in Goroutines \ {g}
    BY <1>2, HeldElsewhere
  <2> QED
    BY <1>2, <1>3, <2>1 DEF Holding
<1>6. Undisturbed'
  BY <1>2, <1>3, <1>4 DEF Undisturbed
<1>7. PublishFits'
  <2>1. \A u \in Txs : Staged(u)' = Staged(u) /\ (InBatch(u)' <=> InBatch(u))
    BY <1>2 DEF Staged, InBatch
  <2>2. \A h \in Goroutines :
            /\ pc'[h] = "publish" => pc[h] = "publish" /\ Tx(h) \in Txs
            /\ pc[h] = "publish" => pc'[h] = "publish"
    BY <1>2, <1>3 DEF InCall
  <2> QED
    BY <1>2, <1>3, <2>1, <2>2 DEF PublishFits, Lost
<1>8. PromiseFits' /\ NilMeansApplied'
  BY <1>1, <1>2, <1>3 DEF PromiseFits, NilMeansApplied, Staged
<1> QED
  BY <1>2, <1>5, <1>6, <1>7, <1>8, CommitUnaffected

LEMMA PublishBatchCommits ==
    ASSUME Orderly, StagingInv, CommitInv, NEW g \in Goroutines, PublishBatch(g)
    PROVE  CommitInv'
<1> USE DEF StagingInv, CommitInv
<1>1. PICK t \in Txs : t = Tx(g)
  BY Mine DEF PublishBatch, At, InCall
<1>2. /\ pc[g] = "publish" /\ InBatch(t) /\ InOrder(t) = Staged(t) /\ applied[t] \subseteq Staged(t)
      /\ faults \in Nat
      /\ UNCHANGED <<setting, partial, ops, order, promised, faults>>
  BY <1>1, TransactionAssumption
  DEF PublishBatch, At, OrderFits, PublishFits, TypeOK, staging
<1>3. CASE Apply(t, InOrder(t)) /\ End(g, "committed", "nil")
  <2>1. /\ applied'[t] = Staged(t)
        /\ \A u \in Txs : applied[u] \subseteq applied'[u] /\ (u # t => applied'[u] = applied[u])
    BY <1>2, <1>3 DEF Apply, TypeOK
  <2> QED
    BY <1>1, <1>2, <1>3, <2>1, EndCommits
<1>4. CASE Abort(g) /\ UNCHANGED <<object, applied>>
  <2>1. t \notin partial => applied[t] = {} \/ Lost
    BY <1>1, <1>2 DEF PublishFits
  <2>2. Lost => Lost'
    BY <1>2 DEF Lost
  <2> QED
    BY <1>1, <1>2, <1>4, <2>1, <2>2, EndCommits DEF Abort
<1> QED
  BY <1>1, <1>3, <1>4 DEF PublishBatch

\* An operation is refused, or its storage call fails.
LEMMA RefuseCommits ==
    ASSUME Orderly, StagingInv, CommitInv, NEW g \in Goroutines, NEW t \in Txs, t = Tx(g),
           pc[g] = "publish",
           \/ Unfinished(g) /\ Refuse(g)
           \/ InBatch(t) /\ Abort(g),
           UNCHANGED <<setting, partial, ops, order, promised>>,
           \A u \in Txs : applied[u] \subseteq applied'[u] /\ (u # t => applied'[u] = applied[u]),
           faults' \in Nat, faults' >= faults,
           applied'[t] \subseteq Staged(t),
           applied'[t] = applied[t] \/ Lost'
    PROVE  CommitInv'
<1> USE DEF StagingInv, CommitInv
<1>1. Lost => Lost'
  BY Others
<1>2. CASE t \in partial /\ Unfinished(g) /\ Advance(g, TRUE)
  BY <1>2, AdvanceCommits
<1>3. CASE End(g, "aborted", "error")
  <2>1. t \notin partial => InBatch(t) \/ next[g] = 1
    <3>1. CASE Unfinished(g) /\ t \notin partial
      BY <3>1, NextIsStaged, OrderIndexed DEF Unfinished, InBatch
    <3>2. CASE InBatch(t)
      BY <3>2
    <3>3. CASE t \in partial
      BY <3>3
    <3> QED
      BY <3>1, <3>2, <3>3
  <2>2. t \notin partial => applied'[t] = {} \/ Lost'
    BY <1>1, <2>1 DEF PublishFits
  <2> QED
    BY <1>3, <2>2, EndCommits
<1> QED
  BY <1>2, <1>3 DEF Refuse, Abort

LEMMA PublishNextCommits ==
    ASSUME Orderly, StagingInv, CommitInv, NEW g \in Goroutines, PublishNext(g)
    PROVE  CommitInv'
<1> USE DEF StagingInv, CommitInv
<1>1. PICK t \in Txs : t = Tx(g)
  BY NextIsStaged DEF PublishNext
<1>2. PICK k : k = order[t][next[g]]
  OBVIOUS
<1>3. /\ Unfinished(g) /\ pc[g] = "publish" /\ k \in Staged(t) /\ applied[t] \subseteq Staged(t)
      /\ faults \in Nat
      /\ UNCHANGED <<setting, partial, ops, order, promised, faults>>
  BY <1>1, <1>2, NextIsStaged, TransactionAssumption
  DEF PublishNext, Unfinished, At, PublishFits, TypeOK, staging
<1>4. CASE Apply(t, {k}) /\ Advance(g, FALSE)
  <2>1. /\ applied'[t] = applied[t] \cup {k}
        /\ \A u \in Txs : applied[u] \subseteq applied'[u] /\ (u # t => applied'[u] = applied[u])
    BY <1>4 DEF Apply, TypeOK
  <2>2. faults' >= faults /\ faults' \in Nat /\ applied'[t] \subseteq Staged(t) /\ k \in applied'[t]
    BY <1>3, <2>1
  <2> QED
    BY Zenon, <1>1, <1>2, <1>3, <1>4, <2>1, <2>2, AdvanceCommits
<1>5. CASE Refuse(g) /\ UNCHANGED <<object, applied>>
  BY <1>1, <1>3, <1>5, RefuseCommits
<1> QED
  BY <1>1, <1>2, <1>4, <1>5 DEF PublishNext

LEMMA PublishFailedCommits ==
    ASSUME Orderly, StagingInv, CommitInv, NEW g \in Goroutines, PublishFailed(g)
    PROVE  CommitInv'
<1> USE DEF StagingInv, CommitInv
<1>1. pc[g] = "publish"
  BY DEF PublishFailed, Unfinished, At
<1>2. PICK t \in Txs : t = Tx(g)
  BY <1>1, Mine DEF InCall
<1>3. /\ applied[t] \subseteq Staged(t)
      /\ UNCHANGED <<setting, partial, ops, order, promised, applied>>
  BY <1>1, <1>2 DEF PublishFits, PublishFailed, staging
<1>4. faults' \in Nat /\ faults' >= faults
  BY TransactionAssumption DEF PublishFailed, Fault, TypeOK
<1>5. (Unfinished(g) /\ Refuse(g)) \/ (InBatch(t) /\ Abort(g))
  <2>1. CASE InBatch(Tx(g))
    BY <1>2, <2>1 DEF PublishFailed
  <2>2. CASE ~InBatch(Tx(g))
    <3>1. Unfinished(g)
      BY <2>2 DEF PublishFailed
    <3>2. Refuse(g)
      BY <2>2 DEF PublishFailed
    <3> QED
      BY <3>1, <3>2
  <2> QED
    BY <2>1, <2>2
<1> QED
  BY <1>1, <1>2, <1>3, <1>4, <1>5, RefuseCommits

LEMMA PublishUnansweredCommits ==
    ASSUME Orderly, StagingInv, CommitInv, NEW g \in Goroutines, PublishUnanswered(g)
    PROVE  CommitInv'
<1> USE DEF StagingInv, CommitInv
<1>1. PICK t \in Txs : t = Tx(g)
  BY NextIsStaged DEF PublishUnanswered
<1>2. PICK k : k = order[t][next[g]]
  OBVIOUS
<1>3. /\ Unfinished(g) /\ pc[g] = "publish" /\ k \in Staged(t) /\ applied[t] \subseteq Staged(t)
      /\ UNCHANGED <<setting, partial, ops, order, promised>>
  BY <1>1, <1>2, NextIsStaged
  DEF PublishUnanswered, Unfinished, At, PublishFits, staging
<1>4. /\ applied'[t] = applied[t] \cup {k}
      /\ \A u \in Txs : applied[u] \subseteq applied'[u] /\ (u # t => applied'[u] = applied[u])
  BY <1>1, <1>2 DEF PublishUnanswered, Apply, TypeOK
<1>5. faults' \in Nat /\ faults' >= faults /\ Lost'
  BY <1>3, TransactionAssumption DEF PublishUnanswered, Fault, TypeOK, Lost
<1>6. CASE Refuse(g)
  BY <1>1, <1>3, <1>4, <1>5, <1>6, RefuseCommits
<1>7. CASE UNCHANGED <<state, closed, holder, call, outcome>>
  <2>1. \A h \in Goroutines : Tx(h)' = Tx(h) /\ (Tx(h) # None => Tx(h) \in Txs)
    BY <1>3, Others
  <2>2. holder[t] = g /\ g # None /\ state[t] = "committing"
    BY <1>1, <1>3, SettingFits DEF Holding
  <2>3. \A u \in Txs : Staged(u)' = Staged(u) /\ (InBatch(u)' <=> InBatch(u))
    BY <1>3 DEF Staged, InBatch
  <2>4. Untouched' /\ AllOrNothing'
    BY <1>3, <1>4, <1>5, <1>7, <2>2, <2>3 DEF Untouched, AllOrNothing, Lost
  <2>5. NilMeansApplied'
    BY <1>3, <1>4, <1>7, <2>1 DEF NilMeansApplied, PromiseFits
  <2>6. PublishFits'
    <3>1. \A h \in Goroutines : pc[h] = "publish" => h = g \/ Tx(h) \in Txs \ {t}
      BY <1>1, <1>3, <2>1, Exclusive DEF InCall
    <3> QED
      BY <1>1, <1>3, <1>4, <1>5, <1>7, <2>1, <2>3, <3>1 DEF PublishFits, call
  <2> QED
    BY <1>3, <1>7, <2>4, <2>5, <2>6, CommitUnaffected DEF call
<1> QED
  BY <1>6, <1>7 DEF PublishUnanswered

LEMMA PublishedCommits ==
    ASSUME Orderly, StagingInv, CommitInv, NEW g \in Goroutines, Published(g)
    PROVE  CommitInv'
<1> USE DEF StagingInv, CommitInv
<1>1. PICK t \in Txs : t = Tx(g)
  BY Mine DEF Published, At, InCall
<1>2. /\ pc[g] = "publish" /\ faults \in Nat /\ next[g] > Len(order[t]) /\ next[g] \in Nat
      /\ UNCHANGED <<setting, partial, ops, order, promised, applied, faults>>
  BY <1>1, TransactionAssumption DEF Published, At, TypeOK, staging
<1>3. ~failed[g] => applied[t] = Staged(t)
  <2>1. ~failed[g] => \A i \in 1..Len(order[t]) : order[t][i] \in applied[t]
    BY <1>1, <1>2, OrderIndexed DEF PublishFits
  <2>2. Staged(t) = {order[t][i] : i \in 1..Len(order[t])}
    BY DEF OrderFits, InOrder
  <2> QED
    BY <1>1, <1>2, <2>1, <2>2 DEF PublishFits
<1>4. t \notin partial => ~failed[g]
  BY <1>1, <1>2 DEF PublishFits
<1>5. CASE failed[g]
  BY <1>1, <1>2, <1>3, <1>4, <1>5, EndCommits DEF Published
<1>6. CASE ~failed[g]
  BY <1>1, <1>2, <1>3, <1>6, EndCommits DEF Published
<1> QED
  BY <1>5, <1>6

\* A transaction is rolled back while nobody publishes it.
LEMMA RollBackCommits ==
    ASSUME Orderly, StagingInv, CommitInv, NEW g \in Goroutines, NEW t \in Txs, t = Tx(g),
           holder[t] = None, CanRollBack(t), RollBack(t), pc[g] \in {"idle", "undo"},
           UNCHANGED <<setting, partial, faults, holder, applied>>
    PROVE  /\ ClosedFits' /\ Untouched' /\ AllOrNothing'
           /\ \A h \in Goroutines \ {g} :
                  Tx(h) = t => pc[h] \notin {"validate", "publish", "relock"}
           /\ state'[t] = "rolled-back" /\ \A u \in Txs \ {t} : state'[u] = state[u]
           /\ \A u \in Txs \ {t}, k \in Keys : ops'[u][k] = ops[u][k]
           /\ \A u \in Txs \ {t} : order'[u] = order[u]
<1> USE DEF StagingInv, CommitInv
<1>1. /\ state'[t] = "rolled-back" /\ closed'[t]
      /\ \A u \in Txs \ {t} : state'[u] = state[u] /\ closed'[u] = closed[u]
      /\ \A u \in Txs \ {t}, k \in Keys : ops'[u][k] = ops[u][k]
      /\ \A u \in Txs \ {t} : order'[u] = order[u]
  BY DEF RollBack, TypeOK
<1>2. \A u \in Txs \ {t} : Staged(u)' = Staged(u)
  BY <1>1 DEF Staged
<1>3. t \notin partial => applied[t] = {} \/ Lost
  <2>1. state[t] \in {"active", "preparing", "committing", "aborted"}
    BY DEF CanRollBack, TypeOK, States
  <2> QED
    BY <2>1 DEF Untouched, AllOrNothing, Lost
<1>4. AllOrNothing'
  BY <1>1, <1>2, <1>3 DEF AllOrNothing, Lost
<1>5. ClosedFits' /\ Untouched'
  BY <1>1 DEF ClosedFits, Untouched
<1> QED
  BY <1>1, <1>4, <1>5, FreshCommits

LEMMA RollbackCommits ==
    ASSUME Orderly, StagingInv, CommitInv, NEW g \in Goroutines, Rollback(g)
    PROVE  CommitInv'
<1> USE DEF StagingInv, CommitInv
<1>1. PICK t \in Txs : t = Tx(g)
  BY Mine DEF Rollback, Calling
<1>2. /\ pc[g] = "idle" /\ holder[t] = None /\ CanRollBack(t) /\ RollBack(t) /\ ~committing[g]
      /\ UNCHANGED <<setting, partial, faults, holder, applied, pc, committing, prepared, failed,
                     next, promised, outcome>>
  BY <1>1 DEF Rollback, Calling, Free, InCall, call, history
<1>3. \A h \in Goroutines : Tx(h)' = Tx(h) /\ (Tx(h) # None => Tx(h) \in Txs)
  BY <1>2, Others
<1>4. Holding'
  <2>1. \A h \in Goroutines : pc[h] \in {"validate", "publish"} => Tx(h) \in Txs \ {t}
    BY <1>1, <1>2, <1>3, SettingFits DEF Holding, InCall
  <2>2. \A u \in Txs \ {t} : state'[u] = state[u]
    BY <1>1, <1>2, RollBackCommits
  <2>3. \A u \in Txs : holder[u] # None => holder[u] \in Goroutines
    BY <1>2, HeldElsewhere
  <2> QED
    BY <1>2, <1>3, <2>1, <2>2, <2>3 DEF Holding
<1>5. Undisturbed'
  <2>1. \A h \in Goroutines : pc[h] = "relock" => Tx(h) \in Txs \ {t}
    BY <1>1, <1>2, <1>3, RollBackCommits DEF InCall
  <2> QED
    BY <1>1, <1>2, <1>3, <2>1, RollBackCommits DEF Undisturbed, InCall
<1>6. PublishFits' /\ PromiseFits'
  BY <1>1, <1>2, RollBackCommits, FreshCommits
<1> QED
  BY <1>1, <1>2, <1>4, <1>5, <1>6, RollBackCommits, CommitUnaffected

LEMMA UndoCommits ==
    ASSUME Orderly, StagingInv, CommitInv, NEW g \in Goroutines, Undo(g)
    PROVE  CommitInv'
<1> USE DEF StagingInv, CommitInv
<1>1. PICK t \in Txs : t = Tx(g)
  BY Mine DEF Undo, At, InCall
<1>2. /\ pc[g] = "undo" /\ holder[t] = None
      /\ \/ CanRollBack(t) /\ RollBack(t)
         \/ ~CanRollBack(t) /\ UNCHANGED <<state, closed, staging>>
      /\ UNCHANGED <<setting, partial, faults, holder, applied, promised>>
  BY <1>1 DEF Undo, At, Free
<1>3. /\ pc'[g] = "idle" /\ ~committing'[g] /\ ~prepared'[g] /\ ~failed'[g]
      /\ outcome'[g] # "nil" \/ outcome'[g] = outcome[g]
      /\ \A h \in Goroutines \ {g} :
             /\ pc'[h] = pc[h] /\ committing'[h] = committing[h]
             /\ prepared'[h] = prepared[h] /\ failed'[h] = failed[h]
             /\ next'[h] = next[h] /\ outcome'[h] = outcome[h]
  BY DEF Undo, Return, TypeOK
<1>4. \A h \in Goroutines : Tx(h)' = Tx(h) /\ (Tx(h) # None => Tx(h) \in Txs)
  BY <1>2, Others
<1>5. \A h \in Goroutines : pc[h] \in {"validate", "publish"} => h # g /\ Tx(h) \in Txs \ {t}
  BY <1>1, <1>2, <1>4, SettingFits DEF Holding, InCall
<1>6. \A h \in Goroutines \ {g} :
          /\ pc[h] = "relock" => Tx(h) \in Txs \ {t}
          /\ committing[h] /\ pc[h] # "undo" => Tx(h) \in Txs \ {t}
  <2> SUFFICES ASSUME NEW h \in Goroutines \ {g}, Tx(h) = t
               PROVE  pc[h] # "relock" /\ ~(committing[h] /\ pc[h] # "undo")
    BY <1>4 DEF InCall
  <2>1. setting.prepareFirst
    BY <1>1, ByOneself, SettingFits
  <2> QED
    BY <1>1, <1>5, <2>1 DEF Undisturbed, InCall
<1>7. /\ state'[t] = "rolled-back"
      /\ \A u \in Txs \ {t} : /\ state'[u] = state[u] /\ order'[u] = order[u]
                              /\ \A k \in Keys : ops'[u][k] = ops[u][k]
      /\ ClosedFits' /\ Untouched' /\ AllOrNothing'
  <2>1. CASE CanRollBack(t) /\ RollBack(t)
    BY <1>1, <1>2, <2>1, RollBackCommits
  <2>2. CASE ~CanRollBack(t) /\ UNCHANGED <<state, closed, staging>>
    <3>1. state[t] = "rolled-back"
      BY <1>1, <1>2, <2>2 DEF CanRollBack, Undisturbed, ClosedFits
    <3> QED
      BY <1>2, <2>2, <3>1, CommitUnaffected DEF staging
  <2> QED
    BY <1>2, <2>1, <2>2
<1>8. Holding'
  <2>1. \A u \in Txs : holder[u] # None => holder[u] \in Goroutines \ {g} /\ u # t
    BY <1>2, HeldElsewhere
  <2> QED
    BY <1>2, <1>3, <1>4, <1>5, <1>7, <2>1 DEF Holding
<1>9. Undisturbed'
  BY <1>2, <1>3, <1>4, <1>6, <1>7 DEF Undisturbed, InCall
<1>10. PublishFits'
  <2>1. \A u \in Txs \ {t} : Staged(u)' = Staged(u) /\ (InBatch(u)' <=> InBatch(u))
    BY <1>2, <1>7 DEF Staged, InBatch
  <2> QED
    BY <1>2, <1>3, <1>4, <1>5, <1>7, <2>1 DEF PublishFits, Lost
<1>11. PromiseFits' /\ NilMeansApplied'
  <2>1. \A u \in Txs \ {t} : Staged(u)' = Staged(u)
    BY <1>7 DEF Staged
  <2> QED
    BY <1>2, <1>3, <1>4, <1>6, <2>1 DEF PromiseFits, NilMeansApplied
<1> QED
  BY <1>7, <1>8, <1>9, <1>10, <1>11

LEMMA OthersCommit ==
    ASSUME CommitInv, \/ \E k \in Keys, v \in ETags \cup {None} : WriteOutside(k, v)
                      \/ \E t \in Txs : Expire(t)
                      \/ UNCHANGED vars
    PROVE  CommitInv'
<1>1. UNCHANGED <<setting, partial, state, closed, ops, order, holder, pc, committing, prepared,
                  next, failed, faults, applied, promised, outcome>>
  BY DEF WriteOutside, Expire, vars, status, staging, call, history
<1> QED
  BY <1>1, CommitUnaffected DEF CommitInv

-------------------------------------------------------------------------------
(***************************************************************************)
(* What a Commit promises.                                                 *)
(***************************************************************************)

LEMMA CommitInitially == Init => CommitInv
BY DEF Init, CommitInv, Holding, ClosedFits, Undisturbed, Untouched, PublishFits, PromiseFits,
       AllOrNothing, NilMeansApplied

LEMMA CommitKept ==
    ASSUME Orderly
    PROVE  StagingInv /\ CommitInv /\ [Next]_vars => CommitInv'
<1> SUFFICES ASSUME StagingInv, CommitInv, [Next]_vars PROVE CommitInv'
  OBVIOUS
<1>1. ASSUME NEW g \in Goroutines, Preparing(g) PROVE CommitInv'
  BY <1>1, ReadingCommits, BeginPrepareCommits, PrepareRefusedCommits, ValidateCommits,
     ValidateFailedCommits, PreparedCommits
  DEF Preparing
<1>2. ASSUME NEW g \in Goroutines, Committing(g) PROVE CommitInv'
  BY <1>2, CommitPreparedCommits, CommitActiveCommits, RelockCommits, PublishBatchCommits,
     PublishNextCommits, PublishFailedCommits, PublishUnansweredCommits, PublishedCommits,
     UndoCommits
  DEF Committing
<1> QED
  BY <1>1, <1>2, StagingCommits, ReadingCommits, RollbackCommits, OthersCommit DEF Next

LEMMA CommitInduction ==
    ASSUME Orderly
    PROVE  Spec => []CommitInv
<1>1. Init => CommitInv
  BY CommitInitially
<1>2. StagingInv /\ CommitInv /\ [Next]_vars => CommitInv'
  BY CommitKept
<1> QED
  BY <1>1, <1>2, StagingInduction, PTL DEF Spec

\* A transaction that is not partial publishes everything it staged or nothing, unless a
\* storage call that failed had taken effect.
THEOREM CommitIsAtomic ==
    ASSUME Orderly
    PROVE  Spec => []AllOrNothing
<1>1. CommitInv => AllOrNothing
  BY DEF CommitInv
<1> QED
  BY <1>1, CommitInduction, PTL

\* A Commit that returns nil has published everything that was staged when it was called.
THEOREM NilCommits ==
    ASSUME Orderly
    PROVE  Spec => []NilMeansApplied
<1>1. CommitInv => NilMeansApplied
  BY DEF CommitInv
<1> QED
  BY <1>1, CommitInduction, PTL

\* Nothing becomes of a transaction that is closed.
LEMMA ClosedStays ==
    ASSUME Orderly, StagingInv, CommitInv, Next, NEW t \in Txs, closed[t]
    PROVE  state'[t] = state[t] /\ applied'[t] = applied[t]
<1> USE DEF StagingInv, CommitInv
<1>1. state[t] \in {"committed", "rolled-back"}
  BY DEF ClosedFits
<1>2. ASSUME NEW g \in Goroutines, Staging(g) \/ Reading(g)
      PROVE  state' = state /\ applied' = applied
  BY <1>2
  DEF Staging, Put, Delete, Reading, Get, GetAnswered, GetCached, HeadObject, status, history
<1>3. ASSUME NEW g \in Goroutines, Preparing(g)
      PROVE  state'[t] = state[t] /\ applied' = applied
  <2>1. \/ UNCHANGED <<state, applied>>
        \/ /\ \E s \in States : state' = [state EXCEPT ![Tx(g)] = s]
           /\ state[Tx(g)] \in {"active", "preparing"} /\ applied' = applied
    BY <1>3
    DEF Preparing, Prepare, BeginPrepare, PrepareRefused, Validate, ValidateFailed, Prepared, Abort,
        End, At, Holding, States, status, history
  <2> QED
    BY <1>1, <2>1 DEF TypeOK
<1>4. ASSUME NEW g \in Goroutines, CommitPrepared(g) \/ CommitActive(g) \/ Relock(g)
      PROVE  state'[t] = state[t] /\ applied' = applied
  <2>1. \/ UNCHANGED <<state, applied>>
        \/ /\ state' = [state EXCEPT ![Tx(g)] = "committing"]
           /\ state[Tx(g)] = "preparing" /\ applied' = applied
    BY <1>4 DEF CommitPrepared, CommitActive, Relock, BeginPublish, At, Undisturbed, status
  <2> QED
    BY <1>1, <2>1 DEF TypeOK
<1>5. ASSUME NEW g \in Goroutines,
             \/ PublishBatch(g) \/ PublishNext(g) \/ PublishFailed(g) \/ PublishUnanswered(g)
             \/ Published(g)
      PROVE  state'[t] = state[t] /\ applied'[t] = applied[t]
  <2>1. At(g, "publish") /\ state[Tx(g)] = "committing"
    BY <1>5
    DEF PublishBatch, PublishNext, PublishFailed, PublishUnanswered, Published, Unfinished, At,
        Holding
  <2>2. state' = state \/ \E s \in States : state' = [state EXCEPT ![Tx(g)] = s]
    BY <1>5
    DEF PublishBatch, PublishNext, PublishFailed, PublishUnanswered, Published, Refuse, Advance,
        Abort, End, States
  <2>3. applied' = applied \/ \E ks : applied' = [applied EXCEPT ![Tx(g)] = @ \cup ks]
    BY <1>5
    DEF PublishBatch, PublishNext, PublishFailed, PublishUnanswered, Published, Apply
  <2> QED
    BY <1>1, <2>1, <2>2, <2>3 DEF TypeOK
<1>6. ASSUME NEW g \in Goroutines, Undo(g) \/ Rollback(g)
      PROVE  state'[t] = state[t] /\ applied' = applied
  <2>1. \/ UNCHANGED <<state, applied>>
        \/ /\ state' = [state EXCEPT ![Tx(g)] = "rolled-back"]
           /\ CanRollBack(Tx(g)) /\ applied' = applied
    BY <1>6 DEF Undo, Rollback, RollBack, history
  <2> QED
    BY <1>1, <2>1 DEF TypeOK, CanRollBack
<1>7. ASSUME \/ \E k \in Keys, v \in ETags \cup {None} : WriteOutside(k, v)
             \/ \E u \in Txs : Expire(u)
      PROVE  state' = state /\ applied' = applied
  BY <1>7 DEF WriteOutside, Expire, status, history
<1> QED
  BY <1>2, <1>3, <1>4, <1>5, <1>6, <1>7 DEF Next, Committing

\* What has been committed is not aborted afterwards, and what has been rolled back is
\* never published.
THEOREM ClosedForGood ==
    ASSUME Orderly
    PROVE  Spec => ClosedIsFinal
<1>1. ASSUME StagingInv, CommitInv, [Next]_vars, vars' # vars, NEW t \in Txs, closed[t]
      PROVE  state'[t] = state[t] /\ applied'[t] = applied[t]
  BY <1>1, ClosedStays
<1>2. StagingInv /\ CommitInv /\ [Next]_vars =>
          [\A t \in Txs : closed[t] => state'[t] = state[t] /\ applied'[t] = applied[t]]_vars
  BY <1>1
<1> QED
  BY <1>2, StagingInduction, CommitInduction, PTL DEF Spec, ClosedIsFinal

===============================================================================
