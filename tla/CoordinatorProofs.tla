--------------------------- MODULE CoordinatorProofs ---------------------------
(***************************************************************************)
(* Proofs about Coordinator: its types, and that the coordinator lists     *)
(* exactly the open transactions, for any number of goroutines and         *)
(* transactions. What makes this inductive is where each goroutine is      *)
(* while it holds a transaction's mutex.                                   *)
(***************************************************************************)
EXTENDS Coordinator, TLAPS

\* A transaction's mutex is held by the goroutine that commits or unregisters it,
\* and by nobody else.
MutexFits ==
    /\ \A g \in Goroutines :
           At(g, "committing") \/ At(g, "unregister") => tx[g] \in Txs /\ holder[tx[g]] = g
    /\ \A t \in Txs, g \in Goroutines :
           holder[t] = g => tx[g] = t /\ (At(g, "committing") \/ At(g, "unregister"))

\* A call is about a transaction that exists, and what its holder is about to do
\* fits its state.
StateFits ==
    /\ \A t \in registered \cup closed : state[t] # "none"
    /\ \A g \in Goroutines :
           /\ pc[g] \in {"prepare", "relock", "rollback", "lookedUp"} =>
                  tx[g] \in Txs /\ state[tx[g]] # "none"
           /\ At(g, "committing") => state[tx[g]] = "committing"
           /\ At(g, "unregister") => tx[g] \in closed

CoordinatorInv == TypeOK /\ MutexFits /\ StateFits /\ ListsTheOpen

-------------------------------------------------------------------------------
(***************************************************************************)
(* Steps that leave the transactions and their mutexes alone.              *)
(***************************************************************************)
Quiet(g) == Cleanup(g) \/ Asked(g) \/ Swept(g) \/ \E t \in Txs : Ask(g, t) \/ LookUp(g, t)

LEMMA QuietSteps ==
    ASSUME CoordinatorInv, NEW g \in Goroutines, Quiet(g)
    PROVE  CoordinatorInv'
<1> USE DEF CoordinatorInv, TypeOK
<1>1. /\ UNCHANGED <<state, closed, emptied, registered, holder>>
      /\ pc' \in [Goroutines -> Steps] /\ tx' \in [Goroutines -> Txs \cup {None}]
      /\ \A h \in Goroutines \ {g} : pc'[h] = pc[h] /\ tx'[h] = tx[h]
      /\ pc[g] \in {"idle", "scan", "sweep"} /\ pc'[g] \in {"idle", "scan", "sweep", "lookedUp"}
      /\ pc'[g] = "lookedUp" => tx'[g] \in registered
  BY DEF Quiet, Cleanup, Asked, Swept, Ask, LookUp, At, Goto, Steps, ends
<1>2. TypeOK'
  BY <1>1 DEF Quiet, Cleanup, Asked, Swept, Ask, LookUp, At, Goto
<1>3. MutexFits'
  BY <1>1 DEF MutexFits, At
<1>4. StateFits'
  BY <1>1 DEF StateFits, At
<1>5. ListsTheOpen'
  BY <1>1 DEF ListsTheOpen, At
<1> QED
  BY <1>2, <1>3, <1>4, <1>5

-------------------------------------------------------------------------------
(***************************************************************************)
(* The steps of Begin, Prepare, Commit and Rollback.                       *)
(***************************************************************************)
LEMMA BeginKeeps ==
    ASSUME CoordinatorInv, NEW g \in Goroutines, NEW t \in Txs, Begin(g, t)
    PROVE  CoordinatorInv'
<1> USE DEF CoordinatorInv, TypeOK, Begin, locals, ends
<1>1. TypeOK'
  BY DEF States
<1>2. MutexFits'
  BY DEF MutexFits, At
<1>3. StateFits'
  BY DEF StateFits, MutexFits, At
<1>4. ListsTheOpen'
  BY DEF ListsTheOpen, StateFits, At
<1> QED
  BY <1>1, <1>2, <1>3, <1>4

\* Prepare, by itself or within a Commit, whose goroutine then goes on or ends.
LEMMA PrepareKeeps ==
    ASSUME CoordinatorInv, NEW g \in Goroutines, NEW t \in Txs,
           NEW outcome \in {"preparing", "aborted"}, Prepare(t, outcome),
           \/ At(g, "idle") /\ UNCHANGED <<pc, tx>>
           \/ At(g, "prepare") /\ (Goto(g, "relock", t) \/ Goto(g, "idle", None))
    PROVE  CoordinatorInv'
<1> USE DEF CoordinatorInv, TypeOK, Prepare, Goto, ends
<1>1. TypeOK'
  BY DEF States, Steps
<1>2. MutexFits'
  BY DEF MutexFits, At
<1>3. StateFits'
  BY DEF StateFits, MutexFits, At
<1>4. ListsTheOpen'
  BY DEF ListsTheOpen, At
<1> QED
  BY <1>1, <1>2, <1>3, <1>4

\* A Commit takes the mutex, whatever has become of the transaction.
LEMMA EnterKeeps ==
    ASSUME CoordinatorInv, NEW g \in Goroutines, NEW t \in Txs, Enter(g, t),
           At(g, "idle") \/ At(g, "relock"), state[t] # "none"
    PROVE  CoordinatorInv'
<1> USE DEF CoordinatorInv, TypeOK, Enter, Goto, ends
<1>1. TypeOK'
  BY DEF Steps, States
<1>2. MutexFits'
  BY CoordinatorAssumption DEF MutexFits, At, Goroutines
<1>3. StateFits'
  BY CoordinatorAssumption DEF StateFits, MutexFits, At, Goroutines
<1>4. ListsTheOpen'
  BY CoordinatorAssumption DEF ListsTheOpen, At, Goroutines
<1> QED
  BY <1>1, <1>2, <1>3, <1>4

\* Steps of a goroutine that hold no mutex and leave the transactions alone.
LEMMA MoveKeeps ==
    ASSUME CoordinatorInv, NEW g \in Goroutines, NEW t \in Txs \cup {None}, NEW step,
           Goto(g, step, t), UNCHANGED <<state, ends, registered, holder, guard, todo, stale>>,
           pc[g] \in {"idle", "prepare", "rollback", "lookedUp"},
           \/ step \in {"idle", "sweep"}
           \/ step = "prepare" /\ t \in Txs /\ state[t] # "none"
    PROVE  CoordinatorInv'
<1> USE DEF CoordinatorInv, TypeOK, Goto, ends
<1>1. TypeOK'
  BY DEF Steps
<1>2. MutexFits'
  BY DEF MutexFits, At
<1>3. StateFits'
  BY DEF StateFits, At
<1>4. ListsTheOpen'
  BY DEF ListsTheOpen, At
<1> QED
  BY <1>1, <1>2, <1>3, <1>4

LEMMA CommitKeeps ==
    ASSUME CoordinatorInv, NEW g \in Goroutines, NEW t \in Txs, Commit(g, t)
    PROVE  CoordinatorInv'
<1>1. CASE state[t] = "preparing" /\ Enter(g, t)
  BY <1>1, EnterKeeps DEF Commit
<1>2. CASE state[t] = "active" /\ ~Enter(g, t)
  BY <1>2, MoveKeeps DEF Commit, At
<1> QED
  BY <1>1, <1>2, EnterKeeps DEF Commit

LEMMA AutoPrepareKeeps ==
    ASSUME CoordinatorInv, NEW g \in Goroutines, AutoPrepare(g)
    PROVE  CoordinatorInv'
<1>1. tx[g] \in Txs
  BY DEF CoordinatorInv, StateFits, AutoPrepare, At
<1>2. CASE \E outcome \in {"preparing", "aborted"} :
             /\ Prepare(tx[g], outcome)
             /\ Goto(g, "relock", tx[g]) \/ Goto(g, "idle", None)
  BY <1>1, <1>2, PrepareKeeps DEF AutoPrepare
<1>3. CASE Goto(g, "idle", None) /\ UNCHANGED <<state, ends, registered, holder, guard, todo, stale>>
  BY <1>3, MoveKeeps DEF AutoPrepare, At
<1> QED
  BY <1>2, <1>3 DEF AutoPrepare

\* How a commit ends: state, and where the goroutine goes.
LEMMA CommitEndKeeps ==
    ASSUME CoordinatorInv, NEW g \in Goroutines,
           CommitFails(g) \/ CommitSucceeds(g) \/ HookFails(g)
    PROVE  CoordinatorInv'
<1> USE DEF CoordinatorInv, TypeOK, Goto, ends
<1>0. /\ At(g, "committing") /\ tx[g] \in Txs /\ holder[tx[g]] = g
      /\ state[tx[g]] = "committing"
  BY DEF CommitFails, CommitSucceeds, HookFails, MutexFits, StateFits
<1>1. CASE CommitFails(g)
  <2> USE <1>0, <1>1 DEF CommitFails
  <2>1. TypeOK'
    BY DEF Steps, States
  <2>2. MutexFits'
    BY CoordinatorAssumption DEF MutexFits, At, Goroutines
  <2>3. StateFits'
    BY DEF StateFits, MutexFits, At
  <2>4. ListsTheOpen'
    BY DEF ListsTheOpen, MutexFits, At
  <2> QED
    BY <2>1, <2>2, <2>3, <2>4
<1>2. CASE CommitSucceeds(g)
  <2> USE <1>0, <1>2 DEF CommitSucceeds
  <2>1. TypeOK'
    BY DEF Steps, States
  <2>2. MutexFits'
    BY DEF MutexFits, At
  <2>3. StateFits'
    BY DEF StateFits, MutexFits, At
  <2>4. ListsTheOpen'
    BY DEF ListsTheOpen, MutexFits, At
  <2> QED
    BY <2>1, <2>2, <2>3, <2>4
<1>3. CASE HookFails(g)
  <2> USE <1>0, <1>3 DEF HookFails
  <2>1. TypeOK'
    BY DEF Steps
  <2>2. MutexFits'
    BY CoordinatorAssumption DEF MutexFits, At, Goroutines
  <2>3. StateFits'
    BY DEF StateFits, At
  <2>4. ListsTheOpen'
    BY DEF ListsTheOpen, MutexFits, At
  <2> QED
    BY <2>1, <2>2, <2>3, <2>4
<1> QED
  BY <1>1, <1>2, <1>3

\* A Rollback by a worker, by its Commit, or by a sweeper that has looked the
\* transaction up.
LEMMA RollBackKeeps ==
    ASSUME CoordinatorInv, NEW g \in Goroutines, NEW t \in Txs, RollBack(g, t),
           pc[g] \in {"idle", "rollback", "lookedUp"}, state[t] # "none"
    PROVE  CoordinatorInv'
<1> DEFINE refused == t \in closed \/ state[t] \in {"committed", "rolled-back"}
<1>1. CASE refused
  BY <1>1, MoveKeeps DEF RollBack, Home
<1>2. CASE ~refused
  <2> USE <1>2 DEF CoordinatorInv, TypeOK, RollBack, Goto, ends
  <2>1. TypeOK'
    BY DEF Steps, States
  <2>2. MutexFits'
    BY CoordinatorAssumption DEF MutexFits, At, Goroutines
  <2>3. StateFits'
    BY CoordinatorAssumption DEF StateFits, MutexFits, At, Goroutines
  <2>4. ListsTheOpen'
    BY CoordinatorAssumption DEF ListsTheOpen, At, Goroutines
  <2> QED
    BY <2>1, <2>2, <2>3, <2>4
<1> QED
  BY <1>1, <1>2

LEMMA CommittingKeeps ==
    ASSUME CoordinatorInv, NEW g \in Goroutines, Committing(g)
    PROVE  CoordinatorInv'
<1>1. CASE Relock(g)
  BY <1>1, EnterKeeps DEF Relock, CoordinatorInv, StateFits, At
<1>2. CASE CommitRollsBack(g)
  BY <1>2, RollBackKeeps DEF CommitRollsBack, CoordinatorInv, StateFits, At
<1> QED
  BY <1>1, <1>2, AutoPrepareKeeps, CommitEndKeeps DEF Committing

LEMMA UnregisterKeeps ==
    ASSUME CoordinatorInv, NEW g \in Goroutines, Unregister(g)
    PROVE  CoordinatorInv'
<1> USE DEF CoordinatorInv, TypeOK, Unregister, Goto, ends
<1>1. TypeOK'
  BY DEF Steps, Home
<1>2. MutexFits'
  BY CoordinatorAssumption DEF MutexFits, At, Home, Goroutines
<1>3. StateFits'
  BY DEF StateFits, At, Home
<1>4. ListsTheOpen'
  BY DEF ListsTheOpen, StateFits, MutexFits, At, Home
<1> QED
  BY <1>1, <1>2, <1>3, <1>4

-------------------------------------------------------------------------------
LEMMA Initially == Init => CoordinatorInv
BY CoordinatorAssumption
DEF Init, CoordinatorInv, TypeOK, MutexFits, StateFits, ListsTheOpen, At, Steps, States, Goroutines

LEMMA Kept == CoordinatorInv /\ [Next]_vars => CoordinatorInv'
<1> SUFFICES ASSUME CoordinatorInv, [Next]_vars PROVE CoordinatorInv'
  OBVIOUS
<1>1. ASSUME NEW g \in Workers, NEW t \in Txs, Calling(g, t) PROVE CoordinatorInv'
  <2>1. CASE PrepareOnly(g, t)
    BY <2>1, PrepareKeeps DEF PrepareOnly, Goroutines
  <2> QED
    BY <1>1, <2>1, BeginKeeps, CommitKeeps, RollBackKeeps
    DEF Calling, Rollback, Goroutines, At
<1>2. ASSUME NEW g \in Sweepers, Cleanup(g) \/ Sweeping(g) PROVE CoordinatorInv'
  <2>1. CASE Sweep(g)
    BY <2>1, RollBackKeeps DEF Sweep, Goroutines, CoordinatorInv, StateFits, At
  <2>2. CASE Quiet(g)
    BY <2>2, QuietSteps DEF Goroutines
  <2> QED
    BY <1>2, <2>1, <2>2 DEF Sweeping, Quiet
<1>3. ASSUME NEW g \in Goroutines, Committing(g) \/ Unregister(g) PROVE CoordinatorInv'
  BY <1>3, CommittingKeeps, UnregisterKeeps
<1>4. CASE UNCHANGED vars
  BY <1>4
  DEF vars, ends, locals, CoordinatorInv, TypeOK, MutexFits, StateFits, ListsTheOpen, At
<1> QED
  BY <1>1, <1>2, <1>3, <1>4 DEF Next, Goroutines

\* Type correctness.
THEOREM TypeCorrect == Spec => []TypeOK
<1>1. CoordinatorInv => TypeOK
  BY DEF CoordinatorInv
<1> QED
  BY Initially, Kept, <1>1, PTL DEF Spec

\* The coordinator lists exactly the open transactions, so that a cleanup reaches
\* every transaction that was left behind.
THEOREM OpenAreListed == Spec => []ListsTheOpen
<1>1. CoordinatorInv => ListsTheOpen
  BY DEF CoordinatorInv
<1> QED
  BY Initially, Kept, <1>1, PTL DEF Spec
===============================================================================
