----------------------------- MODULE Coordinator ------------------------------
(***************************************************************************)
(* TransactionCoordinator of store/transaction.go: the process-wide map of *)
(* open transactions, the mutex that guards it, the mutex of each          *)
(* transaction, and the order in which goroutines take the two: a Commit   *)
(* or Rollback unregisters its transaction while it holds the              *)
(* transaction's mutex, and CleanupStaleTransactions asks the transactions *)
(* for their age while it holds the coordinator's.                         *)
(*                                                                         *)
(* What a commit does to the backend is in module Transaction; here it     *)
(* succeeds or fails. It gives up the transaction's mutex around Prepare,  *)
(* and to roll back when a hook fails. A critical section in which no      *)
(* other mutex is asked for is one action.                                 *)
(***************************************************************************)
CONSTANTS
    Workers,      \* goroutines that begin, commit and roll back transactions
    Sweepers,     \* goroutines that call CleanupStaleTransactions
    Txs,          \* transactions
    None          \* nobody, no transaction

ASSUME CoordinatorAssumption ==
    /\ Workers \cap Sweepers = {}
    /\ None \notin Workers \cup Sweepers /\ None \notin Txs

Goroutines == Workers \cup Sweepers

VARIABLES
    state,        \* tx.state
    closed,       \* the transactions whose tx.closed is set
    emptied,      \* those whose tx.operations a Rollback has emptied
    registered,   \* the keys of c.transactions
    holder,       \* who holds each transaction's mutex
    guard,        \* who holds the coordinator's mutex
    pc,           \* where each goroutine is
    tx,           \* the transaction its call is about
    todo,         \* transactions a sweeper has still to ask for their age
    stale         \* transactions a sweeper has still to roll back

ends == <<closed, emptied>>
locals == <<pc, tx, todo, stale>>
vars == <<state, ends, registered, holder, guard, locals>>

Steps == {"idle", "prepare", "relock", "committing", "rollback", "unregister",
          "scan", "sweep", "lookedUp"}
States == {"none", "active", "preparing", "committing", "committed", "aborted", "rolled-back"}

Init ==
    /\ state = [t \in Txs |-> "none"]
    /\ closed = {} /\ emptied = {}
    /\ registered = {}
    /\ holder = [t \in Txs |-> None]
    /\ guard = None
    /\ pc = [g \in Goroutines |-> "idle"]
    /\ tx = [g \in Goroutines |-> None]
    /\ todo = [g \in Goroutines |-> {}]
    /\ stale = [g \in Goroutines |-> {}]

At(g, s) == pc[g] = s
Goto(g, s, t) ==
    /\ pc' = [pc EXCEPT ![g] = s]
    /\ tx' = [tx EXCEPT ![g] = t]
\* A worker is done with its call, a sweeper goes on with the next transaction.
Home(g) == IF g \in Sweepers THEN "sweep" ELSE "idle"

-------------------------------------------------------------------------------
\* NewEnhancedTransaction creates a transaction and registers it.
Begin(g, t) ==
    /\ At(g, "idle") /\ state[t] = "none" /\ guard = None
    /\ state' = [state EXCEPT ![t] = "active"]
    /\ registered' = registered \cup {t}
    /\ UNCHANGED <<ends, holder, guard, locals>>

\* Prepare of t, which its hooks and the backend allow or not.
Prepare(t, outcome) ==
    /\ state[t] = "active" /\ holder[t] = None
    /\ state' = [state EXCEPT ![t] = outcome]
    /\ UNCHANGED <<ends, registered, holder, guard, todo, stale>>
PrepareOnly(g, t) ==
    /\ At(g, "idle") /\ UNCHANGED <<pc, tx>>
    /\ Prepare(t, "preparing") \/ Prepare(t, "aborted")

\* Commit, up to where it publishes. A transaction that is not prepared yet is
\* prepared without the mutex being held; what becomes of it between that and
\* Relock is not looked at.
Enter(g, t) ==
    /\ holder[t] = None
    /\ state' = [state EXCEPT ![t] = "committing"]
    /\ holder' = [holder EXCEPT ![t] = g]
    /\ Goto(g, "committing", t)
    /\ UNCHANGED <<ends, registered, guard, todo, stale>>
Commit(g, t) ==
    /\ At(g, "idle") /\ holder[t] = None
    /\ \/ state[t] = "preparing" /\ Enter(g, t)
       \/ /\ state[t] = "active" /\ Goto(g, "prepare", t)
          /\ UNCHANGED <<state, ends, registered, holder, guard, todo, stale>>
AutoPrepare(g) ==
    /\ At(g, "prepare")
    /\ \/ Prepare(tx[g], "preparing") /\ Goto(g, "relock", tx[g])
       \/ Prepare(tx[g], "aborted") /\ Goto(g, "idle", None)
       \/ /\ state[tx[g]] # "active" /\ holder[tx[g]] = None /\ Goto(g, "idle", None)
          /\ UNCHANGED <<state, ends, registered, holder, guard, todo, stale>>
Relock(g) == At(g, "relock") /\ Enter(g, tx[g])

\* Nothing that can fail is left of a transaction that was rolled back meanwhile.
CommitFails(g) ==
    /\ At(g, "committing") /\ tx[g] \notin emptied
    /\ state' = [state EXCEPT ![tx[g]] = "aborted"]
    /\ holder' = [holder EXCEPT ![tx[g]] = None]
    /\ Goto(g, "idle", None)
    /\ UNCHANGED <<ends, registered, guard, todo, stale>>

CommitSucceeds(g) ==
    /\ At(g, "committing")
    /\ state' = [state EXCEPT ![tx[g]] = "committed"]
    /\ closed' = closed \cup {tx[g]}
    /\ Goto(g, "unregister", tx[g])
    /\ UNCHANGED <<emptied, registered, holder, guard, todo, stale>>

\* A pre-commit hook fails: Commit gives up the mutex and calls Rollback.
HookFails(g) ==
    /\ At(g, "committing")
    /\ holder' = [holder EXCEPT ![tx[g]] = None]
    /\ Goto(g, "rollback", tx[g])
    /\ UNCHANGED <<state, ends, registered, guard, todo, stale>>

RollBackUnfinished(g, t) ==  \* faulty: the state never leaves rolling-back
    /\ holder[t] = None
    /\ IF t \in closed
       THEN Goto(g, Home(g), None) /\ UNCHANGED <<state, ends, holder>>
       ELSE /\ state' = [state EXCEPT ![t] = "rolling-back"]
            /\ holder' = [holder EXCEPT ![t] = g]
            /\ Goto(g, "unregister", t)
            /\ UNCHANGED ends
    /\ UNCHANGED <<registered, guard, todo, stale>>
\* Rollback of t by g: refused if t is closed, unregistered later if not.
RollBack(g, t) ==
    /\ holder[t] = None
    /\ IF t \in closed \/ state[t] \in {"committed", "rolled-back"}
       THEN Goto(g, Home(g), None) /\ UNCHANGED <<state, ends, holder>>
       ELSE /\ state' = [state EXCEPT ![t] = "rolled-back"]
            /\ closed' = closed \cup {t} /\ emptied' = emptied \cup {t}
            /\ holder' = [holder EXCEPT ![t] = g]
            /\ Goto(g, "unregister", t)
    /\ UNCHANGED <<registered, guard, todo, stale>>
Rollback(g, t) == At(g, "idle") /\ state[t] # "none" /\ RollBack(g, t)
CommitRollsBack(g) == At(g, "rollback") /\ RollBack(g, tx[g])

UnregisterNothing(g) ==  \* faulty: the transaction stays registered
    /\ At(g, "unregister") /\ guard = None
    /\ holder' = [holder EXCEPT ![tx[g]] = None]
    /\ Goto(g, Home(g), None)
    /\ UNCHANGED <<state, ends, registered, guard, todo, stale>>
\* UnregisterTransaction, still under the transaction's mutex.
Unregister(g) ==
    /\ At(g, "unregister") /\ guard = None
    /\ registered' = registered \ {tx[g]}
    /\ holder' = [holder EXCEPT ![tx[g]] = None]
    /\ Goto(g, Home(g), None)
    /\ UNCHANGED <<state, ends, guard, todo, stale>>

-------------------------------------------------------------------------------
\* CleanupStaleTransactions: with the coordinator's mutex, ask each
\* registered transaction for its start time, which needs its mutex.
Cleanup(g) ==
    /\ At(g, "idle") /\ guard = None
    /\ guard' = g
    /\ todo' = [todo EXCEPT ![g] = registered]
    /\ Goto(g, "scan", None)
    /\ UNCHANGED <<state, ends, registered, holder, stale>>

Ask(g, t) ==
    /\ At(g, "scan") /\ t \in todo[g] /\ holder[t] = None
    /\ todo' = [todo EXCEPT ![g] = @ \ {t}]
    /\ \/ stale' = [stale EXCEPT ![g] = @ \cup {t}]
       \/ UNCHANGED stale
    /\ UNCHANGED <<state, ends, registered, holder, guard, pc, tx>>

Asked(g) ==
    /\ At(g, "scan") /\ todo[g] = {}
    /\ guard' = None
    /\ Goto(g, "sweep", None)
    /\ UNCHANGED <<state, ends, registered, holder, todo, stale>>

\* GetTransaction, then Rollback if it is still there.
LookUp(g, t) ==
    /\ At(g, "sweep") /\ t \in stale[g] /\ guard = None
    /\ stale' = [stale EXCEPT ![g] = @ \ {t}]
    /\ IF t \in registered THEN Goto(g, "lookedUp", t) ELSE UNCHANGED <<pc, tx>>
    /\ UNCHANGED <<state, ends, registered, holder, guard, todo>>

Sweep(g) == At(g, "lookedUp") /\ RollBack(g, tx[g])

Swept(g) ==
    /\ At(g, "sweep") /\ stale[g] = {}
    /\ Goto(g, "idle", None)
    /\ UNCHANGED <<state, ends, registered, holder, guard, todo, stale>>

-------------------------------------------------------------------------------
Committing(g) ==
    \/ AutoPrepare(g) \/ Relock(g)
    \/ CommitFails(g) \/ CommitSucceeds(g) \/ HookFails(g) \/ CommitRollsBack(g)
Sweeping(g) ==
    \/ Asked(g) \/ Sweep(g) \/ Swept(g)
    \/ \E t \in Txs : Ask(g, t) \/ LookUp(g, t)
Calling(g, t) == Begin(g, t) \/ PrepareOnly(g, t) \/ Commit(g, t) \/ Rollback(g, t)

Next ==
    \/ \E g \in Workers : Committing(g) \/ Unregister(g) \/ \E t \in Txs : Calling(g, t)
    \/ \E g \in Sweepers : Cleanup(g) \/ Sweeping(g) \/ Unregister(g)

Spec == Init /\ [][Next]_vars

\* A goroutine that can always go on with its call, or can again and again,
\* does: the scheduler is fair and so are Go's mutexes.
Fairness ==
    \A g \in Goroutines : SF_vars(Committing(g) \/ Unregister(g) \/ Sweeping(g))
FairSpec == Spec /\ Fairness

-------------------------------------------------------------------------------
(* Every variable has the shape its declaration says.                      *)
TypeOK ==
    /\ state \in [Txs -> States]
    /\ closed \subseteq Txs /\ emptied \subseteq closed
    /\ registered \subseteq Txs
    /\ holder \in [Txs -> Goroutines \cup {None}]
    /\ guard \in Goroutines \cup {None}
    /\ pc \in [Goroutines -> Steps]
    /\ tx \in [Goroutines -> Txs \cup {None}]
    /\ todo \in [Goroutines -> SUBSET Txs]
    /\ stale \in [Goroutines -> SUBSET Txs]

(* The coordinator lists exactly the transactions that are not closed: one *)
(* that is closed is listed only while its call is on its way to           *)
(* unregister it, and an open one never disappears, so that a cleanup      *)
(* reaches every transaction that was left behind, whatever happens where  *)
(* a Commit has no mutex (RegisterTransaction, UnregisterTransaction).     *)
ListsTheOpen ==
    \A t \in Txs :
        /\ state[t] # "none" /\ t \notin closed => t \in registered
        /\ t \in registered \cap closed =>
               \E g \in Goroutines : holder[t] = g /\ At(g, "unregister") /\ tx[g] = t

(* "CleanupStaleTransactions aborts transactions that have been inactive"  *)
(* (transaction.go:958): a cleanup that has begun comes to its end.        *)
CleanupEnds == \A g \in Sweepers : pc[g] # "idle" ~> pc[g] = "idle"
===============================================================================
