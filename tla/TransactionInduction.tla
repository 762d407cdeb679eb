-------------------------- MODULE TransactionInduction --------------------------
(***************************************************************************)
(* What is true of transactions in every reachable state, and strong       *)
(* enough to be kept by every step. StagingInv holds however transactions  *)
(* are used; CommitInv needs them to be used in an orderly way: two        *)
(* goroutines that share one only commit what they have prepared.          *)
(***************************************************************************)
EXTENDS Transaction

Orderly ==
    \A s \in Settings :
        \/ s.prepareFirst
        \/ \A g, h \in Goroutines : s.txOf[g] = s.txOf[h] /\ s.txOf[g] # None => g = h

-------------------------------------------------------------------------------
(* A call is of a transaction; it commits where only Commit gets to, and   *)
(* knows the key it reads and the operation it publishes.                  *)
InCall ==
    \A g \in Goroutines :
        /\ pc[g] # "idle" => Tx(g) # None
        /\ committing[g] => pc[g] \in {"prepare", "validate", "relock", "publish", "undo"}
        /\ pc[g] \in {"relock", "publish", "undo"} => committing[g]
        /\ pc[g] \in {"get", "cache"} => reading[g][1] \in Keys
        /\ pc[g] = "cache" => reading[g][2] \in ETags
        /\ pc[g] = "publish" => next[g] >= 1

(* tx.opOrder lists the keys of tx.operations.                             *)
OrderFits == \A t \in Txs : Staged(t) = InOrder(t)

(* A Get is of a key that nobody else stages.                              *)
ReadsUnstaged ==
    \A g \in Goroutines :
        pc[g] \in {"get", "cache"} /\ Alone(Tx(g)) => ops[Tx(g)][reading[g][1]] = None

(* The condition of a staged operation lets it replace only what was seen. *)
OnlyReplaces(condition, value) ==
    \/ Named(condition.match) /\ condition.match = value
    \/ condition.noMatch = Star /\ value = None
SeenFits ==
    \A t \in Txs, k \in Keys :
        Alone(t) /\ ops[t][k] # None => OnlyReplaces(ops[t][k].cond, seen[t][k])

StagingInv == TypeOK /\ InCall /\ OrderFits /\ ReadsUnstaged /\ SeenFits

-------------------------------------------------------------------------------
(* The mutex is held between the storage calls of a Prepare or a Commit,   *)
(* and the state of the transaction says which.                            *)
Holding ==
    /\ \A t \in Txs : holder[t] # None =>
           Tx(holder[t]) = t /\ pc[holder[t]] \in {"validate", "publish"}
    /\ \A g \in Goroutines :
           /\ pc[g] = "validate" => holder[Tx(g)] = g /\ state[Tx(g)] = "preparing"
           /\ pc[g] = "publish" => holder[Tx(g)] = g /\ state[Tx(g)] = "committing"

ClosedFits == \A t \in Txs : closed[t] <=> state[t] \in {"committed", "rolled-back"}

(* What Commit does without the mutex, nobody else interferes with, except *)
(* that a transaction may be rolled back before Commit does it.            *)
Undisturbed ==
    \A g \in Goroutines :
        /\ committing[g] /\ pc[g] \in {"prepare", "validate", "relock"} =>
               ~setting.prepareFirst
        /\ pc[g] = "relock" => state[Tx(g)] = "preparing"
        /\ pc[g] = "undo" =>
               holder[Tx(g)] = None /\ state[Tx(g)] \in {"committing", "rolled-back"}
        /\ prepared[g] => Tx(g) # None /\ state[Tx(g)] # "active"

(* A storage call that failed may have taken effect.                       *)
Lost == "after" \in setting.faultKinds /\ faults > 0

(* Nothing is published before Commit has the mutex and the hooks have     *)
(* succeeded.                                                              *)
Untouched ==
    \A t \in Txs :
        \/ state[t] \in {"active", "preparing"}
        \/ state[t] = "committing" /\ holder[t] = None
        => applied[t] = {}

(* How far a Commit has come: what it has published is staged, it has      *)
(* published everything up to the next operation unless one failed, and    *)
(* a failure ends the commit of a transaction that is not partial.         *)
PublishFits ==
    \A g \in Goroutines :
        /\ pc[g] # "publish" => ~failed[g]
        /\ pc[g] = "publish" =>
               /\ applied[Tx(g)] \subseteq Staged(Tx(g))
               /\ ~failed[g] => \A i \in 1..Len(order[Tx(g)]) :
                                    i < next[g] => order[Tx(g)][i] \in applied[Tx(g)]
               /\ Tx(g) \notin partial =>
                      /\ ~failed[g]
                      /\ InBatch(Tx(g)) \/ next[g] = 1 => applied[Tx(g)] = {} \/ Lost

(* What was staged when Commit was called is still staged; what a Commit   *)
(* returned is about a transaction.                                        *)
PromiseFits ==
    \A g \in Goroutines :
        /\ committing[g] /\ pc[g] # "undo" => promised[g] \subseteq Staged(Tx(g))
        /\ outcome[g] = "nil" => Tx(g) # None

CommitInv ==
    /\ Holding /\ ClosedFits /\ Undisturbed /\ Untouched /\ PublishFits /\ PromiseFits
    /\ AllOrNothing /\ NilMeansApplied
===============================================================================
