---------------------------- MODULE MCTransaction ----------------------------
(* Instances of Transaction for TLC. *)
EXTENDS Transaction, TLC

CONSTANTS g, h, T, x, y, v1, v2

OneUser == (g :> T) @@ (h :> None)
TwoUsers == (g :> T) @@ (h :> T)

\* One goroutine that reads, gives conditions and commits while another writer
\* changes x and a storage call fails, before or after it took effect.
Publishing ==
    [txOf |-> OneUser, atomicBatch |-> TRUE,
     calls |-> Operations \ {"Prepare", "Rollback"}, prepareFirst |-> FALSE,
     outsideKeys |-> {x}, failingHooks |-> {}, faultKinds |-> {"before", "after"}]

\* Two goroutines that share a transaction, and commit what they have prepared;
\* hooks fail.
Sharing ==
    [txOf |-> TwoUsers, atomicBatch |-> FALSE,
     calls |-> Operations \ {"Head", "PutIf", "DeleteIf"}, prepareFirst |-> TRUE,
     outsideKeys |-> {x}, failingHooks |-> {"pre-prepare", "post-prepare", "pre-commit"},
     faultKinds |-> {"before"}]

\* As Sharing, without failures, but Commit may be called at once.
Unprepared ==
    [txOf |-> TwoUsers, atomicBatch |-> TRUE,
     calls |-> {"Put", "Commit", "Rollback"}, prepareFirst |-> FALSE,
     outsideKeys |-> {}, failingHooks |-> {}, faultKinds |-> {}]

PublishingOrSharing == {Publishing, Sharing}
OnlyUnprepared == {Unprepared}

Values == Permutations({v1, v2})
===============================================================================
