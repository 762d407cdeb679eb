------------------------------ MODULE FileProofs ------------------------------
(***************************************************************************)
(* Proofs about FileStorage in a tree where no key is the path of the      *)
(* directory of another: the invariant FileInv, and that the directory     *)
(* tree is a conditional register per key.                                 *)
(***************************************************************************)
EXTENDS FileRefinement, TLAPS

Ends == {"ok", "refused", "failed"}

-------------------------------------------------------------------------------
(* The invariant. One lemma for the steps that end a call, whatever the    *)
(* reason, and one for each other step.                                    *)

\* A client that is not idle has asked for something.
LEMMA Asking ==
    ASSUME TypeOK, StepFacts, NEW c \in Clients, pc[c] # "idle"
    PROVE  /\ request[c] \in Requests
           /\ Key(c) \in Keys
           /\ request[c].etag \in ETags
BY FileAssumption DEF TypeOK, StepFacts, At, Key

\* The end of a call by an error or with its answer.
LEMMA FinishKeeps ==
    ASSUME Folder \notin Keys, FileInv,
           NEW c \in Clients, NEW r \in Ends,
           pc[c] \notin Over, Finish(c, r), UNCHANGED node,
           seen' \in [Clients -> ETags \cup {None}], faults' \in 0..MaxFaults
    PROVE  FileInv'
<1> USE FileAssumption DEF FileInv
<1>1. TypeOK'
  BY DEF TypeOK, Finish, GoOn, Leave, Goto, Unlocked, Ends, Steps
<1>2. LockedWhileCritical'
  BY DEF TypeOK, LockedWhileCritical, Finish, GoOn, Leave, Goto, Key, Unlocked, Critical
<1>3. NothingLeftBehind'
  BY DEF TypeOK, NothingLeftBehind, Finish, GoOn, Leave, Goto, At, Unlocked
<1>4. StagedWhilePutting'
  BY DEF TypeOK, StagedWhilePutting, Finish, GoOn, Leave, Goto, At, Is
<1>5. FolderHoldsItsFiles'
  BY DEF TypeOK, FolderHoldsItsFiles, FolderInUse, InFolder, Key, Finish, GoOn, Leave, Goto
<1>6. StepFacts'
  BY DEF TypeOK, StepFacts, Finish, GoOn, Leave, Goto, At, Is, Key, InFolder, Over, Ends
<1>7. ObjectsAreFiles'
  BY DEF ObjectsAreFiles
<1> QED BY <1>1, <1>2, <1>3, <1>4, <1>5, <1>6, <1>7

\* A call begins.
LEMMA BeginKeeps ==
    ASSUME Folder \notin Keys, FileInv, NEW c \in Clients, Begin(c)
    PROVE  FileInv'
<1> USE FileAssumption DEF FileInv, Begin, GoOn, Leave, Goto, At
<1>1. TypeOK'
  BY DEF TypeOK, Steps, Critical, Paths, Unlocked
<1>2. LockedWhileCritical'
  BY DEF TypeOK, LockedWhileCritical, Key, Critical, Unlocked
<1>3. NothingLeftBehind'
  BY DEF TypeOK, NothingLeftBehind, LockedWhileCritical, StagedWhilePutting, Critical, Unlocked
<1>4. StagedWhilePutting'
  BY DEF TypeOK, StagedWhilePutting, StepFacts, Is
<1>5. FolderHoldsItsFiles'
  BY DEF TypeOK, FolderHoldsItsFiles, FolderInUse, StagedWhilePutting, InFolder, Key, Paths
<1>6. StepFacts'
  BY DEF TypeOK, StepFacts, LockedWhileCritical, Critical, Is, Key, InFolder, Over, Paths
<1>7. ObjectsAreFiles'
  BY DEF TypeOK, ObjectsAreFiles, Paths
<1> QED BY <1>1, <1>2, <1>3, <1>4, <1>5, <1>6, <1>7

\* The directory is there, or the call fails.
LEMMA MakeFolderKeeps ==
    ASSUME Folder \notin Keys, FileInv, NEW c \in Clients, MakeFolder(c)
    PROVE  FileInv'
<1> USE FileAssumption DEF FileInv, MakeFolder, GoOn, Leave, Goto, At
<1> SUFFICES ASSUME InFolder(c) => node[Folder] \notin ETags
             PROVE  FileInv'
  BY FinishKeeps DEF TypeOK, Ends, Over
<1>1. TypeOK'
  BY DEF TypeOK, Steps, Critical, Paths
<1>2. LockedWhileCritical'
  BY DEF TypeOK, LockedWhileCritical, Key, Critical, Unlocked
<1>3. NothingLeftBehind'
  BY DEF TypeOK, NothingLeftBehind, LockedWhileCritical, StagedWhilePutting, Critical, Unlocked
<1>4. StagedWhilePutting'
  BY DEF TypeOK, StagedWhilePutting, StepFacts, Is
<1>5. FolderHoldsItsFiles'
  BY DEF TypeOK, FolderHoldsItsFiles, FolderInUse, StagedWhilePutting, InFolder, Key, Paths
<1>6. StepFacts'
  BY DEF TypeOK, StepFacts, LockedWhileCritical, Critical, Is, Key, InFolder, Over, Paths
<1>7. ObjectsAreFiles'
  BY DEF TypeOK, ObjectsAreFiles, Paths
<1> QED BY <1>1, <1>2, <1>3, <1>4, <1>5, <1>6, <1>7

\* The staged file keeps the directory in use.
LEMMA StageKeeps ==
    ASSUME Folder \notin Keys, FileInv, NEW c \in Clients, Stage(c)
    PROVE  FileInv'
<1> USE FileAssumption DEF FileInv, Stage, GoOn, Leave, Goto, At
<1> SUFFICES ASSUME InFolder(c) => node[Folder] = Directory
             PROVE  FileInv'
  BY FinishKeeps DEF TypeOK, Ends, Over
<1>1. TypeOK'
  BY DEF TypeOK, Steps, Critical, Paths, Unlocked
<1>2. LockedWhileCritical'
  BY DEF TypeOK, LockedWhileCritical, Key, Critical, Unlocked
<1>3. NothingLeftBehind'
  BY DEF TypeOK, NothingLeftBehind, LockedWhileCritical, StagedWhilePutting, Critical, Unlocked
<1>4. StagedWhilePutting'
  BY DEF TypeOK, StagedWhilePutting, StepFacts, Is
<1>5. FolderHoldsItsFiles'
  BY DEF TypeOK, FolderHoldsItsFiles, FolderInUse, StagedWhilePutting, InFolder, Key, Paths
<1>6. StepFacts'
  BY DEF TypeOK, StepFacts, LockedWhileCritical, Critical, Is, Key, InFolder, Over, Paths
<1>7. ObjectsAreFiles'
  BY DEF TypeOK, ObjectsAreFiles, Paths
<1> QED BY <1>1, <1>2, <1>3, <1>4, <1>5, <1>6, <1>7

\* A condition that holds is as good as locked.
LEMMA CheckPutKeeps ==
    ASSUME Folder \notin Keys, FileInv, NEW c \in Clients, CheckPut(c)
    PROVE  FileInv'
<1> USE FileAssumption DEF FileInv, CheckPut, GoOn, Leave, Goto, At
<1> SUFFICES ASSUME Readable(c), PutAllowed(node[Key(c)], request[c].condition)
             PROVE  FileInv'
  BY FinishKeeps DEF TypeOK, Ends, Over
<1>1. TypeOK'
  BY Asking DEF TypeOK, Steps, Critical, Paths, Unlocked
<1>2. LockedWhileCritical'
  BY Asking DEF TypeOK, LockedWhileCritical, Key, Critical, Unlocked
<1>3. NothingLeftBehind'
  BY DEF TypeOK, NothingLeftBehind, LockedWhileCritical, StagedWhilePutting, Critical, Unlocked
<1>4. StagedWhilePutting'
  BY DEF TypeOK, StagedWhilePutting, StepFacts, Is
<1>5. FolderHoldsItsFiles'
  BY Asking DEF TypeOK, FolderHoldsItsFiles, FolderInUse, StagedWhilePutting, InFolder, Key, Paths
<1>6. StepFacts'
  BY Asking DEF TypeOK, StepFacts, LockedWhileCritical, Critical, Is, Key, InFolder, Over, Paths
<1>7. ObjectsAreFiles'
  BY Asking DEF TypeOK, ObjectsAreFiles, Paths
<1> QED BY <1>1, <1>2, <1>3, <1>4, <1>5, <1>6, <1>7

\* The lock has kept the condition true.
LEMMA PublishKeeps ==
    ASSUME Folder \notin Keys, FileInv, NEW c \in Clients, Publish(c)
    PROVE  FileInv'
<1> USE FileAssumption DEF FileInv
<1> SUFFICES ASSUME Linked(c) => node[Key(c)] = None
             PROVE  FileInv'
  BY FinishKeeps DEF Publish, At, TypeOK, Ends, Over
<1>a. /\ At(c, "publish") /\ Key(c) \in Keys /\ request[c].etag \in ETags
      /\ staged[c] /\ Is(c, "Put")
  BY Asking DEF Publish, At, StagedWhilePutting
<1>b. /\ node' = [node EXCEPT ![Key(c)] = request[c].etag]
      /\ pc' = [pc EXCEPT ![c] = IF Linked(c) THEN "unlink" ELSE "syncPut"]
      /\ staged' = [staged EXCEPT ![c] = IF Linked(c) THEN TRUE ELSE FALSE]
      /\ UNCHANGED <<litter, lock, result, request, seen, faults>>
  <2>1. node[Key(c)] # Directory
    BY <1>a DEF ObjectsAreFiles
  <2>2. CASE Linked(c)
    <3>1. staged = [staged EXCEPT ![c] = TRUE]
      BY <1>a DEF TypeOK
    <3> QED BY <2>2, <3>1 DEF Publish, GoOn, Goto
  <2>3. CASE ~Linked(c)
    BY <2>1, <2>3 DEF Publish, GoOn, Goto
  <2> QED BY <2>2, <2>3
<1>1. TypeOK'
  BY <1>a, <1>b DEF TypeOK, Steps, Critical, Paths
<1>2. LockedWhileCritical'
  BY <1>a, <1>b DEF TypeOK, LockedWhileCritical, Key, Critical, At
<1>3. NothingLeftBehind'
  BY <1>a, <1>b DEF TypeOK, NothingLeftBehind, LockedWhileCritical, StagedWhilePutting, Critical, At
<1>4. StagedWhilePutting'
  BY <1>a, <1>b DEF TypeOK, StagedWhilePutting, StepFacts, Is, At
<1>5. FolderHoldsItsFiles'
  BY <1>a, <1>b DEF TypeOK, FolderHoldsItsFiles, FolderInUse, StagedWhilePutting, InFolder, Key, Paths
<1>6. StepFacts'
  BY <1>a, <1>b DEF TypeOK, StepFacts, LockedWhileCritical, Critical, Is, Key, InFolder, Over, Paths, At
<1>7. ObjectsAreFiles'
  BY <1>a, <1>b DEF TypeOK, ObjectsAreFiles, Paths
<1> QED BY <1>1, <1>2, <1>3, <1>4, <1>5, <1>6, <1>7

\* The second name of a created object is removed.
LEMMA UnlinkKeeps ==
    ASSUME Folder \notin Keys, FileInv, NEW c \in Clients, Unlink(c)
    PROVE  FileInv'
<1> USE FileAssumption DEF FileInv, Unlink, GoOn, Leave, Goto, At
<1>1. TypeOK'
  BY DEF TypeOK, Steps, Critical, Paths, Unlocked
<1>2. LockedWhileCritical'
  BY DEF TypeOK, LockedWhileCritical, Key, Critical, Unlocked
<1>3. NothingLeftBehind'
  BY DEF TypeOK, NothingLeftBehind, LockedWhileCritical, StagedWhilePutting, Critical, Unlocked
<1>4. StagedWhilePutting'
  BY DEF TypeOK, StagedWhilePutting, StepFacts, Is
<1>5. FolderHoldsItsFiles'
  BY DEF TypeOK, FolderHoldsItsFiles, FolderInUse, StagedWhilePutting, InFolder, Key, Paths
<1>6. StepFacts'
  BY DEF TypeOK, StepFacts, LockedWhileCritical, Critical, Is, Key, InFolder, Over, Paths
<1>7. ObjectsAreFiles'
  BY DEF TypeOK, ObjectsAreFiles, Paths
<1> QED BY <1>1, <1>2, <1>3, <1>4, <1>5, <1>6, <1>7

\* A staged file that was not published is removed.
LEMMA DiscardKeeps ==
    ASSUME Folder \notin Keys, FileInv, NEW c \in Clients, Discard(c)
    PROVE  FileInv'
<1> USE FileAssumption DEF FileInv, Discard, GoOn, Leave, Goto, At
<1>1. TypeOK'
  BY DEF TypeOK, Steps, Critical, Paths, Unlocked
<1>2. LockedWhileCritical'
  BY DEF TypeOK, LockedWhileCritical, Key, Critical, Unlocked
<1>3. NothingLeftBehind'
  BY DEF TypeOK, NothingLeftBehind, LockedWhileCritical, StagedWhilePutting, Critical, Unlocked
<1>4. StagedWhilePutting'
  BY DEF TypeOK, StagedWhilePutting, StepFacts, Is
<1>5. FolderHoldsItsFiles'
  BY DEF TypeOK, FolderHoldsItsFiles, FolderInUse, StagedWhilePutting, InFolder, Key, Paths
<1>6. StepFacts'
  BY DEF TypeOK, StepFacts, LockedWhileCritical, Critical, Is, Key, InFolder, Over, Paths
<1>7. ObjectsAreFiles'
  BY DEF TypeOK, ObjectsAreFiles, Paths
<1> QED BY <1>1, <1>2, <1>3, <1>4, <1>5, <1>6, <1>7

\* A condition that holds is as good as locked.
LEMMA CheckDeleteKeeps ==
    ASSUME Folder \notin Keys, FileInv, NEW c \in Clients, CheckDelete(c)
    PROVE  FileInv'
<1> USE FileAssumption DEF FileInv, CheckDelete, GoOn, Leave, Goto, At
<1> SUFFICES ASSUME Readable(c), node[Key(c)] # None,
                    DeleteAllowed(node[Key(c)], request[c].condition)
             PROVE  FileInv'
  BY FinishKeeps DEF TypeOK, Ends, Over
<1>1. TypeOK'
  BY Asking DEF TypeOK, Steps, Critical, Paths, Unlocked
<1>2. LockedWhileCritical'
  BY Asking DEF TypeOK, LockedWhileCritical, Key, Critical, Unlocked
<1>3. NothingLeftBehind'
  BY DEF TypeOK, NothingLeftBehind, LockedWhileCritical, StagedWhilePutting, Critical, Unlocked
<1>4. StagedWhilePutting'
  BY DEF TypeOK, StagedWhilePutting, StepFacts, Is
<1>5. FolderHoldsItsFiles'
  BY Asking DEF TypeOK, FolderHoldsItsFiles, FolderInUse, StagedWhilePutting, InFolder, Key, Paths
<1>6. StepFacts'
  BY Asking DEF TypeOK, StepFacts, LockedWhileCritical, Critical, Is, Key, InFolder, Over, Paths
<1>7. ObjectsAreFiles'
  BY Asking DEF TypeOK, ObjectsAreFiles, Paths
<1> QED BY <1>1, <1>2, <1>3, <1>4, <1>5, <1>6, <1>7

\* The object is removed.
LEMMA RemoveKeeps ==
    ASSUME Folder \notin Keys, FileInv, NEW c \in Clients, Remove(c)
    PROVE  FileInv'
<1> USE FileAssumption DEF FileInv, Remove, OsRemove, GoOn, Leave, Goto, At
<1> SUFFICES ASSUME Removable(Key(c))
             PROVE  FileInv'
  BY FinishKeeps DEF TypeOK, Ends, Over
<1>1. TypeOK'
  BY Asking DEF TypeOK, Steps, Critical, Paths, Unlocked
<1>2. LockedWhileCritical'
  BY Asking DEF TypeOK, LockedWhileCritical, Key, Critical, Unlocked
<1>3. NothingLeftBehind'
  BY DEF TypeOK, NothingLeftBehind, LockedWhileCritical, StagedWhilePutting, Critical, Unlocked
<1>4. StagedWhilePutting'
  BY DEF TypeOK, StagedWhilePutting, StepFacts, Is
<1>5. FolderHoldsItsFiles'
  BY Asking DEF TypeOK, FolderHoldsItsFiles, FolderInUse, StagedWhilePutting, InFolder, Key, Paths
<1>6. StepFacts'
  BY Asking DEF TypeOK, StepFacts, LockedWhileCritical, Critical, Is, Key, InFolder, Over, Paths
<1>7. ObjectsAreFiles'
  BY Asking DEF TypeOK, ObjectsAreFiles, Paths
<1> QED BY <1>1, <1>2, <1>3, <1>4, <1>5, <1>6, <1>7

\* The lock of a deleted key is released.
LEMMA SyncRemovedKeeps ==
    ASSUME Folder \notin Keys, FileInv, NEW c \in Clients, SyncRemoved(c)
    PROVE  FileInv'
<1> USE FileAssumption DEF FileInv, SyncRemoved, GoOn, Leave, Goto, At
<1> SUFFICES ASSUME InFolder(c) => node[Folder] # None
             PROVE  FileInv'
  BY FinishKeeps DEF TypeOK, Ends, Over
<1>1. TypeOK'
  BY DEF TypeOK, Steps, Critical, Paths, Unlocked
<1>2. LockedWhileCritical'
  BY DEF TypeOK, LockedWhileCritical, Key, Critical, Unlocked
<1>3. NothingLeftBehind'
  BY DEF TypeOK, NothingLeftBehind, LockedWhileCritical, StagedWhilePutting, Critical, Unlocked
<1>4. StagedWhilePutting'
  BY DEF TypeOK, StagedWhilePutting, StepFacts, Is
<1>5. FolderHoldsItsFiles'
  BY DEF TypeOK, FolderHoldsItsFiles, FolderInUse, StagedWhilePutting, InFolder, Key, Paths
<1>6. StepFacts'
  BY DEF TypeOK, StepFacts, LockedWhileCritical, Critical, Is, Key, InFolder, Over, Paths
<1>7. ObjectsAreFiles'
  BY DEF TypeOK, ObjectsAreFiles, Paths
<1> QED BY <1>1, <1>2, <1>3, <1>4, <1>5, <1>6, <1>7

\* The clean-up has found the directory empty, or in use.
LEMMA ScanKeeps ==
    ASSUME Folder \notin Keys, FileInv, NEW c \in Clients, Scan(c)
    PROVE  FileInv'
<1> USE FileAssumption DEF FileInv, Scan, GoOn, Leave, Goto, At
<1>1. TypeOK'
  BY DEF TypeOK, Steps, Critical, Paths, Unlocked
<1>2. LockedWhileCritical'
  BY DEF TypeOK, LockedWhileCritical, Key, Critical, Unlocked
<1>3. NothingLeftBehind'
  BY DEF TypeOK, NothingLeftBehind, LockedWhileCritical, StagedWhilePutting, Critical, Unlocked
<1>4. StagedWhilePutting'
  BY DEF TypeOK, StagedWhilePutting, StepFacts, Is
<1>5. FolderHoldsItsFiles'
  BY DEF TypeOK, FolderHoldsItsFiles, FolderInUse, StagedWhilePutting, InFolder, Key, Paths
<1>6. StepFacts'
  BY DEF TypeOK, StepFacts, LockedWhileCritical, Critical, Is, Key, InFolder, Over, Paths
<1>7. ObjectsAreFiles'
  BY DEF TypeOK, ObjectsAreFiles, Paths
<1> QED BY <1>1, <1>2, <1>3, <1>4, <1>5, <1>6, <1>7

\* The clean-up removes the directory only if it is still empty.
LEMMA PruneKeeps ==
    ASSUME Folder \notin Keys, FileInv, NEW c \in Clients, Prune(c)
    PROVE  FileInv'
<1> USE FileAssumption DEF FileInv, Prune, OsRemove, Removable, GoOn, Leave, Goto, At
<1>1. TypeOK'
  BY DEF TypeOK, Steps, Critical, Paths, Unlocked
<1>2. LockedWhileCritical'
  BY DEF TypeOK, LockedWhileCritical, Key, Critical, Unlocked
<1>3. NothingLeftBehind'
  BY DEF TypeOK, NothingLeftBehind, LockedWhileCritical, StagedWhilePutting, Critical, Unlocked
<1>4. StagedWhilePutting'
  BY DEF TypeOK, StagedWhilePutting, StepFacts, Is
<1>5. FolderHoldsItsFiles'
  BY DEF TypeOK, FolderHoldsItsFiles, FolderInUse, StagedWhilePutting, InFolder, Key, Paths
<1>6. StepFacts'
  BY DEF TypeOK, StepFacts, LockedWhileCritical, Critical, Is, Key, InFolder, Over, Paths
<1>7. ObjectsAreFiles'
  BY DEF TypeOK, ObjectsAreFiles, Paths
<1> QED BY <1>1, <1>2, <1>3, <1>4, <1>5, <1>6, <1>7

\* A process dies.
LEMMA CrashKeeps ==
    ASSUME Folder \notin Keys, FileInv, NEW c \in Clients, Crash(c)
    PROVE  FileInv'
<1> USE FileAssumption DEF FileInv, Crash, Faulty, GoOn, Leave, Goto, At
<1>1. TypeOK'
  BY Asking DEF TypeOK, Steps, Critical, Paths, Unlocked
<1>2. LockedWhileCritical'
  BY Asking DEF TypeOK, LockedWhileCritical, Key, Critical, Unlocked
<1>3. NothingLeftBehind'
  BY DEF TypeOK, NothingLeftBehind, LockedWhileCritical, StagedWhilePutting, Critical, Unlocked
<1>4. StagedWhilePutting'
  BY DEF TypeOK, StagedWhilePutting, StepFacts, Is
<1>5. FolderHoldsItsFiles'
  BY Asking DEF TypeOK, FolderHoldsItsFiles, FolderInUse, StagedWhilePutting, InFolder, Key, Paths
<1>6. StepFacts'
  BY Asking DEF TypeOK, StepFacts, LockedWhileCritical, Critical, Is, Key, InFolder, Over, Paths
<1>7. ObjectsAreFiles'
  BY Asking DEF TypeOK, ObjectsAreFiles, Paths
<1> QED BY <1>1, <1>2, <1>3, <1>4, <1>5, <1>6, <1>7

LEMMA InitHolds == Init => FileInv
BY FileAssumption DEF Init, FileInv, TypeOK, LockedWhileCritical, NothingLeftBehind,
   StagedWhilePutting, FolderHoldsItsFiles, FolderInUse, StepFacts, ObjectsAreFiles,
   At, Steps, Critical, Over, Paths

LEMMA NextKeeps ==
    ASSUME Folder \notin Keys, FileInv, [Next]_vars
    PROVE  FileInv'
<1>1. CASE Next
  <2> PICK c \in Clients : Begin(c) \/ GiveUp(c) \/ Read(c) \/ Put(c) \/ Delete(c)
                           \/ CallFails(c) \/ Crash(c)
    BY <1>1 DEF Next
  <2>1. CASE Begin(c) \/ Crash(c)
    BY <2>1, BeginKeeps, CrashKeeps
  <2>2. CASE GiveUp(c)
    BY <2>2, FinishKeeps DEF GiveUp, FileInv, TypeOK, At, Over, Ends
  <2>3. CASE Read(c)
    <3>1. node[Key(c)] # None => node[Key(c)] \in ETags
      BY <2>3, Asking DEF Read, At, FileInv, TypeOK, ObjectsAreFiles, Paths
    <3>2. seen' \in [Clients -> ETags \cup {None}]
      BY <2>3, <3>1 DEF Read, FileInv, TypeOK
    <3> QED BY <2>3, <3>2, FinishKeeps DEF Read, FileInv, TypeOK, At, Over, Ends
  <2>4. CASE SyncPut(c)
    BY <2>4, FinishKeeps DEF SyncPut, FileInv, TypeOK, At, Over, Ends
  <2>5. CASE Put(c)
    BY <2>4, <2>5, MakeFolderKeeps, StageKeeps, CheckPutKeeps, PublishKeeps, UnlinkKeeps,
       DiscardKeeps DEF Put
  <2>6. CASE Delete(c)
    BY <2>6, CheckDeleteKeeps, RemoveKeeps, SyncRemovedKeeps, ScanKeeps, PruneKeeps
       DEF Delete
  <2>7. CASE CallFails(c)
    BY <2>7, FileAssumption, FinishKeeps
       DEF CallFails, Faulty, FileInv, TypeOK, At, Over, Ends, Critical
  <2> QED BY <2>1, <2>2, <2>3, <2>5, <2>6, <2>7
<1>2. CASE UNCHANGED vars
  BY <1>2 DEF vars, locals, FileInv, TypeOK, LockedWhileCritical, NothingLeftBehind,
     StagedWhilePutting, FolderHoldsItsFiles, FolderInUse, StepFacts, ObjectsAreFiles,
     At, Is, Key, InFolder
<1> QED BY <1>1, <1>2

(* Whatever the processes, faults and crashes, a lock is held exactly      *)
(* while a condition must stay true, a call leaves neither its lock nor    *)
(* its staged file, and a directory in use is not removed.                 *)
THEOREM FilesStayConsistent ==
    ASSUME Folder \notin Keys
    PROVE  Spec => []FileInv
<1>1. Init => FileInv
  BY InitHolds
<1>2. FileInv /\ [Next]_vars => FileInv'
  BY NextKeeps
<1> QED BY <1>1, <1>2, PTL DEF Spec

(* However a call ends, it leaves neither its lock nor its staged file     *)
(* (the defers of filestorage.go's Put and Delete).                        *)
THEOREM CallsCleanUp ==
    ASSUME Folder \notin Keys
    PROVE  Spec => []NothingLeftBehind
<1>1. FileInv => NothingLeftBehind
  BY DEF FileInv
<1> QED BY <1>1, FilesStayConsistent, PTL

(* cleanupEmptyDirs never removes a directory that a Put is about to use   *)
(* or that holds an object.                                                *)
THEOREM FolderStays ==
    ASSUME Folder \notin Keys
    PROVE  Spec => []FolderHoldsItsFiles
<1>1. FileInv => FolderHoldsItsFiles
  BY DEF FileInv
<1> QED BY <1>1, FilesStayConsistent, PTL

-------------------------------------------------------------------------------
(* The refinement. A step changes what the register shows of one client.   *)

LEMMA FinishReturns ==
    ASSUME FileInv, NEW c \in Clients, NEW r \in Ends,
           pc[c] \notin Over, Finish(c, r), UNCHANGED node
    PROVE  /\ Objects' = Objects
           /\ Asked' = [Asked EXCEPT ![c] = None]
           /\ Status' = [Status EXCEPT ![c] = r]
BY DEF FileInv, TypeOK, Objects, Asked, Status, Over, Finish, GoOn, Leave, Goto

\* A step on the way from the beginning of a call to its effect, or after.
LEMMA Unseen ==
    ASSUME TypeOK, NEW c \in Clients, NEW s \in Steps,
           \/ pc[c] \in {"mkdir", "stage", "lock"}
              /\ s \in {"stage", "lock", "publish", "remove"}
           \/ pc[c] = "unlink" /\ s = "syncPut",
           GoOn(c, s), UNCHANGED result
    PROVE  Asked' = Asked /\ Status' = Status
BY DEF TypeOK, Asked, Status, Over, GoOn, Goto

\* A step after the result of a call is known.
LEMMA UnseenWhenOver ==
    ASSUME TypeOK, NEW c \in Clients, pc[c] \in Over, pc'[c] \in Over,
           pc' = [pc EXCEPT ![c] = pc'[c]], UNCHANGED result,
           \A e \in Clients \ {c} : request'[e] = request[e]
    PROVE  Asked' = Asked /\ Status' = Status
BY DEF TypeOK, Asked, Status, Over

\* The register's conditions are those of the files.
LEMMA SameConditions ==
    ASSUME NEW held, NEW condition
    PROVE  /\ Abstract!PutAllowed(held, condition) <=> PutAllowed(held, condition)
           /\ Abstract!DeleteAllowed(held, condition) <=> DeleteAllowed(held, condition)
BY DEF PutAllowed, DeleteAllowed, Named, Abstract!PutAllowed, Abstract!DeleteAllowed,
       Abstract!Named

LEMMA Pending ==
    ASSUME FileInv, NEW c \in Clients,
           pc[c] \in {"mkdir", "stage", "lock", "publish", "remove"}
    PROVE  /\ Status[c] = "pending" /\ Asked[c] = request[c]
           /\ Objects[Key(c)] = node[Key(c)]
BY Asking DEF FileInv, ObjectsAreFiles, Status, Asked, Objects, Over

LEMMA Applied ==
    ASSUME NEW c \in Clients, pc[c] \in {"unlink", "syncPut", "syncRemoved"}
    PROVE  Status[c] = "applied"
BY DEF Status, Over

\* An end with an error is one in the register as well.
LEMMA FailureFails ==
    ASSUME FileInv, NEW c \in Clients,
           pc[c] \notin Over, Finish(c, "failed"), UNCHANGED <<node, seen>>
    PROVE  Abstract!Fail(c)
<1>1. Status[c] \in {"pending", "applied"}
  BY DEF Status, Over
<1> QED
  BY <1>1, FinishReturns DEF Ends, Abstract!Fail, Abstract!Return, Abstract!Become

LEMMA BeginBegins ==
    ASSUME FileInv, NEW c \in Clients, Begin(c)
    PROVE  Abstract!Begin(c)
<1>1. Status[c] \in Abstract!Finished
  BY DEF Begin, At, FileInv, TypeOK, StepFacts, Status, Over, Abstract!Finished
<1>2. PICK r \in Requests :
          /\ request' = [request EXCEPT ![c] = r]
          /\ Goto(c, IF r.kind = "Put" THEN "mkdir" ELSE "lock")
  BY DEF Begin
<1>3. Asked' = [Asked EXCEPT ![c] = r] /\ Status' = [Status EXCEPT ![c] = "pending"]
  BY <1>2 DEF Begin, Goto, FileInv, TypeOK, Asked, Status, Over
<1>4. Objects' = Objects
  BY DEF Begin, Objects
<1> QED BY <1>1, <1>3, <1>4 DEF Begin, Abstract!Begin, Abstract!Become

LEMMA ReadReads ==
    ASSUME FileInv, NEW c \in Clients, Read(c)
    PROVE  Abstract!Read(c) \/ Abstract!Refuse(c) \/ Abstract!Fail(c)
<1>1. /\ pc[c] = "lock" /\ pc[c] \notin Over /\ request[c].kind = "Get"
      /\ UNCHANGED node
  BY DEF Read, At, Over, Is
<1>2. Status[c] = "pending" /\ Asked[c] = request[c] /\ Objects[Key(c)] = node[Key(c)]
  BY <1>1, Pending
<1>3. CASE Readable(c) /\ node[Key(c)] # None
  BY <1>1, <1>2, <1>3, FinishReturns
     DEF Read, Ends, Key, Abstract!Read, Abstract!Is, Abstract!Current, Abstract!Return, Abstract!Become
<1>4. CASE Readable(c) /\ node[Key(c)] = None
  BY <1>1, <1>2, <1>4, FinishReturns
     DEF Read, Ends, Key, Abstract!Refuse, Abstract!Is, Abstract!Current, Abstract!Return, Abstract!Become
<1>5. CASE ~Readable(c)
  BY <1>1, <1>5, FailureFails DEF Read
<1> QED BY <1>3, <1>4, <1>5

LEMMA CheckRefuses ==
    ASSUME FileInv, NEW c \in Clients, pc[c] = "lock",
           \/ Is(c, "Put") /\ ~PutAllowed(node[Key(c)], request[c].condition)
           \/ /\ Is(c, "Delete")
              /\ node[Key(c)] = None \/ ~DeleteAllowed(node[Key(c)], request[c].condition),
           Finish(c, "refused"), UNCHANGED <<node, seen>>
    PROVE  Abstract!Refuse(c)
BY Pending, SameConditions, FinishReturns
   DEF Over, Ends, Is, Key, Abstract!Refuse, Abstract!Is, Abstract!Current,
       Abstract!Return, Abstract!Become

\* Publication and removal are the moments at which a call takes effect.
LEMMA PublishPuts ==
    ASSUME FileInv, NEW c \in Clients, Publish(c)
    PROVE  Abstract!Put(c)
<1>1. /\ pc[c] = "publish" /\ request[c].kind = "Put"
      /\ PutAllowed(node[Key(c)], request[c].condition)
      /\ Key(c) \in Keys /\ request[c].etag \in ETags /\ node[Key(c)] # Directory
  BY Asking DEF Publish, At, FileInv, StepFacts, Is, ObjectsAreFiles
<1>2. Linked(c) => node[Key(c)] = None
  BY <1>1 DEF Linked, PutAllowed
<1>3. /\ node' = [node EXCEPT ![Key(c)] = request[c].etag]
      /\ GoOn(c, IF Linked(c) THEN "unlink" ELSE "syncPut")
      /\ UNCHANGED <<result, seen>>
  BY <1>1, <1>2 DEF Publish
<1>4. Objects' = [Objects EXCEPT ![Key(c)] = request[c].etag]
  BY <1>1, <1>3, FileAssumption DEF Objects, FileInv, TypeOK, Paths
<1>5. Asked' = Asked /\ Status' = [Status EXCEPT ![c] = "applied"]
  BY <1>1, <1>3 DEF FileInv, TypeOK, GoOn, Goto, Asked, Status, Over
<1> QED
  BY <1>1, <1>3, <1>4, <1>5, Pending, SameConditions
     DEF Key, Abstract!Put, Abstract!Set, Abstract!Is, Abstract!Current, Abstract!Become

LEMMA RemoveDeletes ==
    ASSUME FileInv, NEW c \in Clients, Remove(c)
    PROVE  Abstract!Delete(c)
<1>1. /\ pc[c] = "remove" /\ request[c].kind = "Delete"
      /\ DeleteAllowed(node[Key(c)], request[c].condition)
      /\ Key(c) \in Keys /\ node[Key(c)] \notin {None, Directory}
  BY Asking DEF Remove, At, FileInv, StepFacts, Is, ObjectsAreFiles
<1>2. node' = [node EXCEPT ![Key(c)] = None] /\ GoOn(c, "syncRemoved")
      /\ UNCHANGED <<result, seen>>
  BY <1>1 DEF Remove, Removable, OsRemove
<1>3. Objects' = [Objects EXCEPT ![Key(c)] = None]
  BY <1>1, <1>2, FileAssumption DEF Objects, FileInv, TypeOK, Paths
<1>4. Asked' = Asked /\ Status' = [Status EXCEPT ![c] = "applied"]
  BY <1>1, <1>2 DEF FileInv, TypeOK, GoOn, Goto, Asked, Status, Over
<1> QED
  BY <1>1, <1>2, <1>3, <1>4, Pending, SameConditions
     DEF Key, Abstract!Delete, Abstract!Set, Abstract!Is, Abstract!Current, Abstract!Become

LEMMA SyncSucceeds ==
    ASSUME FileInv, NEW c \in Clients, SyncPut(c) \/ SyncRemoved(c)
    PROVE  Abstract!Succeed(c) \/ Abstract!Fail(c)
<1>1. CASE SyncPut(c)
  <2>1. pc[c] = "syncPut" /\ pc[c] \notin Over /\ node[Key(c)] # None
    BY <1>1, Asking, FileAssumption, ConditionAssumption DEF SyncPut, At, Over, FileInv, StepFacts
  <2> QED
    BY <1>1, <2>1, Applied, FinishReturns
       DEF SyncPut, Ends, Abstract!Succeed, Abstract!Return, Abstract!Become
<1>2. CASE SyncRemoved(c)
  <2>1. pc[c] = "syncRemoved" /\ pc[c] \notin Over
    BY <1>2 DEF SyncRemoved, At, Over
  <2>2. CASE Finish(c, "failed")
    BY <1>2, <2>1, <2>2, FailureFails DEF SyncRemoved
  <2>3. CASE ~Finish(c, "failed")
    <3>1. /\ pc' = [pc EXCEPT ![c] = IF InFolder(c) THEN "scan" ELSE "idle"]
          /\ result' = [result EXCEPT ![c] = "ok"]
          /\ \A e \in Clients \ {c} : request'[e] = request[e]
          /\ UNCHANGED <<node, seen>>
      BY <1>2, <2>3 DEF SyncRemoved, GoOn, Leave, Goto, FileInv, TypeOK
    <3>2. Objects' = Objects
      BY <3>1 DEF Objects
    <3>3. Asked' = [Asked EXCEPT ![c] = None] /\ Status' = [Status EXCEPT ![c] = "ok"]
      BY <3>1 DEF FileInv, TypeOK, Asked, Status, Over
    <3> QED
      BY <2>1, <3>1, <3>2, <3>3, Applied
         DEF Abstract!Succeed, Abstract!Return, Abstract!Become
  <2> QED BY <2>2, <2>3
<1> QED BY <1>1, <1>2

LEMMA StepImplements ==
    ASSUME Folder \notin Keys, FileInv, [Next]_vars
    PROVE  [Abstract!Next]_(Abstract!vars)
<1> USE DEF Abstract!vars
<1>1. CASE Next
  <2> PICK c \in Clients : Begin(c) \/ GiveUp(c) \/ Read(c) \/ Put(c) \/ Delete(c)
                           \/ CallFails(c) \/ Crash(c)
    BY <1>1 DEF Next
  <2>a. TypeOK /\ StepFacts /\ ObjectsAreFiles
    BY DEF FileInv
  <2>b. ASSUME UNCHANGED <<node, seen>>, Asked' = Asked /\ Status' = Status
        PROVE  UNCHANGED Abstract!vars
    BY <2>b DEF Objects
  <2>1. CASE Begin(c)
    BY <2>1, BeginBegins DEF Abstract!Next
  <2>2. CASE GiveUp(c)
    BY <2>2, FailureFails DEF GiveUp, At, Over, Abstract!Next
  <2>3. CASE Read(c)
    BY <2>3, ReadReads DEF Abstract!Next
  <2>4. CASE MakeFolder(c)
    <3>1. CASE Finish(c, "failed") /\ UNCHANGED node
      BY <2>4, <3>1, FailureFails DEF MakeFolder, At, Over, Abstract!Next
    <3>2. CASE GoOn(c, "stage") /\ UNCHANGED result
      <4>1. Asked' = Asked /\ Status' = Status
        BY <2>a, <2>4, <3>2, Unseen DEF MakeFolder, At, Steps
      <4>2. Objects' = Objects
        BY <2>4, <2>a DEF MakeFolder, Objects, TypeOK, Paths
      <4> QED BY <2>4, <4>1, <4>2 DEF MakeFolder
    <3> QED BY <2>4, <3>1, <3>2 DEF MakeFolder
  <2>5. CASE Stage(c)
    <3>1. CASE Finish(c, "failed")
      BY <2>5, <3>1, FailureFails DEF Stage, At, Over, Abstract!Next
    <3>2. CASE GoOn(c, "lock") /\ UNCHANGED result
      BY <2>a, <2>b, <2>5, <3>2, Unseen DEF Stage, At, Steps
    <3> QED BY <2>5, <3>1, <3>2 DEF Stage
  <2>6. CASE CheckPut(c)
    <3>1. CASE Finish(c, "failed")
      BY <2>6, <3>1, FailureFails DEF CheckPut, At, Over, Abstract!Next
    <3>2. CASE Finish(c, "refused") /\ ~PutAllowed(node[Key(c)], request[c].condition)
      BY <2>6, <3>2, CheckRefuses DEF CheckPut, At, Abstract!Next
    <3>3. CASE GoOn(c, "publish") /\ UNCHANGED result
      BY <2>a, <2>b, <2>6, <3>3, Unseen DEF CheckPut, At, Steps, Critical
    <3> QED BY <2>6, <3>1, <3>2, <3>3 DEF CheckPut
  <2>7. CASE CheckDelete(c)
    <3>1. CASE Finish(c, "failed")
      BY <2>7, <3>1, FailureFails DEF CheckDelete, At, Over, Abstract!Next
    <3>2. CASE /\ Finish(c, "refused")
               /\ \/ node[Key(c)] = None
                  \/ ~DeleteAllowed(node[Key(c)], request[c].condition)
      BY <2>7, <3>2, CheckRefuses DEF CheckDelete, At, Abstract!Next
    <3>3. CASE GoOn(c, "remove") /\ UNCHANGED result
      BY <2>a, <2>b, <2>7, <3>3, Unseen DEF CheckDelete, At, Steps, Critical
    <3> QED BY <2>7, <3>1, <3>2, <3>3 DEF CheckDelete
  <2>8. CASE Publish(c)
    BY <2>8, PublishPuts DEF Abstract!Next
  <2>9. CASE Remove(c)
    BY <2>9, RemoveDeletes DEF Abstract!Next
  <2>10. CASE SyncPut(c) \/ SyncRemoved(c)
    BY <2>10, SyncSucceeds DEF Abstract!Next
  <2>11. CASE Unlink(c)
    BY <2>a, <2>b, <2>11, Unseen DEF Unlink, At, Steps, Critical
  <2>12. CASE Discard(c) \/ Scan(c) \/ Prune(c)
    <3>1. Asked' = Asked /\ Status' = Status
      BY <2>a, <2>12, UnseenWhenOver
         DEF Discard, Scan, Prune, At, GoOn, Leave, Goto, Over, TypeOK
    <3>2. Objects' = Objects
      BY <2>a, <2>12 DEF Discard, Scan, Prune, OsRemove, Objects, TypeOK, Paths
    <3> QED BY <2>12, <3>1, <3>2 DEF Discard, Scan, Prune
  <2>13. CASE CallFails(c)
    BY <2>13, FailureFails DEF CallFails, Critical, Over, Abstract!Next
  <2>14. CASE Crash(c)
    <3>1. CASE pc[c] \in Over
      <4>1. Asked' = Asked /\ Status' = Status
        BY <2>a, <2>14, <3>1, UnseenWhenOver DEF Crash, At, Leave, Goto, Over, TypeOK
      <4> QED BY <2>14, <2>b, <4>1 DEF Crash
    <3>2. CASE pc[c] \notin Over
      <4>1. Asked' = [Asked EXCEPT ![c] = None] /\ Status' = [Status EXCEPT ![c] = "failed"]
        BY <2>a, <2>14, <3>2 DEF Crash, Leave, Goto, TypeOK, Asked, Status, Over
      <4>2. Status[c] \in {"pending", "applied"}
        BY <3>2 DEF Status
      <4>3. Abstract!Fail(c)
        BY <2>14, <4>1, <4>2
           DEF Crash, Objects, Abstract!Fail, Abstract!Return, Abstract!Become
      <4> QED BY <4>3 DEF Abstract!Next
    <3> QED BY <3>1, <3>2
  <2> QED
    BY <2>1, <2>2, <2>3, <2>4, <2>5, <2>6, <2>7, <2>8, <2>9, <2>10, <2>11, <2>12, <2>13,
       <2>14 DEF Put, Delete
<1>2. CASE UNCHANGED vars
  BY <1>2 DEF vars, locals, Objects, Asked, Status
<1> QED BY <1>1, <1>2

(* FileStorage is a linearizable conditional register for each key, for    *)
(* any number of processes, keys, faults and crashes (README.md:113-117),  *)
(* provided that no key is the path of the directory of another.           *)
THEOREM FilesAreRegisters ==
    ASSUME Folder \notin Keys
    PROVE  Spec => Linearizable
<1>1. Init => Abstract!Init
  BY FileAssumption DEF Init, Abstract!Init, Objects, Asked, Status, Over, Paths
<1>2. FileInv /\ [Next]_vars => [Abstract!Next]_(Abstract!vars)
  BY StepImplements
<1> QED
  BY <1>1, <1>2, FilesStayConsistent, PTL DEF Spec, Linearizable, Abstract!Spec
===============================================================================
