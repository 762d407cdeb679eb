----------------------------- MODULE FileStorage ------------------------------
(***************************************************************************)
(* FileStorage of store/filestorage.go: processes that share a directory   *)
(* tree, with a flock per key, staged files, publication by hard link or   *)
(* rename, and the removal of empty directories, which no lock covers. A   *)
(* system call that another process can tell from the next is one action.  *)
(*                                                                         *)
(* The tree is the directory of a bucket, which other objects keep from    *)
(* being empty, and in it Folder, the parent directory of the keys Inside. *)
(* The path of Folder may itself be a key. A file is never changed in      *)
(* place, so a read is one action, and its shared lock only means that no  *)
(* process holds the key exclusively. Conditions on reads, ContentType,    *)
(* modification times, List and the loss of unsynchronized data in a power *)
(* failure are left out.                                                   *)
(***************************************************************************)
EXTENDS Conditions, Naturals

CONSTANTS
    Clients,      \* processes, each with one call at a time
    Keys,
    Folder,       \* the path of the directory
    Inside,       \* the keys whose files are in it
    Requests,     \* the calls a client may make
    Directory,    \* what the path of a directory holds
    MaxFaults     \* how many system calls fail and processes die

ASSUME FileAssumption ==
    /\ Inside \subseteq Keys /\ Folder \notin Inside
    /\ Directory \notin ETags /\ Directory # None
    /\ None \notin Clients /\ None \notin Requests
    /\ MaxFaults \in Nat
    /\ Requests \subseteq [kind : {"Get", "Put", "Delete"}, key : Keys,
                           etag : ETags, condition : Conditions]

VARIABLES
    node,         \* what is at each path
    staged,       \* whether a client's staged file exists
    litter,       \* keys with staged files of dead processes beside them
    lock,         \* the client that holds a key's lock file exclusively
    pc, request,  \* where a client's call is, and what it asks for
    result,       \* what its last call returned
    seen,         \* the object, if that was a read
    faults

locals == <<pc, request, result>>
vars == <<node, staged, litter, lock, locals, seen, faults>>

Paths == Keys \cup {Folder}
Critical == {"publish", "unlink", "syncPut", "remove", "syncRemoved"}
Steps == Critical \cup
    {"idle", "mkdir", "stage", "lock", "discard", "scan", "prune"}

Init ==
    /\ node = [p \in Paths |-> None]
    /\ staged = [c \in Clients |-> FALSE]
    /\ litter = {}
    /\ lock = [k \in Keys |-> None]
    /\ pc = [c \in Clients |-> "idle"]
    /\ request = [c \in Clients |-> None]
    /\ result = [c \in Clients |-> "ok"]
    /\ seen = [c \in Clients |-> None]
    /\ faults = 0

At(c, s) == pc[c] = s
Goto(c, s) == pc' = [pc EXCEPT ![c] = s]
\* The call goes on at s, or is over.
GoOn(c, s) == Goto(c, s) /\ UNCHANGED request
Leave(c) == Goto(c, "idle") /\ request' = [request EXCEPT ![c] = None]
Is(c, kind) == request[c].kind = kind
Key(c) == request[c].key
InFolder(c) == Key(c) \in Inside

\* os.Open fails on a directory only when it is read, and with another error
\* than "not found" if what should be the parent directory is a file.
Readable(c) ==
    /\ node[Key(c)] # Directory
    /\ InFolder(c) => node[Folder] \notin ETags

\* An entry of Folder: an object, a staged file, or one left by a crash.
FolderInUse ==
    \/ \E k \in Inside : node[k] # None \/ k \in litter
    \/ \E c \in Clients : staged[c] /\ InFolder(c)

\* os.Remove deletes a file or an empty directory.
OsRemove(p) == node' = [node EXCEPT ![p] = None]
Removable(p) ==
    /\ node[p] # None
    /\ node[p] = Directory => p = Folder /\ ~FolderInUse

Unlocked(c) == [k \in Keys |-> IF lock[k] = c THEN None ELSE lock[k]]

FinishEarly(c, r) ==  \* faulty: returns without the deferred clean-up
    /\ Leave(c)
    /\ result' = [result EXCEPT ![c] = r]
    /\ UNCHANGED <<staged, litter, lock>>

\* The call returns r; the lock is released, and if there is a staged file, it
\* is removed after that.
Finish(c, r) ==
    /\ IF staged[c] THEN GoOn(c, "discard") ELSE Leave(c)
    /\ result' = [result EXCEPT ![c] = r]
    /\ lock' = Unlocked(c)
    /\ UNCHANGED <<staged, litter>>

Faulty == faults < MaxFaults /\ faults' = faults + 1

-------------------------------------------------------------------------------
\* Get, GetStream, Head, Put, PutStream or Delete is called.
Begin(c) ==
    /\ At(c, "idle")
    /\ \E r \in Requests :
           /\ request' = [request EXCEPT ![c] = r]
           /\ Goto(c, IF r.kind = "Put" THEN "mkdir" ELSE "lock")
    /\ result' = [result EXCEPT ![c] = "none"]
    /\ seen' = [seen EXCEPT ![c] = None]
    /\ UNCHANGED <<node, staged, litter, lock, faults>>

\* A call waits for a lock in a loop that ends with its context.
GiveUp(c) ==
    /\ At(c, "lock") /\ lock[Key(c)] # None
    /\ Finish(c, "failed")
    /\ UNCHANGED <<node, seen, faults>>

-------------------------------------------------------------------------------
Read(c) ==
    /\ At(c, "lock") /\ Is(c, "Get") /\ lock[Key(c)] = None
    /\ \/ /\ Readable(c) /\ node[Key(c)] # None
          /\ seen' = [seen EXCEPT ![c] = node[Key(c)]]
          /\ Finish(c, "ok")
       \/ /\ Readable(c) /\ node[Key(c)] = None
          /\ Finish(c, "refused")
          /\ UNCHANGED seen
       \/ ~Readable(c) /\ Finish(c, "failed") /\ UNCHANGED seen
    /\ UNCHANGED <<node, faults>>

-------------------------------------------------------------------------------
\* putReader: os.MkdirAll.
MakeFolder(c) ==
    /\ At(c, "mkdir")
    /\ \/ /\ InFolder(c) => node[Folder] \notin ETags
          /\ node' = IF InFolder(c) THEN [node EXCEPT ![Folder] = Directory] ELSE node
          /\ GoOn(c, "stage")
          /\ UNCHANGED <<staged, litter, lock, result>>
       \/ /\ InFolder(c) /\ node[Folder] \in ETags
          /\ Finish(c, "failed")
          /\ UNCHANGED node
    /\ UNCHANGED <<seen, faults>>

\* The staged file is created, written and synchronized.
Stage(c) ==
    /\ At(c, "stage")
    /\ \/ /\ InFolder(c) => node[Folder] = Directory
          /\ staged' = [staged EXCEPT ![c] = TRUE]
          /\ GoOn(c, "lock")
          /\ UNCHANGED <<litter, lock, result>>
       \/ /\ InFolder(c) /\ node[Folder] # Directory
          /\ Finish(c, "failed")
    /\ UNCHANGED <<node, seen, faults>>

CheckPutUnlocked(c) ==  \* faulty: checks the condition before it has the lock
    /\ At(c, "lock") /\ Is(c, "Put") /\ Readable(c)
    /\ PutAllowed(node[Key(c)], request[c].condition)
    /\ lock' = IF lock[Key(c)] = None THEN [lock EXCEPT ![Key(c)] = c] ELSE lock
    /\ GoOn(c, "publish")
    /\ UNCHANGED <<node, staged, litter, result, seen, faults>>

\* With the lock, what the key holds is read and the condition applied.
CheckPut(c) ==
    /\ At(c, "lock") /\ Is(c, "Put") /\ lock[Key(c)] = None
    /\ \/ /\ Readable(c) /\ PutAllowed(node[Key(c)], request[c].condition)
          /\ lock' = [lock EXCEPT ![Key(c)] = c]
          /\ GoOn(c, "publish")
          /\ UNCHANGED <<staged, litter, result>>
       \/ /\ Readable(c) /\ ~PutAllowed(node[Key(c)], request[c].condition)
          /\ Finish(c, "refused")
       \/ ~Readable(c) /\ Finish(c, "failed")
    /\ UNCHANGED <<node, seen, faults>>

Linked(c) == request[c].condition.noMatch = Star

\* os.Link for a create, which keeps the staged name; os.Rename otherwise.
Publish(c) ==
    /\ At(c, "publish")
    /\ \/ /\ Linked(c) /\ node[Key(c)] = None
          /\ node' = [node EXCEPT ![Key(c)] = request[c].etag]
          /\ GoOn(c, "unlink")
          /\ UNCHANGED <<staged, litter, lock, result>>
       \/ /\ ~Linked(c) /\ node[Key(c)] # Directory
          /\ node' = [node EXCEPT ![Key(c)] = request[c].etag]
          /\ staged' = [staged EXCEPT ![c] = FALSE]
          /\ GoOn(c, "syncPut")
          /\ UNCHANGED <<litter, lock, result>>
       \/ /\ Linked(c) /\ node[Key(c)] # None
          /\ Finish(c, "refused")
          /\ UNCHANGED node
       \/ /\ ~Linked(c) /\ node[Key(c)] = Directory
          /\ Finish(c, "failed")
          /\ UNCHANGED node
    /\ UNCHANGED <<seen, faults>>

Unlink(c) ==
    /\ At(c, "unlink")
    /\ staged' = [staged EXCEPT ![c] = FALSE]
    /\ GoOn(c, "syncPut")
    /\ UNCHANGED <<node, litter, lock, result, seen, faults>>

\* syncDirectory, then os.Stat of the published file.
SyncPut(c) ==
    /\ At(c, "syncPut")
    /\ Finish(c, IF node[Key(c)] = None THEN "failed" ELSE "ok")
    /\ UNCHANGED <<node, seen, faults>>

\* The deferred removal of a staged file that was not published.
Discard(c) ==
    /\ At(c, "discard")
    /\ staged' = [staged EXCEPT ![c] = FALSE]
    /\ Leave(c)
    /\ UNCHANGED <<node, litter, lock, result, seen, faults>>

-------------------------------------------------------------------------------
CheckDeleteShared(c) ==  \* faulty: takes its flock in shared mode
    /\ At(c, "lock") /\ Is(c, "Delete") /\ Readable(c)
    /\ node[Key(c)] # None
    /\ DeleteAllowed(node[Key(c)], request[c].condition)
    /\ GoOn(c, "remove")
    /\ UNCHANGED <<node, staged, litter, lock, result, seen, faults>>

CheckDelete(c) ==
    /\ At(c, "lock") /\ Is(c, "Delete") /\ lock[Key(c)] = None
    /\ LET allowed == /\ node[Key(c)] # None
                      /\ DeleteAllowed(node[Key(c)], request[c].condition)
       IN  \/ /\ Readable(c) /\ allowed
              /\ lock' = [lock EXCEPT ![Key(c)] = c]
              /\ GoOn(c, "remove")
              /\ UNCHANGED <<staged, litter, result>>
           \/ Readable(c) /\ ~allowed /\ Finish(c, "refused")
           \/ ~Readable(c) /\ Finish(c, "failed")
    /\ UNCHANGED <<node, seen, faults>>

Remove(c) ==
    /\ At(c, "remove")
    /\ \/ /\ Removable(Key(c))
          /\ OsRemove(Key(c))
          /\ GoOn(c, "syncRemoved")
          /\ UNCHANGED <<staged, litter, lock, result>>
       \/ ~Removable(Key(c)) /\ Finish(c, "failed") /\ UNCHANGED node
    /\ UNCHANGED <<seen, faults>>

\* syncDirectory opens the directory, which another Delete may have removed as
\* empty by then. Only after success is the lock released and the clean-up
\* begun; that of the bucket's directory finds it in use.
SyncRemoved(c) ==
    /\ At(c, "syncRemoved")
    /\ \/ InFolder(c) /\ node[Folder] = None /\ Finish(c, "failed")
       \/ /\ InFolder(c) => node[Folder] # None
          /\ IF InFolder(c) THEN GoOn(c, "scan") ELSE Leave(c)
          /\ result' = [result EXCEPT ![c] = "ok"]
          /\ lock' = Unlocked(c)
          /\ UNCHANGED <<staged, litter>>
    /\ UNCHANGED <<node, seen, faults>>

\* cleanupEmptyDirs: os.ReadDir.
Scan(c) ==
    /\ At(c, "scan")
    /\ IF node[Folder] = Directory /\ ~FolderInUse THEN GoOn(c, "prune") ELSE Leave(c)
    /\ UNCHANGED <<node, staged, litter, lock, result, seen, faults>>

PruneAll(c) ==  \* faulty: os.RemoveAll
    /\ At(c, "prune")
    /\ OsRemove(Folder)
    /\ Leave(c)
    /\ UNCHANGED <<staged, litter, lock, result, seen, faults>>

\* cleanupEmptyDirs: os.Remove of a path that was an empty directory.
Prune(c) ==
    /\ At(c, "prune")
    /\ IF Removable(Folder) THEN OsRemove(Folder) ELSE UNCHANGED node
    /\ Leave(c)
    /\ UNCHANGED <<staged, litter, lock, result, seen, faults>>

-------------------------------------------------------------------------------
\* A system call of the current step fails without effect.
CallFails(c) ==
    /\ Faulty
    /\ pc[c] \in Critical \cup {"mkdir", "stage", "lock"}
    /\ Finish(c, "failed")
    /\ UNCHANGED <<node, seen>>

\* The process dies: the kernel drops its locks, its staged file stays.
Crash(c) ==
    /\ Faulty
    /\ ~At(c, "idle")
    /\ litter' = IF staged[c] THEN litter \cup {Key(c)} ELSE litter
    /\ staged' = [staged EXCEPT ![c] = FALSE]
    /\ lock' = Unlocked(c)
    /\ Leave(c)
    /\ result' = IF pc[c] \in {"discard", "scan", "prune"}
                 THEN result ELSE [result EXCEPT ![c] = "failed"]
    /\ UNCHANGED <<node, seen>>

Put(c) == MakeFolder(c) \/ Stage(c) \/ CheckPut(c) \/ Publish(c) \/ Unlink(c)
          \/ SyncPut(c) \/ Discard(c)
Delete(c) == CheckDelete(c) \/ Remove(c) \/ SyncRemoved(c) \/ Scan(c) \/ Prune(c)
Next ==
    \E c \in Clients :
        \/ Begin(c) \/ GiveUp(c) \/ Read(c) \/ Put(c) \/ Delete(c)
        \/ CallFails(c) \/ Crash(c)

Spec == Init /\ [][Next]_vars
===============================================================================
