---------------------------- MODULE FileRefinement ----------------------------
(***************************************************************************)
(* The properties of FileStorage: the invariant from which they follow and *)
(* the conditional register it implements.                                 *)
(***************************************************************************)
EXTENDS FileStorage

\* A call at one of these has its result.
Over == {"idle", "discard", "scan", "prune"}

TypeOK ==
    /\ node \in [Paths -> ETags \cup {None, Directory}]
    /\ staged \in [Clients -> BOOLEAN]
    /\ litter \subseteq Keys
    /\ lock \in [Keys -> Clients \cup {None}]
    /\ pc \in [Clients -> Steps]
    /\ request \in [Clients -> Requests \cup {None}]
    /\ result \in [Clients -> {"none", "ok", "refused", "failed"}]
    /\ seen \in [Clients -> ETags \cup {None}]
    /\ faults \in 0..MaxFaults

(* A path is locked by the client that is between the check of a condition *)
(* and the end of its call, and by nobody else.                            *)
LockedWhileCritical ==
    \A c \in Clients, k \in Keys :
        lock[k] = c <=> pc[c] \in Critical /\ Key(c) = k

(* However a call ends, by an error of any system call, a refusal or a     *)
(* timeout included, it leaves neither its lock nor its staged file.       *)
NothingLeftBehind ==
    \A c \in Clients :
        At(c, "idle") => ~staged[c] /\ \A k \in Keys : lock[k] # c

(* A directory in which there is an object or a staged file is not removed *)
(* by a Delete next to them: neither MkdirAll, CreateTemp, publication nor *)
(* cleanupEmptyDirs holds a lock that the others know.                     *)
FolderHoldsItsFiles == FolderInUse => node[Folder] = Directory

\* Where the staged file of a call is, or has gone.
StagedWhilePutting ==
    \A c \in Clients :
        /\ pc[c] \in {"publish", "unlink"} => staged[c]
        /\ At(c, "lock") /\ Is(c, "Put") => staged[c]
        /\ staged[c] => /\ pc[c] \in {"lock", "publish", "unlink", "discard"}
                        /\ Is(c, "Put")

StepFacts ==
    \A c \in Clients :
        /\ request[c] = None <=> At(c, "idle")
        /\ pc[c] \in Over => result[c] # "none"
        /\ pc[c] \in {"scan", "prune"} => InFolder(c)
        /\ pc[c] \in {"publish", "unlink", "syncPut", "mkdir", "stage"} => Is(c, "Put")
        /\ pc[c] \in {"remove", "syncRemoved"} => Is(c, "Delete")
        /\ At(c, "publish") => PutAllowed(node[Key(c)], request[c].condition)
        /\ At(c, "remove") =>
               /\ node[Key(c)] # None
               /\ DeleteAllowed(node[Key(c)], request[c].condition)
        /\ pc[c] \in {"unlink", "syncPut"} => node[Key(c)] = request[c].etag

ObjectsAreFiles == \A k \in Keys : node[k] # Directory

(* If no key is the path of the directory of another, a call in its        *)
(* critical section finds what its condition was checked against.          *)
FileInv ==
    /\ TypeOK /\ LockedWhileCritical /\ NothingLeftBehind /\ StagedWhilePutting
    /\ FolderHoldsItsFiles /\ StepFacts /\ ObjectsAreFiles

-------------------------------------------------------------------------------
Objects == [k \in Keys |-> IF node[k] = Directory THEN None ELSE node[k]]
Asked == [c \in Clients |-> IF pc[c] \in Over THEN None ELSE request[c]]
Status == [c \in Clients |->
             IF pc[c] \in Over THEN result[c]
             ELSE IF pc[c] \in {"unlink", "syncPut", "syncRemoved"}
                  THEN "applied" ELSE "pending"]

Abstract == INSTANCE Register WITH value <- Objects, request <- Asked, status <- Status

(* Reads, conditional writes and deletes of any processes are those of a   *)
(* register per key, crashes, failing calls, staging and the removal of    *)
(* directories included ("linearizable", README.md:113-117).               *)
Linearizable == Abstract!Spec

(* What an object's path holds changes only under the lock of its key      *)
(* (filestorage.go:61: "serializes conditional operations through per-key  *)
(* cross-process advisory locks").                                         *)
SerializedByLocks ==
    [][\A k \in Keys :
           node'[k] # node[k] /\ (node[k] \in ETags \/ node'[k] \in ETags)
               => lock[k] # None]_vars
===============================================================================
