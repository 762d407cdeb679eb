# A TLA+ model of atomicstore

This directory specifies the parts of the repository in which order, time and
failure matter: the distributed lease lock and `WithLock` (`store/lock.go`), the
storage transaction and its coordinator (`store/transaction.go`), the optimistic
`Object` (`store/object.go`), the atomic update command (`store/commands.go`),
the file backend (`store/filestorage.go`), `List` on all three backends, and the
conditional requests on which all of them rest. TLC checks the specifications on
small instances; TLAPS proves the safety properties of all of them for every
instance.

Run a model with `tlc -config <name>.cfg <module>` (the pairs are in section 3)
and a proof with `tlapm <module>.tla`, for the modules `LockerProofs`,
`LockerExclusion`, `HeldLockProofs`, `FileProofs`, `ObjectsProofs`,
`TransactionProofs`, `CoordinatorProofs` and `ListingProofs`.

## 1. The system

| Component | State | Operations | Talks to |
| --- | --- | --- | --- |
| `Locker` (`lock.go`) | the observation map (key to ETag and first-seen time) under `observeMu`; the lease document lives in storage; the handle in the caller | `TryAcquire`, `Acquire`, `Renew`, `Release`, `IsHeld`, `WithLock` with its renewal goroutine | a `Store[LockLease]`; the wall clock; other processes only through the stored document |
| `Store` (`store.go`) | none | `Get`, `Put`, `Create`, `Delete`, `Head`, `List`, `GetMany` | a `Storage` through the retrier and a codec |
| Retrier (`retry.go`) | none between calls | `Do`: first try and up to three more with backoff | the operation it repeats |
| Conditions (`helpers.go`, `options.go`) | none | `ApplyConditionalGet/Put/Delete` | called by the in-memory and file backends and by the transaction |
| `MockStorage` | a map under one mutex; injected failures | single-key operations, `List`, `ApplyAtomicBatch` | - |
| `FileStorage` | directories, object files, staged files, one lock file per key | single-key operations under `flock`; publication by hard link or rename; `List` walks the tree | the file system; other processes |
| `S3Storage` | none | one SDK request per call, several for `List` | S3 |
| `StorageTransaction` (`transaction.go`) | state, staged operations and their order, cached reads, under one `RWMutex` | `Get`, `Head`, `Put`, `Delete`, `Prepare`, `Commit`, `Rollback`, hooks | a `Storage`; the coordinator |
| `TransactionCoordinator` | the process-wide map of open transactions under a mutex | register, unregister, list, `CleanupStaleTransactions` | every transaction |
| `Object` (`object.go`) | entity, metadata, loaded and modified flags under `mu`; `ioMu` around a storage call | `Set`, `Load`, `FetchMetadata`, `Exists`, `Save`, `Update`, `CreateOrUpdate`, `Delete` | a `Store` |
| Commands (`commands.go`) | configuration only | copy, atomic update, batch | a `Store` or `Storage` |
| Codecs, URIs, locations, options, observability | none that matters | conversion, wrapping | - |

Which behaviours are hard:

* **Lock.** Every operation is several storage calls. A reply can be lost after
  the write took effect, a write can land after its caller gave up, the retrier
  repeats writes, processes die with their observations, clocks differ, and all
  goroutines of a process share one observation per lock. The lock is correct if
  fencing tokens only grow and belong to one claim each, a handle always names a
  lease that was really stored, and a lease is taken from its holder only after
  its own duration.
* **WithLock.** Three activities share a handle: the renewal goroutine, the
  callback and the final release. It is correct if nil means that nobody else had
  the lock, if a lost lease cancels the callback, and if it ends.
* **Transaction.** Staging, preparing and committing are separate critical
  sections, and Commit gives up the mutex in the middle. Values are read and
  conditions attached long before they are published. It is correct if a commit
  is all or nothing (or reports what is missing), does not overwrite what it did
  not see, and what is closed stays closed.
* **Coordinator.** Two mutexes, taken from both sides.
* **Object, atomic update.** Goroutines change an entity while a request about it
  is under way; a cached ETag is refreshed without the entity; updates are
  applied again after an ambiguous failure. They are correct if no write loses
  another's update without having been asked to, and if what is not saved is
  marked so.
* **File backend.** Staged files, directory creation and removal outside the
  key's lock, errors after publication, crashes between two system calls.
* **Listing.** A listing is many requests or system calls, is repeated as a whole
  after a failure, and keys come and go meanwhile.

`PROJECT.json` lists these as hazards, each at its line.

## 2. The modules

| Module | Models | Role |
| --- | --- | --- |
| `Locker` | `lock.go` on a linearizable conditional store | detailed specification, its properties |
| `FencedLock` | what a lock user relies on | abstract specification |
| `LockerRefinement` | the mapping from `Locker` to `FencedLock` | refinement |
| `LockerInduction` | - | the inductive invariants `IInv`, `ReleaseInv` and `ExclusionInv` and their parts |
| `LockerProofs`, `LockerExclusion` | - | theorems about `Locker` and their proofs |
| `MCLocker` | - | instances of `Locker` for TLC |
| `HeldLock` | `WithLock` and `Acquire` on the lock that `Locker` implements | detailed specification, safety and liveness |
| `HeldLockProofs` | - | theorems about `HeldLock` and their proofs |
| `Conditions` | `ConditionalOptions`, `ApplyConditionalPut/Delete` | operators used by the backends, the transaction and the objects |
| `Transaction` | `StorageTransaction` and the backend under it | detailed specification, its properties |
| `TransactionInduction`, `TransactionProofs` | - | inductive invariants, theorems and proofs |
| `MCTransaction` | - | instances of `Transaction` for TLC |
| `Coordinator` | `TransactionCoordinator` and the two mutexes | detailed specification, its properties |
| `CoordinatorProofs` | - | invariant, theorems and proofs |
| `Objects` | `Object` and `AtomicUpdateCommand` on the in-memory backend or S3 | detailed specification, its properties |
| `ObjectsInduction`, `ObjectsProofs` | - | inductive invariant, theorems and proofs |
| `MCObjects` | - | an instance of `Objects` for TLC |
| `Listing` | `Store.List` on the in-memory backend, S3 and the file system | detailed specification, its properties |
| `ListingInduction`, `ListingProofs` | - | inductive invariant, theorems and proofs |
| `MCListing` | - | an instance of `Listing` for TLC |
| `FileStorage` | `filestorage.go`: the keys of one directory | detailed specification |
| `Register` | what a backend with linearizable conditions promises | abstract specification |
| `FileRefinement` | the mapping from `FileStorage` to `Register` | refinement, invariant, properties |
| `FileProofs` | - | theorems about `FileStorage` and their proofs |
| `MCFileStorage` | - | instances of `FileStorage` for TLC |

`HeldLock` rests on what `Locker` is shown to do, `Locker` and `Objects` on the
linearizable conditions that `FileStorage` is shown to have; `Transaction` and
`Coordinator` share the transaction's mutex and state, each at the granularity
that its properties need.

Operators marked `faulty` stand beside the definition they resemble. No action
uses them: each is a plausible bug, and the entry `mutants` of `PROJECT.json`
says which property it breaks.

### Locker

One lock name. A caller is a goroutine; `LockerOf` says which `Locker` object,
that is which process, it uses, and `observed` holds that object's observation.
A call is a sequence of steps. `pc[c]` names the storage call the caller waits
for, `now`, `match` and `want` are the call's local variables, and `reply` is
the answer. A storage call takes effect in a step of its own between the request
and the consumption of the reply, so the calls of all callers interleave at
every storage access, and time may pass in between.

| Code | Actions |
| --- | --- |
| `TryAcquire`, from the clock sample to `Create` | `TryAcquire` |
| `Create` or `Put` succeeded | `AcquireWritten` |
| any write failed: `recoverLeaseWrite` | `WriteFailed`, then `AcquireRecovered`, `Renewed`, `Released` or the failure actions |
| the second read, the takeover decision, the claiming `Put` | `ReadExisting`, `FoundOwnLease`, `LockHeld`, `Claim` |
| `Renew`, `validateHandle` | `Renew`, `RenewValidated`, `Renewed`, `RenewFailed` |
| `Release` | `Release`, `ReleaseValidated`, `Released`, `ReleaseFailed` |
| `IsHeld` | `IsHeld`, `IsHeldAnswered` |
| `canTakeOver`, `recordObservation` | `CanTakeOver`, `Observe` |
| backend, `ApplyConditionalPut`, retrier | `ServeRead`, `ServeWrite`, `CallFails`, `ReplyLost`, `WriteDelayed`, `LateWriteArrives` |

`Acquire` is a caller that calls `TryAcquire` again; `HeldLock` is about its polling. `randomLockID` never
returns the same identifier twice. The ETag of a document is the document
itself, which is what a content hash without collisions amounts to.
`AcquiredAt` never changes under one lease identifier and is left out of the
document. The lease durations are positive, as `validate` requires, so the
fallback of `canTakeOver` for a stored duration of zero is not needed. Nothing
but the lock writes or deletes the document (README.md, "Backend requirements").

The history variables `writtenAt`, `grantedTo` and `working` are only read by
properties and proofs.

### FencedLock

The lock as its user sees it: a sequence of tokens, at most one token held, and
a new one granted only if the old one was released or its lease has been in
force for at least its duration, less `Slack`. `LockerRefinement` maps the
stored document to it and takes `MaxDelay` for `Slack`.

### HeldLock

Each caller calls `WithLock` once. An acquisition, a renewal and a release are
one step per write, as `Locker` shows them to be from outside: each takes effect
at most once, and an error leaves open whether it did. The stored lease is kept
as each caller sees it: whether the caller's handle names the stored document
(`current`), and for how long the caller has watched that document (`age`, which
stops at `Limit`, when the lease has run out for the observer). That makes time
finite, so that what must happen eventually can be checked.

| Code | Actions |
| --- | --- |
| `Acquire`'s loop over `TryAcquire` | `Acquired`, `LockHeld`, `AcquireFailed`, `AcquireCancelled` |
| the renewal goroutine: `select`, `Renew`, `cancel()` | `RenewalStopped`, `RenewalCancelled`, `RenewBegin`, `Renewed`, `RenewRefused`, `RenewFailed`, `RenewInterrupted` |
| the callback | `CallbackReturns`, `CallbackPanics` |
| `close(stopRenew)`, `<-renewDone`, `cancel()`, `Release`, `errors.Join` | `Stopped`, `Released`, `ReleaseFailed` |
| the ticker, the caller's context, a process that dies | `Tick`, `ParentCancelled`, `Crash` |

A callback that panics leaves the renewal goroutine running, as the code does,
for the process may recover from the panic. Its lease is renewed until its
context ends; `PollingEnds` therefore excepts it.

### Transaction

`object` is the backend. A call that keeps the mutex and makes at most one
storage call is one action (`Put`, `Delete`, `HeadObject`, `Rollback`). `Get` reads
without the mutex and is three actions. `Prepare` and `Commit` hold the mutex
over several storage calls; `holder` says so between them, and every validation
and every publication is an action. Between `Prepared` and `Relock` a `Commit`
has no mutex.

How a transaction is used is chosen once per behaviour, from `Settings`: which
goroutine uses which transaction, the calls they make, whether the backend has
atomic batches, whether goroutines prepare before they commit, which keys
another writer changes, which hooks and which kinds of storage failure there
may be. One run so covers several ways of use, and the theorems all of them.

The ETag of a value is the value. Refused calls change nothing and are left
out, as are logs, metrics, user metadata and the read-only flag. A hook only
succeeds or fails. A failing storage call may or may not have taken effect.
Backoff and the limit of five attempts are left out: a call may be repeated as
often as it fails.

### Coordinator

Begin, Prepare, Commit, Rollback and cleanup at the granularity of the two
mutexes. What `Commit` does to the backend is left to `Transaction`.

| Code | Actions |
| --- | --- |
| `NewEnhancedTransaction`, `RegisterTransaction` | `Begin` |
| `Prepare`, called by a user | `PrepareOnly` |
| `Commit`: the first check; `Prepare` without the mutex; the mutex again, without a second check | `Commit`, `AutoPrepare`, `Relock` |
| the end of a `Commit`; a failing hook, after which it gives up the mutex to roll back | `CommitSucceeds`, `CommitFails`; `HookFails`, `CommitRollsBack` |
| `Rollback`, `UnregisterTransaction` | `Rollback`, `Unregister` |
| `CleanupStaleTransactions` | `Cleanup`, `Ask`, `Asked`, `LookUp`, `Sweep`, `Swept` |

### Objects

Goroutines (`Callers`) use Objects (`Wrappers`) of one key; `uses`, chosen once,
says whether they share them. The content of the object is how often each
caller's update has been applied to it, so that a lost update and a doubled one
show; the ETag is the content. A storage call is a request (`wire`), its effect
(`Serve`) and a reply that is used later; `LoseReply` is a write that takes
effect and is issued again by the retrier, `RequestFails` an error that the
caller gets.

| Code | Actions |
| --- | --- |
| `Set`, `SetPointer` | `Set` |
| `Load`, `Reload` | `LoadBegin`, `LoadAnswered` |
| `FetchMetadata`, `Exists` | `FetchMetadata`, `MetadataFetched`, `ExistsAnswered` |
| `Save` | `Save`, `SaveSkipped`, `SaveBegin`, `SaveAnswered` |
| `Delete` | `DeleteBegin`, `DeleteAnswered` |
| `CreateOrUpdate` | `CreateOrUpdate`, `ExistsAnswered`, `CheckLoaded`, the load, `Mark`, `Choose`, the save |
| `Update`, with or without `WithAutocommit` | `Update`, the load, `Apply`, the save |
| `AtomicUpdateCommand` | `AtomicUpdate`, `AtomicRead`, `AtomicWritten` |
| the backends' conditions and errors | `MemoryGet` to `MemoryDelete`, `S3Get` to `S3Delete` |

`ioMu` is held from a request until its reply is used, as in the code; the
revision is only ever compared with the one noted when `ioMu` was taken, so
`overtaken` keeps the outcome of that comparison. The history variables say
where an entity comes from (`source`), whether `Set` has replaced it
(`replaced`), why a write may lose something (`loose`: the caller asked for it,
`Set` replaced the entity, or the ETag is not the entity's), and what an
`AtomicUpdate` has done (`effects`, `lost`, `result`).

### Listing

One call of `Store.List` with every combination of options, and writers beside
it. Keys are numbered in their lexical order and the keys of a folder are next
to each other. Where a common prefix is needed it is the folder.

| Code | Actions |
| --- | --- |
| `MockStorage.List` | `ListMemory`, under its lock |
| `S3Storage.List` | `ListPage`, `ListObject` (with the `HeadObject` that `IncludeMetadata` asks for), `PageDone` |
| `FileStorage.List`, `filepath.Walk` | `WalkRoot`, `WalkDirectory`, `WalkFile`, `WalkDone` |
| the retrier around the whole call | `ListFails` |
| other callers | `Put`, `Delete`, `MakeDirectory`, `RemoveDirectory` |

`ever` and `always` remember what each key has held during the call and which
keys were there all the time.

### FileStorage

The tree is a bucket's directory and one directory `Folder` in it, whose path may
itself be a key: `node` says what is at each path. A client is a process with
one call at a time. Each system call that another process can tell from the next is
an action; `lock` is the exclusive `flock` of each key, which is the only thing
that spans several of them. A read, which holds its shared lock from
before it opens the file until it has read it, is one action, because a file is
never changed once it is published: it is enough that nobody holds the key exclusively.

| Code | Actions |
| --- | --- |
| a call begins | `Begin` |
| `putReader` | `MakeFolder`, `Stage`, `CheckPut`, `Publish`, `Unlink`, `SyncPut`, and `Discard` for the deferred removal of the staged file |
| `Get`, `Head` | `Read` |
| `Delete` | `CheckDelete`, `Remove`, `SyncRemoved` |
| `cleanupEmptyDirs`, outside the lock | `Scan`, `Prune` |
| `withFileLock` ended by its context | `GiveUp` |
| any failing system call; a process that dies | `CallFails`, `Crash` |

The bucket's directory holds other objects and is never removed. Power failures
are left out: what `Sync` adds to a `rename` shows only after one. `MkdirAll`
of a deeper tree would be several steps.

`Register` is the promise behind `HasLinearizableConditions`: each call takes
effect at one moment of its duration, at most once, and only if its condition
holds at that moment. `FileRefinement` maps a call to `pending` until its
`link`, `rename` or `unlink`, to `applied` from there until its return, and to
its result afterwards, when a `Delete` may still be cleaning up.

## 3. What is checked

`PROJECT.json` says which properties each configuration names and what each
run is about.

| Run | `tlc -config` | Properties | Shows |
| --- | --- | --- | --- |
| `lock_faults` | `LockerFaults.cfg MCLocker` | `TypeOK`, `HandlesWereGranted`, `HandlesWereStored`, `ReleaseInv`, `FencingSequence`, `ReleaseTakesEffect` | two processes, all of acquire, renew, release, two faults of any kind (failed call, lost reply, late write, crash); the invariant behind `ReleaseTakesEffect` holds |
| `lock_time` | `LockerTime.cfg MCLocker` | `IInv`, `ExclusionInv`, `MutualExclusion`, `TokensDiffer`, `TakeoverWaits`, `KeepsPromise` | two processes with clocks that differ, different lease durations, more time, `IsHeld`; `Locker` implements `FencedLock`; the invariants of the proofs hold |
| `held_lock` | `HeldLock.cfg HeldLock` | `TypeOK`, `NilMeansExclusive`, `ReleaseRunsAlone`, `LossCancels`, `PollingEnds` | two callers of `WithLock`, a failing storage call, a process that dies, contexts that end, a callback that panics |
| `transaction` | `Transaction.cfg MCTransaction` | `TypeOK`, `AllOrNothing`, `NilMeansApplied`, `PutsReplaceWhatWasSeen`, `ClosedIsFinal` | one goroutine's transaction, atomic or best-effort, with reads, conditions given by the caller, a writer beside it and a storage call that fails before or after it took effect; and a transaction that two goroutines share, prepare and commit, with failing hooks |
| `tx_window` | `TransactionWindow.cfg MCTransaction` | `NilMeansApplied` violated | see findings |
| `coordinator` | `CoordinatorSafety.cfg Coordinator` | `TypeOK`, `ListsTheOpen` | two workers, two sweepers, two transactions: any two goroutines may use the same one, also where a `Commit` has no mutex |
| `coordinator_cleanup` | `CoordinatorCleanup.cfg Coordinator` | `CleanupEnds` violated | see findings |
| `objects` | `Objects.cfg MCObjects` | `TypeOK`, `CleanMeansSaved`, `KeepsOthersUpdates`, `AppliesOnce` | two goroutines, each with an Object or both with the same, every operation, both backends, a request that fails or a reply that is lost |
| `objects_stale` | `ObjectsStale.cfg MCObjects` | `StaleSavesConflict` violated | see findings |
| `listing` | `Listing.cfg MCListing` | `IInv`, `TypeOK`, `ListsWhatStays`, `ListedOnce`, `ListedWasThere` | a listing on each backend with all options, a retry, three writes at any time; the invariant of the proofs holds |
| `file_register` | `FileRegister.cfg MCFileStorage` | `FileInv`, `NothingLeftBehind`, `FolderHoldsItsFiles`, `Linearizable` | two processes, two keys in the directory, reads, puts and deletes with and without conditions, one failing system call or crash: `FileStorage` implements `Register` |
| `file_folder` | `FileFolder.cfg MCFileStorage` | `SerializedByLocks` violated | see findings |

### Bounds

* `MaxVersion = 2`, `MaxRevision = 3`: two acquisitions, one of them a takeover
  or a reacquisition, and a renewal and a release of the first lease before it.
  Every action of the lock happens within them; a third acquisition meets the
  same document shapes with larger numbers. They stop the callers, which is why
  the lock runs switch off the deadlock check.
* `lock_faults` is about faults: two of them, because a lost reply has to be
  followed by a failed recovery read for a caller to find its own lease. Time is
  short (`MaxTime = 1`, no grace, equal clocks, `MaxDelay = 0`), and the two
  callers, which nothing tells apart, are symmetric.
* `lock_time` is about time: one lease of two ticks and one of one tick, a grace
  of one tick, clocks three ticks apart, calls that straddle a tick (`MaxDelay = 1`),
  and five ticks, enough for a lease to run out twice. It has no faults. The
  theorems of section 4 cover faults and time together.
* `Serials`: enough lease identifiers that one is always fresh.
* `HeldLock`: `Limit = 3` ticks of the renewal interval, as `WithLock` renews at a
  third of the lease duration; one fault, one crash. Time has no bound, and the
  run checks for deadlock.
* `Keys = {x, y}`: two keys, the least for which a batch, a partial commit and an
  order exist. `ETags`: two values that nothing tells apart. Another transaction
  is, for the one that is modelled, a writer beside it: `outsideKeys` says which
  keys it changes. There is no counter but `MaxFaults = 1`. Once all transactions
  are closed nothing may happen, hence no deadlock check.
* `CoordinatorSafety` switches it off because the system does deadlock.
* `Objects`: two calls of each caller, so that what one call leaves behind meets a
  second one; one fault; `Retries = 1`, so that an update is repeated once and then
  refused. Callers and Objects are symmetric. Callers that are finished rest;
  anything else that stopped would be a deadlock, which is checked for.
* `Listing`: four keys, the second and third in a folder, so that there are keys
  before, in and after it; pages of one, two or three entries, so that a folder
  may begin, end or fill one; three writes during the call, the least for a key
  to be deleted and stored again while another moves. `MaxWrites = 7` counts a
  write for each initial key too. One retry.
* The file runs have no counter but `MaxFaults`: the tree and the calls are
  finite. Two processes and two keys are the least for which one call's clean-up
  meets another's directory; two values let a condition name the wrong one.

### Fairness

Only safety is checked of `Locker`, `Transaction`, `Objects`, `Listing` and
`FileStorage`; they are specified without fairness.

`HeldLock!FairSpec` assumes that time passes and that goroutines run (weak
fairness of `Tick`, `Acquire`, `Renewal` and `Finish`). The goroutine's `select`
may find both the ticker and a stop or a cancellation ready; Go chooses at
random, so it does not choose the ticker for ever: strong fairness of the two
ends. A callback whose context is cancelled returns, for that is all `WithLock` does to
end it; one whose context is not cancelled need not. Nothing makes a call fail, a process
die or a context end.

`Coordinator!FairSpec` assumes strong fairness of every goroutine that is inside
a call: the Go scheduler does not starve a runnable goroutine, and neither does a
`sync.Mutex` a waiting one. Nobody is forced to begin a call.

### Findings

* **Commit overlooks a Rollback** (`tx_window`). Between `Prepare` and the rest of
  `Commit` the mutex is free. A `Rollback` there empties the transaction;
  `Commit` then returns nil and the state goes from rolled-back to committed.
  `transaction` shows that this does not happen to goroutines that call `Prepare`
  themselves, and section 4 proves it.
* **Cleanup deadlocks** (`coordinator_cleanup`). `CleanupStaleTransactions` and a
  concurrent `Commit` or `Rollback` take the two mutexes in opposite orders. From
  then on every new transaction of the process blocks.
* **Clean-up removes an object** (`file_folder`). `cleanupEmptyDirs` finds a
  directory empty and removes its path later, with no lock. If the directory has been
  removed by another `Delete` meanwhile and an object was published at its path,
  `os.Remove` unlinks that object. It takes a key that is the path of the directory
  of another, `a` and `a/b`.
* **A stale save reports no conflict** (`objects_stale`). `Exists` and
  `FetchMetadata` take over the ETag of the stored object without its entity, and
  `CreateOrUpdate` begins with `Exists`. The entity that was loaded earlier is then
  saved under the new ETag over another writer's change. `KeepsOthersUpdates` shows
  that this, `Set` and a caller's own options are the only ways to lose an update.

What else the models reach, or came to light in writing them, and contradicts
no property above:

* An observation can be older than the document: `now` is sampled at
  `lock.go:141`, before the reads, so a lease may be taken up to one call duration
  earlier than `lock.go:113` says. `TakeoverWaits` states the bound that holds,
  and `MutualExclusion` needs a grace of at least the duration of a call.
* A transaction that puts a new key and deletes it again publishes the delete with
  the put's `IfNoneMatch: *`, which a delete ignores, and so removes what another
  writer has stored (`transaction.go:697`).
* A `Delete` of a file can fail in `syncDirectory` after it took effect, because the
  clean-up of another `Delete` has removed the directory (`filestorage.go:178`).
* `AtomicUpdate` applies its function again if the reply to its write was lost:
  once more for each lost reply, which is what `AppliesOnce` bounds. `Save` reports
  a conflict for its own write in the same situation.
* `Update` and `CreateOrUpdate` load an Object that is not loaded, and so discard
  what `Set` has put there. `CreateOrUpdate` beside a `Delete` may store the zero
  entity again, or return nil without storing anything.
* The backends' listings differ: `MaxKeys` is a page size on S3 and a total
  elsewhere; S3 returns keys relative to its prefix; the file system also lists
  empty directories, walks in an order that is not lexical across `/`, and cuts off
  at 1000 entries without saying so; the in-memory backend lists flat by
  default; only S3 knows `StartAfter`; and `Store.List` replaces the caller's
  prefix if the store has one.
* The backends' writes differ: S3's `Delete` looks at `IfMatch` only and succeeds on
  a missing key, and its `Put` refuses `If-Match: *`; `FileStorage.Head` ignores
  conditions.

## 4. What is proved

The theorems hold for any sets of callers, processes, keys and values, any number
of faults and any bounds that satisfy the assumptions each module names. They
follow one pattern: none of the properties is inductive by itself, so each module
has a stronger invariant, a lemma for each action that keeps it, and the
properties as consequences.

### The lock

| Theorem | Statement |
| --- | --- |
| `LockerProofs!Induction` | `Spec => []IInv` |
| `LockerProofs!TypeCorrect` | `Spec => []TypeOK` |
| `LockerProofs!GrantedHandles` | `Spec => []HandlesWereGranted` |
| `LockerProofs!StoredHandles` | `Spec => []HandlesWereStored` |
| `LockerProofs!DifferentTokens` | `Spec => []TokensDiffer` |
| `LockerProofs!Sequenced` | `Spec => FencingSequence` |
| `LockerProofs!TakeoverIsDue` | `Spec => TakeoverWaits` |
| `LockerProofs!Implementation` | `Spec => KeepsPromise` |
| `LockerProofs!Releases` | `Spec => []ReleaseInv` |
| `LockerProofs!ReleasesHold` | `Spec => ReleaseTakesEffect` |
| `LockerExclusion!Superseded` | `Spec => []ExclusionInv`, if `MaxDelay <= Grace[c]` for every caller `c` |
| `LockerExclusion!Exclusion` | `Spec => []MutualExclusion`, if `MaxDelay <= Grace[c]` for every caller `c` |

The assumptions are `CallerAssumption` (the parameters have their types, lease
durations are positive), `BoundAssumption` (the bounds are natural numbers) and
`NoneAssumption` (`None` is no document and no handle). Fresh lease identifiers
and content ETags are built into the model.

What makes the properties inductive is a statement about documents that are *not*
in storage: a caller's pending write, a late write, a reply, an observation, a
handle. `LockerInduction` says of each of them
that it is either what is stored, or lies in the past (a lower revision, or a
document that can no longer be stored), or is a well-formed successor of such a
document (`GoodWrite`), so that the condition of a write that succeeds has to
name the current document. On top of it `NowFacts` bounds the age of a call's
clock sample and `ObservedFacts` says that no observation predates the write of
its document by more than `MaxDelay`; together they give `Due`, the takeover
condition, at the moment the claim is stored.

`ReleaseTakesEffect` is about the step in which a `Release` returns nil, which may
be long after its write: the reply was lost, the recovery read came later, and
others may have claimed the lock since. `ReleaseInv` therefore speaks of what each
caller has been told, by the document it read or by the success of its write: once
that is a document that is not held, its fencing token is never held again. It
stays so because every later write is a claim of the next token or an extension of
a held lease (`StaysReleased`, from the `GoodWrite` of `IInv`), and it begins so because a write that is answered was stored or is in the past (`IInv`).

`MutualExclusion` needs more (`ExclusionInv`): a held document fits its writer's
lease duration from the moment it was stored, and nobody relies on a lease
identifier that was released (`SoundOK`); and of the documents that a caller knows
and relies on, each is of the current lease or has expired on the caller's own
clock (`TimelyOK`, `WorkOK`). A takeover is due only after the lease's duration and
the grace, less the delay of a call, so with `MaxDelay <= Grace` it comes after the
holder's own deadline, whatever their clocks show. Most steps store nothing and
are covered by one lemma, `QuietStep`; `StoredStep` covers those that do.

### WithLock

`HeldLockProofs` proves `TypeOK` (`TypeCorrect`), `NilMeansExclusive`
(`ExclusiveWhileHeld`) and `ReleaseRunsAlone` (`ReleaseAfterRenewals`). Its invariant
adds that nothing is held and no goroutine runs before the lock was acquired, and
that a caller whose lease another has taken can no longer renew or release it,
because its handle does not name the stored document: the release then fails, and
`WithLock` returns an error.

### Objects and atomic updates

| Theorem | Statement |
| --- | --- |
| `ObjectsProofs!TypeCorrect` | `Spec => []TypeOK` |
| `ObjectsProofs!CleanObjects` | `Spec => []CleanMeansSaved` |
| `ObjectsProofs!UpdatesAreKept` | `Spec => KeepsOthersUpdates` |
| `ObjectsProofs!AtomicUpdatesOnce` | `Spec => AppliesOnce` |

`ObjectInv` says what a request is of and what its reply may be (`WireFits`); that
while a `Save` is under way the entity is what it sends or has been changed since
(`SavesWhatItHolds`); that an entity that `Set` has not replaced is what it was
loaded from with updates on top (`EntityGrows`); which conditions the operations
choose (`GivenFits`); hence that a write not marked `loose` is conditional on
something it contains (`WriteIsSafe`), and so loses nothing if it takes effect; and
that of the writes of an `AtomicUpdate` that took effect all but the last have
lost their reply (`EffectsCounted`).

### Transactions

| Theorem | Statement |
| --- | --- |
| `TransactionProofs!TypeCorrect` | `Spec => []TypeOK` |
| `TransactionProofs!PutsReplace` | `Spec => PutsReplaceWhatWasSeen` |
| `TransactionProofs!CommitIsAtomic` | `Spec => []AllOrNothing`, if `Orderly` |
| `TransactionProofs!NilCommits` | `Spec => []NilMeansApplied`, if `Orderly` |
| `TransactionProofs!ClosedForGood` | `Spec => ClosedIsFinal`, if `Orderly` |

The first two hold however transactions are used (`StagingInv`: the staged
operations and their order fit, and the condition of each lets it replace only
what was seen). `PutsReplaceWhatWasSeen` is stated of transactions that one
goroutine uses: with two, a `Get` may put what it read before into the cache after
the other's write. The other three need `Orderly`: goroutines that share a transaction
commit only what they have prepared. `tx_window` shows that they fail without it.
`CommitInv` says who holds the mutex in which state (`Holding`), that nobody else
interferes where a `Commit` has no mutex (`Undisturbed`), that nothing is published
early (`Untouched`), and how far a `Commit` has come (`PublishFits`, `PromiseFits`).

### The coordinator

`CoordinatorProofs` proves `TypeOK` (`TypeCorrect`) and `ListsTheOpen`
(`OpenAreListed`) from an invariant that says who holds which mutex at which step
(`MutexFits`) and which state a transaction has then (`StateFits`). A transaction
may be rolled back, and even be committed by another goroutine, while a `Commit` has
given up its mutex; it is then closed and no longer listed, and the `Commit`, which
goes on, closes and unregisters it once more.

### The file backend

| Theorem | Statement |
| --- | --- |
| `FileProofs!FilesStayConsistent` | `Spec => []FileInv` |
| `FileProofs!FilesAreRegisters` | `Spec => Linearizable` |
| `FileProofs!CallsCleanUp` | `Spec => []NothingLeftBehind` |
| `FileProofs!FolderStays` | `Spec => []FolderHoldsItsFiles` |

All four assume `Folder \notin Keys`: no key is the path of the directory of another.
`file_folder` shows that it is needed. `FileAssumption` types the parameters.
`FileInv` relates each lock to the step of its holder (`LockedWhileCritical`), says
that the condition checked under the lock still holds when the file is published
or removed (`StepFacts`), and that the staged file of a call keeps its directory in
place (`StagedWhilePutting`, `FolderHoldsItsFiles`). One lemma covers every way a
call can end, one each other step. For the refinement, every step is a
step of `Register` or leaves what `Register` shows unchanged.

### Listing

| Theorem | Statement |
| --- | --- |
| `ListingProofs!Induction` | `Spec => []IInv` |
| `ListingProofs!TypeCorrect` | `Spec => []TypeOK` |
| `ListingProofs!ListingIsComplete` | `Spec => []ListsWhatStays` |
| `ListingProofs!ListingIsOnce` | `Spec => []ListedOnce` |
| `ListingProofs!ListingWasThere` | `Spec => []ListedWasThere` |

`ListingAssumption` says that there are finitely many keys, numbered in their order,
that the keys of a folder are next to each other, as keys with a common prefix are,
and that limits are positive.

A key stands for itself, a folder for the keys from its first to its last. Two
items of one listing never overlap (`ItemsApart`, `NamesApart`), so they can be put
in order: `OrderExists` numbers each with how many come before it. The prover
cannot use the library's induction schemas; where a least or greatest number is
needed, `LeastNumber` and `GreatestNumber` obtain it from a well-founded order.

The properties are about a finished listing, the invariant about one that is under
way. On S3 (`PagesOK`): what was listed, and what is left of the page, was
passed by the continuation token and is there once; and every key that has stayed
and that the token has passed is among them, or its prefix is. A page is cut off
behind its last item (`PageFacts`), so the next one neither repeats nor skips
anything, whatever is written in between. In a directory walk (`WalkOK`): the
result and what is left to visit are in order, one before the other, except that
the keys of a folder may follow its prefix, which stands for them; and every key
that has stayed is listed, or is left to visit, or is in a directory that is. A
repeated call starts from an empty result.

### Only model-checked

The liveness properties `LossCancels` and `PollingEnds` of `HeldLock`, which are
outside what the prover handles, and the four violations.

## 5. What is not modelled

* The observability wrapper, codecs and their registry, URIs, locations and the
  registry of storages: sequential conversion and forwarding, without state that
  the properties could be about.
* `GetMany` (one `Get` after the other), `CopyCommand` (a `Get` and a `Put`), the
  other commands that are one call of the storage each, `BatchCommand` (a loop), and
  the lock conformance suite (a test harness; what it expects are properties of `Locker`).
* Conditions on modification times and versions, key prefixes, metadata and other
  options of a request. The length of a backoff and the number of retries, except
  in `Listing`.
* Power failures: what `Sync` adds to a `rename` shows only after one. Directories
  deeper than one level.
* Two readers of one transaction at once: `Head` writes a map under the lock for
  readers (`transaction.go:878`), which Go answers with a crash. A hook that calls its
  own transaction: it waits for itself in every execution. The typed view of a
  transaction adds a codec.
* S3 itself: its conditions are modelled as what the code expects of it.

## 6. What could follow

A `Transaction` on top of `FileStorage`, whose two models agree on the conditional
register between them; deeper directory trees; liveness of a transaction's `Commit`
under a backend that fails only for a while.
