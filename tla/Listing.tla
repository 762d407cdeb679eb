------------------------------- MODULE Listing --------------------------------
(***************************************************************************)
(* Store.List of store/store.go and the List of the three backends, while  *)
(* other callers write and delete the keys that are being listed.          *)
(*                                                                         *)
(* The in-memory backend lists under its lock, S3 answers page by page     *)
(* and, on request, is asked again for each object, and the file system is *)
(* walked, one directory or file at a time. Keys are numbered in their     *)
(* lexical order, the keys of one folder next to each other. The content   *)
(* of an object, its ETag and its metadata are the number of the write     *)
(* that stored it, 0 where there is none.                                  *)
(***************************************************************************)
EXTENDS Naturals, FiniteSets, SequencesExt

CONSTANTS
    Keys,          \* the keys of one bucket
    Folder,        \* the folder of each key, or None
    Backends,      \* a subset of {"memory", "s3", "file"}
    Limits,        \* the MaxKeys that callers ask for
    DefaultLimit,  \* what S3 and the file system use without one: 1000
    MaxRetries,    \* retries of the Store's retrier
    MaxWrites,     \* bound: writes during the call
    None

Folders == {Folder[k] : k \in Keys} \ {None}
Inside(g) == {k \in Keys : Folder[k] = g}

ASSUME ListingAssumption ==
    /\ Keys \subseteq Nat \ {0} /\ IsFiniteSet(Keys)
    /\ DOMAIN Folder = Keys /\ Folders \cap Nat = {} /\ None \notin Nat
    /\ \A j, k, m \in Keys : j < k /\ k < m /\ Folder[j] = Folder[m] /\ Folder[j] # None
                             => Folder[k] = Folder[j]
    /\ Backends \subseteq {"memory", "s3", "file"}
    /\ Limits \subseteq Nat \ {0} /\ DefaultLimit \in Nat \ {0}
    /\ MaxRetries \in Nat /\ MaxWrites \in Nat

VARIABLES
    object,     \* what is stored under each key
    dirs,       \* the directories that exist (file system)
    backend,    \* which one it is
    options,    \* ListOptions
    phase,      \* of the call: "asking", "visiting", "ok", "error"
    retries,    \* of the retrier
    token,      \* the last key that S3's pages have passed
    more,       \* IsTruncated of the last page
    left,       \* what the page or the walk still has to look at
    entries,    \* the result
    writes,     \* writes so far
    ever,       \* history: what each key has held during the call
    always      \* history: the keys present throughout the call

result == <<left, entries>>
call == <<phase, retries, token, more, result>>
history == <<ever, always>>
vars == <<object, dirs, backend, options, call, writes, history>>

Present == {k \in Keys : object[k] # 0}
Done == {"ok", "error"}
Entry(item, version, meta) == [item |-> item, etag |-> version, meta |-> meta]
Prefix(g) == Entry(g, 0, None)

-------------------------------------------------------------------------------
(***************************************************************************)
(* What is asked for. Without a delimiter the in-memory backend lists all  *)
(* keys, the others take "/".                                              *)
(***************************************************************************)
Matching(k) == options.prefix = None \/ Folder[k] = options.prefix
Delimited == ~options.recursive /\ (options.delimiter \/ backend # "memory")
RollsUp(k) == Delimited /\ Folder[k] # None /\ Folder[k] # options.prefix
Item(k) == IF RollsUp(k) THEN Folder[k] ELSE k

\* The place of a key or a folder in the order, and the last key it stands for.
First(item) == IF item \in Folders THEN CHOOSE k \in Inside(item) : \A m \in Inside(item) : k <= m
               ELSE item
Final(item) == IF item \in Folders THEN CHOOSE k \in Inside(item) : \A m \in Inside(item) : k >= m
               ELSE item
InOrder(items) ==
    CHOOSE s \in [1..Cardinality(items) -> items] :
        \A i, j \in DOMAIN s : i < j => First(s[i]) < First(s[j])
Take(s, n) == SubSeq(s, 1, IF n < Len(s) THEN n ELSE Len(s))
Limit == IF options.limit = None THEN DefaultLimit ELSE options.limit

Listed(k) == Entry(k, object[k], object[k])

-------------------------------------------------------------------------------
(***************************************************************************)
(* The in-memory backend: one look at everything, under its lock.          *)
(***************************************************************************)
ListMemory ==
    /\ backend = "memory" /\ phase = "asking"
    /\ LET found == InOrder({Item(k) : k \in {k \in Present : Matching(k)}})
           all == [i \in 1..Len(found) |-> IF found[i] \in Folders THEN Prefix(found[i])
                                           ELSE Listed(found[i])]
       IN  entries' = IF options.limit = None THEN all ELSE Take(all, options.limit)
    /\ phase' = "ok"
    /\ UNCHANGED <<object, dirs, backend, options, retries, token, more, left, writes, history>>

(***************************************************************************)
(* S3: pages of at most Limit keys and common prefixes, until one is not   *)
(* truncated. The prefixes of a page come before its objects.              *)
(***************************************************************************)
\* faulty: a page token that skips a key
PassedByNext(item) == Final(item) + 1

PassedBy(item) == Final(item)

Page(after) == Take(InOrder({Item(k) : k \in {k \in Present : Matching(k) /\ k > after}}), Limit)

ListPage ==
    /\ backend = "s3" /\ phase = "asking"
    /\ LET page == Page(token)
           after == IF page = <<>> THEN token ELSE PassedBy(page[Len(page)])
           folders == InOrder(Range(page) \cap Folders)
           keys == InOrder(Range(page) \ Folders)
       IN  /\ token' = after
           /\ more' = (\E k \in Present : Matching(k) /\ k > after)
           /\ entries' = entries \o [i \in 1..Len(folders) |-> Prefix(folders[i])]
           /\ left' = [i \in 1..Len(keys) |-> Entry(keys[i], object[keys[i]], None)]
    /\ phase' = "visiting"
    /\ UNCHANGED <<object, dirs, backend, options, retries, writes, history>>

\* Each object of the page; with IncludeMetadata a Head of it, whose failure is ignored.
ListObject ==
    /\ backend = "s3" /\ phase = "visiting" /\ left # <<>>
    /\ LET found == left[1]
       IN  \E meta \in IF options.metadata THEN {None, object[found.item]} \ {0} ELSE {None} :
               entries' = Append(entries, [found EXCEPT !.meta = meta])
    /\ left' = Tail(left)
    /\ UNCHANGED <<object, dirs, backend, options, phase, retries, token, more, writes, history>>

PageDone ==
    /\ backend = "s3" /\ phase = "visiting" /\ left = <<>>
    /\ phase' = IF more THEN "asking" ELSE "ok"
    /\ UNCHANGED <<object, dirs, backend, options, retries, token, more, result, writes, history>>

(***************************************************************************)
(* The file system: filepath.Walk reads the names of a directory, and then *)
(* looks at each, which may be gone by then.                               *)
(***************************************************************************)
NamesIn(g) == InOrder({k \in Present : Folder[k] = g}
                      \cup IF g = None THEN dirs ELSE {})

WalkRoot ==
    /\ backend = "file" /\ phase = "asking"
    /\ left' = NamesIn(options.prefix)
    /\ phase' = "visiting"
    /\ UNCHANGED <<object, dirs, backend, options, retries, token, more, entries, writes, history>>

\* faulty: without the set of keys seen
AddEntryAgain(e) == Append(entries, e)

AddEntry(e) == IF \E i \in DOMAIN entries : entries[i].item = e.item THEN entries
               ELSE Append(entries, e)

\* faulty: lists a file whose metadata could not be read
GoneNever(k) == FALSE

Gone(k) == k \notin Present

\* A directory that cannot be read any more is passed over; its prefix is listed
\* even if it is empty. Its files are looked at also when they are rolled up.
WalkDirectory ==
    /\ backend = "file" /\ phase = "visiting" /\ left # <<>> /\ left[1] \in Folders
    /\ IF left[1] \in dirs
       THEN /\ entries' = IF options.recursive THEN entries ELSE AddEntry(Prefix(left[1]))
            /\ left' = NamesIn(left[1]) \o Tail(left)
       ELSE /\ left' = Tail(left)
            /\ UNCHANGED entries
    /\ UNCHANGED <<object, dirs, backend, options, phase, retries, token, more, writes, history>>

WalkFile ==
    /\ backend = "file" /\ phase = "visiting" /\ left # <<>> /\ left[1] \notin Folders
    /\ entries' = IF Gone(left[1]) THEN entries
                  ELSE IF RollsUp(left[1]) THEN AddEntry(Prefix(Folder[left[1]]))
                  ELSE AddEntry(Listed(left[1]))
    /\ left' = Tail(left)
    /\ UNCHANGED <<object, dirs, backend, options, phase, retries, token, more, writes, history>>

WalkDone ==
    /\ backend = "file" /\ phase = "visiting" /\ left = <<>>
    /\ entries' = Take(entries, Limit)
    /\ phase' = "ok"
    /\ UNCHANGED <<object, dirs, backend, options, retries, token, more, left, writes, history>>

-------------------------------------------------------------------------------
(***************************************************************************)
(* Store.List hands the whole listing to the retrier, which starts it      *)
(* again after a failure. A walk ignores what it cannot read.              *)
(***************************************************************************)
\* faulty: a retry goes on after the page at which the failed attempt stopped
StartAgainAfterPage == left' = <<>> /\ entries' = <<>> /\ more' = FALSE /\ UNCHANGED token

StartAgain == token' = 0 /\ left' = <<>> /\ entries' = <<>> /\ more' = FALSE

ListFails ==
    /\ backend # "file" /\ phase = "asking"
    /\ IF retries < MaxRetries
       THEN /\ retries' = retries + 1
            /\ StartAgain
            /\ UNCHANGED phase
       ELSE /\ phase' = "error"
            /\ UNCHANGED <<retries, token, more, result>>
    /\ UNCHANGED <<object, dirs, backend, options, writes, history>>

(***************************************************************************)
(* The other callers: Put (which first makes the directory), Delete (which *)
(* then removes the directory if it is empty).                             *)
(***************************************************************************)
Writable == phase \notin Done /\ writes < MaxWrites

Put(k) ==
    /\ Writable
    /\ backend = "file" /\ Folder[k] # None => Folder[k] \in dirs
    /\ writes' = writes + 1
    /\ object' = [object EXCEPT ![k] = writes']
    /\ ever' = [ever EXCEPT ![k] = @ \cup {writes'}]
    /\ UNCHANGED <<dirs, backend, options, call, always>>

Delete(k) ==
    /\ Writable /\ object[k] # 0
    /\ writes' = writes + 1
    /\ object' = [object EXCEPT ![k] = 0]
    /\ always' = always \ {k}
    /\ UNCHANGED <<dirs, backend, options, call, ever>>

MakeDirectory(g) ==
    /\ Writable /\ backend = "file" /\ g \notin dirs
    /\ dirs' = dirs \cup {g}
    /\ UNCHANGED <<object, backend, options, call, writes, history>>

RemoveDirectory(g) ==
    /\ Writable /\ backend = "file" /\ g \in dirs /\ Inside(g) \cap Present = {}
    /\ dirs' = dirs \ {g}
    /\ UNCHANGED <<object, backend, options, call, writes, history>>

\* The call has returned.
Returned == phase \in Done /\ UNCHANGED vars

-------------------------------------------------------------------------------
\* What was written before the call counts as writes, one for each key.
Written(k) == Cardinality({m \in Keys : m <= k})

Options == [recursive : BOOLEAN, delimiter : BOOLEAN, metadata : BOOLEAN,
            limit : Limits \cup {None}, prefix : Folders \cup {None}]

Init ==
    /\ backend \in Backends
    /\ \E stored \in SUBSET Keys :
           object = [k \in Keys |-> IF k \in stored THEN Written(k) ELSE 0]
    /\ writes = Cardinality(Keys)
    /\ dirs = IF backend = "file" THEN {Folder[k] : k \in Present} \ {None} ELSE {}
    /\ options \in Options
    /\ options.delimiter => backend = "memory"    \* the others' default is the same
    /\ options.metadata => backend = "s3"         \* the others have it in any case
    /\ phase = "asking" /\ retries = 0 /\ token = 0 /\ more = FALSE
    /\ left = <<>> /\ entries = <<>>
    /\ ever = [k \in Keys |-> {object[k]} \ {0}]
    /\ always = Present

Next ==
    \/ ListMemory \/ ListPage \/ ListObject \/ PageDone
    \/ WalkRoot \/ WalkDirectory \/ WalkFile \/ WalkDone
    \/ ListFails \/ Returned
    \/ \E k \in Keys : Put(k) \/ Delete(k)
    \/ \E g \in Folders : MakeDirectory(g) \/ RemoveDirectory(g)

Spec == Init /\ [][Next]_vars

-------------------------------------------------------------------------------
(***************************************************************************)
(* Properties.                                                             *)
(***************************************************************************)
\* Type correctness: in particular a page token is always a key.
TypeOK ==
    /\ object \in [Keys -> Nat]
    /\ dirs \subseteq Folders
    /\ backend \in Backends
    /\ options \in Options
    /\ phase \in {"asking", "visiting", "ok", "error"}
    /\ retries \in 0..MaxRetries
    /\ token \in Keys \cup {0} /\ more \in BOOLEAN
    /\ writes \in Nat
    /\ ever \in [Keys -> SUBSET Nat] /\ always \subseteq Present
    /\ \A i \in DOMAIN entries : entries[i].item \in Keys \cup Folders

\* A key that is there throughout the call is in the result, or its folder is,
\* unless the limit cut the result off before it; S3's limit is that of a page.
\* (Store.List, the List of the backends.)
ListsWhatStays ==
    phase = "ok" => \A k \in always :
        Matching(k) =>
            \/ \E i \in DOMAIN entries : entries[i].item = Item(k)
            \/ /\ backend # "s3" /\ Len(entries) = Limit
               /\ \A i \in DOMAIN entries : First(entries[i].item) < First(Item(k))

\* Nothing is listed twice, whatever was deleted and written again between two
\* pages or two directories, and however often the call was retried.
\* (filestorage.go List, s3storage.go List, store.go List.)
ListedOnce ==
    \A i, j \in DOMAIN entries : entries[i].item = entries[j].item => i = j

\* What is listed was there during the call: the ETag is of an object that the
\* key held, the metadata of that object or of a later one (and of that one,
\* except on S3), and a folder held a key, except that the file system also lists
\* empty directories. (s3storage.go List, its HeadObject after ListObjectsV2.)
ListedWasThere ==
    \A i \in DOMAIN entries :
        LET e == entries[i]
        IN  IF e.item \in Folders
            THEN backend = "file" \/ \E k \in Inside(e.item) : ever[k] # {}
            ELSE /\ e.etag \in ever[e.item]
                 /\ e.meta \in ever[e.item] \cup {None}
                 /\ e.meta # None => e.etag <= e.meta
                 /\ e.meta # e.etag => backend = "s3"
===============================================================================
