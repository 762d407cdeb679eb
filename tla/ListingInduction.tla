--------------------------- MODULE ListingInduction ---------------------------
(***************************************************************************)
(* The inductive invariant from which the properties of Listing follow.    *)
(***************************************************************************)
EXTENDS Listing

Items == Keys \cup Folders
Entries == [item : Items, etag : Nat, meta : Nat \cup {None}]

\* The result, and what is left to look at: objects of a page of S3, or names.
ResultOK ==
    /\ entries \in Seq(Entries)
    /\ left \in Seq(IF backend = "s3" THEN Entries ELSE Items)
    /\ phase # "visiting" => left = << >>
    /\ backend # "s3" /\ phase = "asking" => entries = << >>
    /\ backend = "memory" => phase # "visiting"

\* The history of each key ends with what is stored, the latest of it; no file
\* is outside its directory.
StoreOK ==
    /\ \A k \in Keys : \A version \in ever[k] : version <= writes
    /\ \A k \in Present :
           object[k] \in ever[k] /\ \A version \in ever[k] : version <= object[k]
    /\ backend = "file" => \A k \in Present : Folder[k] # None => Folder[k] \in dirs

IsListed(item) == \E i \in DOMAIN entries : entries[i].item = item

\* S3: what is in the result or left to look at is there once, was passed by the
\* token, and includes all that stays and was passed or is on the last page.
Passed(k) == k <= token \/ (phase \in {"visiting", "ok"} /\ ~more)
PagesOK ==
    backend = "s3" =>
        /\ phase = "ok" => ~more
        /\ \A i \in DOMAIN entries : Final(entries[i].item) <= token
        /\ \A i \in DOMAIN left :
               /\ left[i].item \in Keys /\ left[i].item <= token
               /\ left[i].etag \in ever[left[i].item] /\ left[i].meta = None
               /\ ~IsListed(left[i].item)
        /\ \A i, j \in DOMAIN left : left[i].item = left[j].item => i = j
        /\ phase # "error" =>
               \A k \in always :
                   Matching(k) /\ Passed(k) =>
                       IsListed(Item(k)) \/ \E i \in DOMAIN left : left[i].item = Item(k)

\* The file system: the result and what is left to look at are in order, except
\* that the keys of a folder may follow its prefix, which stands for them; all
\* that stays is listed, or is left to look at, or is in a directory that is.
Before(x, y) == Final(x) < First(y)
StandsFor(x, y) == y \in Keys /\ RollsUp(y) /\ x = Folder[y]
WalkOK ==
    backend = "file" /\ phase = "visiting" =>
        /\ \A i, j \in DOMAIN entries : i < j => Before(entries[i].item, entries[j].item)
        /\ \A i, j \in DOMAIN left : i < j => Before(left[i], left[j])
        /\ \A i \in DOMAIN entries, j \in DOMAIN left :
               Before(entries[i].item, left[j]) \/ StandsFor(entries[i].item, left[j])
        /\ \A j \in DOMAIN left :
               /\ left[j] \in Folders => options.prefix = None
               /\ left[j] \in Keys /\ RollsUp(left[j]) => IsListed(Folder[left[j]])
        /\ \A k \in always :
               Matching(k) =>
                   \/ IsListed(Item(k))
                   \/ \E j \in DOMAIN left :
                          left[j] = k \/ (Folder[k] # None /\ left[j] = Folder[k])

(* What Listing promises, and what its steps rely on.                      *)
IInv ==
    /\ TypeOK /\ ResultOK /\ StoreOK /\ PagesOK /\ WalkOK
    /\ ListsWhatStays /\ ListedOnce /\ ListedWasThere
===============================================================================
