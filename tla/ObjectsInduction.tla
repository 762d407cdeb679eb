--------------------------- MODULE ObjectsInduction ---------------------------
(***************************************************************************)
(* The inductive invariant of Objects, from which its properties follow.   *)
(***************************************************************************)
EXTENDS Objects

AtLeast(e, f) == \A d \in Callers : e[d] >= f[d]

\* What a caller waits for at each stage of its call.
KindAt == [load |-> "Get", head |-> "Head", save |-> "Put", delete |-> "Delete",
           exists |-> "Head", get |-> "Get", put |-> "Put"]

WireFits ==
    \A c \in Callers :
        /\ op[c] = "none" <=> at[c] = "idle"
        /\ at[c] \in {"get", "put"} => op[c] = "AtomicUpdate"
        /\ op[c] = "AtomicUpdate" => at[c] \in {"get", "put"}
        /\ wire[c] # None => at[c] \in DOMAIN KindAt
        /\ Asking(c) => /\ wire[c] \in Requests
                        /\ wire[c].kind = KindAt[at[c]]
                        /\ at[c] \in {"save", "put"} => wire[c].data \in Contents
        /\ Told(c) => /\ wire[c] \in Replies
                      /\ Code(c) = "ok" /\ at[c] \in {"load", "get", "save", "put"}
                             => wire[c].etag \in Contents

\* While a Save is under way the entity is what it sends, unless it has been
\* changed since, by updates or by Set.
Saved(c) == IF Asking(c) THEN wire[c].data ELSE wire[c].etag
SavesWhatItHolds ==
    /\ overtaken \subseteq {o \in Wrappers : modified[o]}
    /\ \A c \in Callers :
           at[c] = "save" /\ wire[c] # None /\ (Told(c) => Code(c) = "ok") =>
               /\ Mine(c) \notin overtaken => entity[Mine(c)] = Saved(c)
               /\ Mine(c) \notin replaced => AtLeast(entity[Mine(c)], Saved(c))

\* An entity that Set has not replaced is what it came from, with updates.
EntityGrows ==
    \A o \in Wrappers :
        o \notin replaced /\ source[o] # None => AtLeast(entity[o], source[o])

\* Only Save takes options from its caller; CreateOrUpdate chooses a condition.
GivenFits ==
    \A c \in Callers :
        op[c] # "Save" =>
            /\ ~given[c].force
            /\ given[c].condition # Unconditional =>
                   \/ given[c].condition = IfNotExists
                   \/ /\ given[c].condition = IfMatch(given[c].condition.match)
                      /\ given[c].condition.match \in Contents

\* A write that is not marked as loose is conditional on what it has grown from.
WriteIsSafe ==
    \A c \in Callers :
        Asking(c) /\ wire[c].kind = "Put" /\ loose[c] = {} =>
            \/ wire[c].condition.noMatch = Star
            \/ /\ wire[c].condition.match \in Contents
               /\ AtLeast(wire[c].data, wire[c].condition.match)

\* Every write of an AtomicUpdate that took effect, but the last, lost its reply.
EffectsCounted ==
    \A c \in Callers :
        /\ op[c] = "none" => effects[c] = 0 /\ lost[c] = 0
        /\ op[c] = "AtomicUpdate" =>
               IF at[c] = "put" /\ Told(c) /\ Code(c) = "ok"
               THEN effects[c] \in 1..(lost[c] + 1)
               ELSE effects[c] <= lost[c]

ObjectInv ==
    /\ TypeOK /\ WireFits /\ CleanMeansSaved /\ SavesWhatItHolds /\ EntityGrows
    /\ GivenFits /\ WriteIsSafe /\ EffectsCounted
===============================================================================
