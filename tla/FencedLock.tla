------------------------------ MODULE FencedLock ------------------------------
(***************************************************************************)
(* What the lock of store/lock.go promises its callers, with no storage,   *)
(* no messages and no local state: fencing tokens 1, 2, 3, ... are each    *)
(* granted to one caller; a token is granted only while the lock is free,  *)
(* or long enough after the holder last extended its lease; a caller       *)
(* learns only of tokens granted to it.                                    *)
(***************************************************************************)
EXTENDS Integers, Sequences

CONSTANTS
    Callers,
    Grace,    \* [Callers -> Nat]: how long after expiry a caller takes over
    Slack     \* how much too early a caller's clock reading can make it

VARIABLES
    clock,
    granted,  \* the caller each token was granted to, in order
    held,     \* whether the last token granted is held
    since,    \* when the lease was last written
    span,     \* for how long it was written; of no meaning in a free lock
    token     \* the token each caller holds a handle for; 0 for none

vars == <<clock, granted, held, since, span, token>>

Init ==
    /\ clock = 0
    /\ granted = << >>
    /\ held = FALSE
    /\ since = 0
    /\ span \in Nat
    /\ token = [c \in Callers |-> 0]

Tick ==
    /\ clock' = clock + 1
    /\ UNCHANGED <<granted, held, since, span, token>>

Takeable(c) == held => clock + Slack >= since + span + Grace[c]

Grant(c) ==
    /\ Takeable(c)
    /\ granted' = Append(granted, c)
    /\ held' = TRUE
    /\ since' = clock
    /\ span' \in Nat
    /\ UNCHANGED <<clock, token>>

Extend ==
    /\ held
    /\ since' = clock
    /\ span' \in Nat
    /\ UNCHANGED <<clock, granted, held, token>>

Free ==
    /\ held
    /\ held' = FALSE
    /\ since' = clock
    /\ span' \in Nat
    /\ UNCHANGED <<clock, granted, token>>

\* A call returns to c with a handle, possibly long after its grant.
Learn(c) ==
    /\ \E t \in DOMAIN granted :
           granted[t] = c /\ token' = [token EXCEPT ![c] = t]
    /\ UNCHANGED <<clock, granted, held, since, span>>

\* Handles are given up, several at once when a process dies.
Forget(gone) ==
    /\ token' = [c \in Callers |-> IF c \in gone THEN 0 ELSE token[c]]
    /\ UNCHANGED <<clock, granted, held, since, span>>

Next ==
    \/ Tick \/ Extend \/ Free
    \/ \E c \in Callers : Grant(c) \/ Learn(c)
    \/ \E gone \in SUBSET Callers : Forget(gone)

Spec == Init /\ [][Next]_vars

-------------------------------------------------------------------------------
(* No two callers hold a handle with the same fencing token, so a resource *)
(* that checks tokens can tell any two holders apart.                      *)
TokensDiffer ==
    \A c, d \in Callers : c # d /\ token[c] # 0 => token[c] # token[d]
===============================================================================
