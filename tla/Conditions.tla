------------------------------ MODULE Conditions ------------------------------
(***************************************************************************)
(* The conditions of a storage call (ConditionalOptions) and the rules by  *)
(* which store/helpers.go applies them to what a key holds. An ETag is a   *)
(* hash of the content, so here the ETag of a value is the value, and what *)
(* a key holds is an ETag or None. Conditions on modification times are    *)
(* left out.                                                               *)
(***************************************************************************)
CONSTANTS
    ETags,        \* the values a key can hold
    None,         \* a key that holds nothing
    Unset,        \* a condition the caller did not give
    Star          \* "*": any object

ASSUME ConditionAssumption ==
    /\ Unset # Star
    /\ None \notin ETags /\ Unset \notin ETags /\ Star \notin ETags

Conditions == [match : ETags \cup {Unset, Star}, noMatch : ETags \cup {Unset, Star}]

Unconditional == [match |-> Unset, noMatch |-> Unset]
IfMatch(etag) == [match |-> etag, noMatch |-> Unset]
IfNotExists == [match |-> Unset, noMatch |-> Star]

Named(condition) == condition \notin {Unset, Star}

PutAllowed(current, c) ==
    /\ c.noMatch = Star => current = None
    /\ c.match = Star => current # None
    /\ Named(c.match) => current = c.match
    /\ Named(c.noMatch) => current # c.noMatch

\* A delete knows no IfNoMatch.
DeleteAllowed(current, c) ==
    /\ c.match = Star => current # None
    /\ Named(c.match) => current = c.match
===============================================================================
