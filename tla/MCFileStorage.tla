---------------------------- MODULE MCFileStorage -----------------------------
(* Instances of FileStorage for TLC. *)
EXTENDS FileRefinement

CONSTANTS p, q, k, l, d

Calls(kind, etags, conditions) ==
    [kind : {kind}, key : Keys, etag : etags, condition : conditions]

\* A read and a delete have an etag they do not use.
AnyEtag == {CHOOSE e \in ETags : TRUE}

AllRequests ==
    LET exact == {IfMatch(e) : e \in ETags}
    IN  Calls("Get", AnyEtag, {Unconditional})
        \cup Calls("Put", ETags, {Unconditional, IfNotExists} \cup exact)
        \cup Calls("Delete", AnyEtag, {Unconditional} \cup exact)

PlainRequests ==
    Calls("Put", ETags, {Unconditional}) \cup Calls("Delete", AnyEtag, {Unconditional})
===============================================================================
