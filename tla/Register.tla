------------------------------- MODULE Register -------------------------------
(***************************************************************************)
(* A linearizable conditional register for each key: what a backend        *)
(* promises that answers HasLinearizableConditions with true. Each call    *)
(* takes effect at one moment between its beginning and its end, at most   *)
(* once, and only if its condition holds at that moment. A call that       *)
(* returns nil took effect; one that is refused did not, and a moment at   *)
(* which its condition failed lies within the call; a call that fails may  *)
(* have taken effect or not.                                               *)
(***************************************************************************)
EXTENDS Conditions

CONSTANTS
    Clients,
    Keys,
    Requests      \* the calls a client may make

VARIABLES
    value,        \* what each key holds
    request,      \* the call each client makes, or None
    status,       \* how far it is, or how the last one ended
    seen          \* the object, if that was a read

vars == <<value, request, status, seen>>

Finished == {"ok", "refused", "failed"}
Is(c, kind) == status[c] = "pending" /\ request[c].kind = kind
Current(c) == value[request[c].key]

Init ==
    /\ value = [k \in Keys |-> None]
    /\ request = [c \in Clients |-> None]
    /\ status = [c \in Clients |-> "ok"]
    /\ seen = [c \in Clients |-> None]

Become(c, s) == status' = [status EXCEPT ![c] = s]
Return(c, s) == Become(c, s) /\ request' = [request EXCEPT ![c] = None]

Begin(c) ==
    /\ status[c] \in Finished
    /\ \E r \in Requests : request' = [request EXCEPT ![c] = r]
    /\ Become(c, "pending")
    /\ seen' = [seen EXCEPT ![c] = None]
    /\ UNCHANGED value

Read(c) ==
    /\ Is(c, "Get") /\ Current(c) # None
    /\ seen' = [seen EXCEPT ![c] = Current(c)]
    /\ Return(c, "ok")
    /\ UNCHANGED value

Set(c, e) ==
    /\ value' = [value EXCEPT ![request[c].key] = e]
    /\ Become(c, "applied")
    /\ UNCHANGED <<request, seen>>

Put(c) ==
    /\ Is(c, "Put") /\ PutAllowed(Current(c), request[c].condition)
    /\ Set(c, request[c].etag)

Delete(c) ==
    /\ Is(c, "Delete") /\ Current(c) # None
    /\ DeleteAllowed(Current(c), request[c].condition)
    /\ Set(c, None)

Refuse(c) ==
    /\ \/ Is(c, "Get") /\ Current(c) = None
       \/ Is(c, "Put") /\ ~PutAllowed(Current(c), request[c].condition)
       \/ /\ Is(c, "Delete")
          /\ Current(c) = None \/ ~DeleteAllowed(Current(c), request[c].condition)
    /\ Return(c, "refused")
    /\ UNCHANGED <<value, seen>>

Succeed(c) ==
    /\ status[c] = "applied"
    /\ Return(c, "ok")
    /\ UNCHANGED <<value, seen>>

Fail(c) ==
    /\ status[c] \in {"pending", "applied"}
    /\ Return(c, "failed")
    /\ UNCHANGED <<value, seen>>

Next ==
    \E c \in Clients :
        \/ Begin(c) \/ Read(c) \/ Put(c) \/ Delete(c)
        \/ Refuse(c) \/ Succeed(c) \/ Fail(c)

Spec == Init /\ [][Next]_vars
===============================================================================
