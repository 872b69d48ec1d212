---------------------------- MODULE GateContract ----------------------------
(***************************************************************************)
(* What the invocation gate promises to its callers, with no word, queue   *)
(* or wake-up in sight.  A gate has at most one holder.  A holder is       *)
(* "ord"inary (a public call, which may park in host callbacks) or "fast"  *)
(* (a direct native entry that assumes nothing else can reach the          *)
(* instance).  Once revocation has been reported, direct entry is over for *)
(* good.                                                                   *)
(***************************************************************************)
CONSTANTS Threads, NoThread

VARIABLES
    holder,   \* [thread, kind] of the current holder, or NoHolder
    revoked   \* TRUE once some revokeFast has returned

vars == <<holder, revoked>>

NoHolder == [thread |-> NoThread, kind |-> "none"]

Init == holder = NoHolder /\ revoked = FALSE

Enter(t, k) ==
    /\ holder = NoHolder
    /\ k = "fast" => ~revoked
    /\ holder' = [thread |-> t, kind |-> k]
    /\ UNCHANGED revoked

Leave ==
    /\ holder # NoHolder
    /\ holder' = NoHolder
    /\ UNCHANGED revoked

Revoke ==
    /\ holder.kind # "fast"
    /\ revoked' = TRUE
    /\ UNCHANGED holder

Next ==
    \/ \E t \in Threads, k \in {"ord", "fast"} : Enter(t, k)
    \/ Leave
    \/ Revoke

Spec == Init /\ [][Next]_vars
=============================================================================
