----------------------------- MODULE OutboxDelivery -----------------------------
(***************************************************************************)
(* What the outbox promises the service that writes to it: a committed     *)
(* entry is owed to the broker until the broker has accepted it at least   *)
(* once, or until MaxAttempts publishes of it have failed; only then may   *)
(* it be settled, once and for all, and later forgotten.                   *)
(***************************************************************************)
EXTENDS Naturals

CONSTANTS Entries, MaxAttempts

VARIABLES
    fate,       \* "absent", "owed", "published", "failed" or "deleted"
    accepted,   \* the broker has accepted the entry at least once
    failures    \* publishes that returned an error, counted to MaxAttempts

vars == <<fate, accepted, failures>>

Init ==
    /\ fate = [e \in Entries |-> "absent"]
    /\ accepted = [e \in Entries |-> FALSE]
    /\ failures = [e \in Entries |-> 0]

Commit(e) ==
    /\ fate[e] = "absent"
    /\ fate' = [fate EXCEPT ![e] = "owed"]
    /\ UNCHANGED <<accepted, failures>>

\* A publish returns.  A relay that lost its claim may still be publishing an
\* entry another relay has settled.
Attempt(e) ==
    /\ fate[e] # "absent"
    /\ \/ accepted' = [accepted EXCEPT ![e] = TRUE]
       \/ UNCHANGED accepted
    /\ \/ failures' = [failures EXCEPT ![e] = @ + 1] /\ failures[e] < MaxAttempts
       \/ UNCHANGED failures
    /\ UNCHANGED fate

Settle(e) ==
    /\ fate[e] = "owed"
    /\ \/ accepted[e] /\ fate' = [fate EXCEPT ![e] = "published"]
       \/ failures[e] = MaxAttempts /\ fate' = [fate EXCEPT ![e] = "failed"]
    /\ UNCHANGED <<accepted, failures>>

Forget(D) ==
    /\ \A e \in D : fate[e] \in {"published", "failed"}
    /\ fate' = [e \in Entries |-> IF e \in D THEN "deleted" ELSE fate[e]]
    /\ UNCHANGED <<accepted, failures>>

Next ==
    \/ \E e \in Entries : Commit(e) \/ Attempt(e) \/ Settle(e)
    \/ \E D \in SUBSET Entries : Forget(D)

Spec == Init /\ [][Next]_vars
================================================================================
