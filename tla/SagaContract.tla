------------------------------ MODULE SagaContract ------------------------------
(***************************************************************************)
(* What a durable saga promises: its steps take effect in order; once the  *)
(* roll-back has begun no step is taken and the effects are undone in      *)
(* reverse order; the instance is completed only with every step in        *)
(* effect, and failed only when nothing is left to undo, but for the       *)
(* effect of the one step whose checkpoint was lost; and what is finished  *)
(* stays as it is until it is pruned.                                      *)
(***************************************************************************)
EXTENDS Naturals, FiniteSets

CONSTANTS Instances, N

Steps == 0 .. N - 1

VARIABLES
    fate,    \* "absent", "open", "undoing", "completed", "failed" or "gone"
    owed     \* the steps in effect, whose compensation has not been called since

vars == <<fate, owed>>

Init ==
    /\ fate = [i \in Instances |-> "absent"]
    /\ owed = [i \in Instances |-> {}]

Moves(i, from, to) ==
    /\ fate[i] = from
    /\ fate' = [fate EXCEPT ![i] = to]
    /\ UNCHANGED owed

\* A step may be taken again when its checkpoint was lost.
Take(i, s) ==
    /\ fate[i] = "open"
    /\ 0 .. s - 1 \subseteq owed[i]
    /\ owed' = [owed EXCEPT ![i] = @ \cup {s}]
    /\ UNCHANGED fate

Undo(i, s) ==
    /\ fate[i] = "undoing"
    /\ Cardinality({k \in owed[i] : k > s}) <= 1
    /\ owed' = [owed EXCEPT ![i] = @ \ {s}]
    /\ UNCHANGED fate

Next == \E i \in Instances :
    \/ Moves(i, "absent", "open")
    \/ \E s \in Steps : Take(i, s) \/ Undo(i, s)
    \/ Moves(i, "open", "undoing")
    \/ owed[i] = Steps /\ Moves(i, "open", "completed")
    \/ Cardinality(owed[i]) <= 1 /\ Moves(i, "undoing", "failed")
    \/ Moves(i, "completed", "gone") \/ Moves(i, "failed", "gone")

Spec == Init /\ [][Next]_vars
================================================================================
