----------------------------- MODULE MCOutboxRelay -----------------------------
(* Instances of OutboxRelay for TLC. *)
EXTENDS OutboxRelay, TLC

\* Every relay selects every entry.
AllRoutes == [r \in Relays |-> Entries]

Symmetry == Permutations(Relays) \cup Permutations(Tokens)
================================================================================
