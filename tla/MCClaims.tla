------------------------------ MODULE MCClaims ------------------------------
(***************************************************************************)
(* Exclusion that rests on timing: two outbox relays whose heartbeats are  *)
(* on schedule, and three replicas that renew their leadership on          *)
(* schedule.  A behaviour picks its subject and leaves the other in an     *)
(* initial state; neither depends on the names of processes and tokens.    *)
(***************************************************************************)
EXTENDS OutboxRelay, Elector, TLC

VARIABLE subject

allVars == <<subject, vars, electorVars>>

\* Every relay selects every entry.
AllRoutes == [r \in Relays |-> Entries]

AllBackends == {"redis", "pg", "etcd"}

Symmetry == Permutations(Relays) \cup Permutations(Tokens) \cup Permutations(Replicas)

SuiteInit ==
    /\ subject \in {"outbox", "elector"}
    /\ Init
    /\ ElectorInit /\ (subject # "elector" => backend = "redis")

SuiteNext ==
    /\ UNCHANGED subject
    /\ \/ subject = "outbox" /\ Next /\ UNCHANGED electorVars
       \/ subject = "elector" /\ ElectorNext /\ UNCHANGED vars

SuiteSpec == SuiteInit /\ [][SuiteNext]_allVars
=============================================================================
