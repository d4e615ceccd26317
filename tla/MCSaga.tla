-------------------------------- MODULE MCSaga --------------------------------
(***************************************************************************)
(* Instances of Saga for TLC: drivers are pairs of a process and a number. *)
(***************************************************************************)
EXTENDS Saga, TLC

CONSTANTS p1, p2, i1, i2

TwoInOne == {<<p1, 1>>, <<p1, 2>>}

OneEach == {<<p1, 1>>, <<p2, 1>>}

HostOf == [d \in Drivers |-> d[1]]

AllCalls == [p \in Procs |-> {"start", "run", "resume"}]

StartAndResume == [p \in Procs |-> {"start", "resume"}]
================================================================================
