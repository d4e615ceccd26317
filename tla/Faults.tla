-------------------------------- MODULE Faults --------------------------------
(***************************************************************************)
(* The budget of faults that the components below share: a crash, a failed *)
(* call, a lost answer, an unusual timing.  Nothing makes a fault happen.  *)
(***************************************************************************)
EXTENDS Naturals

CONSTANT MaxFaults   \* bound: how many faults a behaviour has

ASSUME FaultsAssumption == MaxFaults \in Nat

VARIABLE faults

Fault == faults < MaxFaults /\ faults' = faults + 1
================================================================================
