------------------------------ MODULE SagaProofs ------------------------------
(***************************************************************************)
(* Proofs about Saga, for any instances, processes, drivers, steps and     *)
(* faults.                                                                 *)
(*                                                                         *)
(* That one goroutine executes an instance is proved twice: for the        *)
(* drivers of one process from the instance mutex alone, and between       *)
(* processes from the claim lease, as far as claims are kept.              *)
(* SagaRefinement goes on from there.                                      *)
(***************************************************************************)
EXTENDS Saga, FiniteSetTheorems, WellFoundedInduction, TLAPS

\* One process: the instance mutex is all there is.
OneProcess == \A d, e \in Drivers : Host[d] = Host[e]

\* What the claim lease of ListResumable asks for between processes: no claim runs
\* out under its holder, a fresh row is not taken for an abandoned one, nobody calls
\* Run, which takes no claim, and all that Resume lists finds a slot (otherwise two
\* goroutines may meet in a step).
ClaimsAreKept ==
    /\ Timely /\ OlderThan > 0
    /\ \A p \in Procs : "run" \notin Calls[p]
    /\ IsFiniteSet(Instances) /\ Cardinality(Instances) <= ResumeConcurrency

-------------------------------------------------------------------------------
(* Types, and the copy that a driver holds by where it is.                 *)

CopyAt(q, c) ==
    /\ q \in {"running", "loop", "forward", "advance"} => c.state = "running"
    /\ q = "forward" => c.step < N
    /\ q \in {"failing", "compensate", "compensated", "recovered"} => c.state = "compensating"
    /\ q = "complete" => c.state = "completed"
    /\ q = "finish" => c.state = "failed"

BaseInv ==
    /\ TypeOK
    /\ \A d \in Drivers : CopyAt(pc[d], inst[d])
    /\ \A d \in Drivers : pc[d] # "idle" =>
         target[d] \in Instances /\ row[target[d]].inst.state # "absent"
    /\ \A p \in Procs : \A i \in backlog[p] : row[i].inst.state # "absent"

\* The part of TypeOK about the memory of processes.
ProcTypes ==
    /\ backlog \in [Procs -> SUBSET Instances]
    /\ pc \in [Drivers -> PCs]
    /\ target \in [Drivers -> Instances \cup {Nobody}]
    /\ inst \in [Drivers -> Instance]
    /\ resumed \in [Drivers -> BOOLEAN]
    /\ cancelled \in [Drivers -> BOOLEAN]

RowTypes == [Instances -> [inst : Instance, lease : 0 .. LeaseTicks, age : 0 .. OlderThan + 1]]

\* No row ceases to exist: a pruned one is "gone".
RowsStay ==
    /\ row' \in RowTypes
    /\ \A i \in Instances : row[i].inst.state # "absent" => row'[i].inst.state # "absent"

\* All but d are where they were.
OthersStay(d) ==
    \A e \in Drivers \ {d} : pc'[e] = pc[e] /\ target'[e] = target[e] /\ inst'[e] = inst[e]

LEMMA BlankType ==
  ASSUME SagaAssumption
  PROVE  Blank \in Instance /\ [Blank EXCEPT !.state = "gone"] \in Instance
<1>1. 0 \in 0 .. N
  BY DEF SagaAssumption
<1> QED
  BY <1>1 DEF Blank, Instance, Open, Terminal

LEMMA GotoMoves ==
  ASSUME SagaAssumption, BaseInv, NEW d \in Drivers, NEW q \in PCs, NEW c \in Instance, Goto(d, q, c)
  PROVE  /\ ProcTypes' /\ OthersStay(d) /\ UNCHANGED <<backlog, target>>
         /\ pc'[d] = q /\ inst'[d] = c /\ target'[d] = target[d]
  BY DEF Goto, BaseInv, TypeOK, ProcTypes, OthersStay

LEMMA LeaveMoves ==
  ASSUME SagaAssumption, BaseInv, NEW d \in Drivers, Leave(d)
  PROVE  /\ ProcTypes' /\ OthersStay(d) /\ UNCHANGED backlog
         /\ pc'[d] = "idle" /\ inst'[d] = Blank /\ target'[d] = Nobody
  BY BlankType DEF Leave, BaseInv, TypeOK, ProcTypes, OthersStay, PCs

LEMMA EnterMoves ==
  ASSUME SagaAssumption, BaseInv, NEW d \in Drivers, NEW i \in Instances, NEW b \in BOOLEAN,
         Enter(d, i, b), backlog' \in [Procs -> SUBSET Instances]
  PROVE  /\ ProcTypes' /\ OthersStay(d)
         /\ pc[d] = "idle" /\ pc'[d] = "lock" /\ inst'[d] = inst[d] /\ target'[d] = i
  BY DEF Enter, BaseInv, TypeOK, ProcTypes, OthersStay, PCs

\* A step of one driver keeps BaseInv, if what it holds afterwards fits.
LEMMA BaseKept ==
  ASSUME SagaAssumption, BaseInv, NEW d \in Drivers, ProcTypes', OthersStay(d), RowsStay,
         owed' \in [Instances -> SUBSET Steps], faults' \in 0 .. MaxFaults,
         CopyAt(pc'[d], inst'[d]),
         pc'[d] # "idle" => target'[d] \in Instances /\ row'[target'[d]].inst.state # "absent",
         \A p \in Procs : backlog'[p] \subseteq backlog[p]
  PROVE  BaseInv'
<1>1. TypeOK'
  BY DEF BaseInv, TypeOK, ProcTypes, RowsStay, RowTypes
<1>2. \A e \in Drivers : CopyAt(pc'[e], inst'[e])
  <2> SUFFICES ASSUME NEW e \in Drivers, e # d
               PROVE  CopyAt(pc'[e], inst'[e])
    OBVIOUS
  <2>1. pc'[e] = pc[e] /\ inst'[e] = inst[e]
    BY DEF OthersStay
  <2>2. CopyAt(pc[e], inst[e])
    BY DEF BaseInv
  <2> QED
    BY <2>1, <2>2
<1>3. \A e \in Drivers : pc'[e] # "idle" =>
        target'[e] \in Instances /\ row'[target'[e]].inst.state # "absent"
  BY DEF BaseInv, OthersStay, RowsStay
<1>4. \A p \in Procs : \A i \in backlog'[p] : row'[i].inst.state # "absent"
  BY DEF BaseInv, TypeOK, RowsStay
<1> QED
  BY <1>1, <1>2, <1>3, <1>4 DEF BaseInv, CopyAt

LEMMA FaultBound ==
  ASSUME SagaAssumption, BaseInv, NEW kind, Fault(kind)
  PROVE  faults' \in 0 .. MaxFaults
  BY DEF Fault, BaseInv, TypeOK, SagaAssumption

\* A driver that returns.
LEMMA BaseLeave ==
  ASSUME SagaAssumption, BaseInv, NEW d \in Drivers, Leave(d), RowsStay, UNCHANGED owed,
         faults' \in 0 .. MaxFaults
  PROVE  BaseInv'
<1>1. ProcTypes' /\ OthersStay(d) /\ pc'[d] = "idle" /\ UNCHANGED backlog
  BY LeaveMoves
<1>2. CopyAt(pc'[d], inst'[d])
  BY <1>1 DEF CopyAt
<1>3. owed' \in [Instances -> SUBSET Steps]
  BY DEF BaseInv, TypeOK
<1> QED
  BY <1>1, <1>2, <1>3, BaseKept

\* A driver that goes on.
LEMMA BaseGoto ==
  ASSUME SagaAssumption, BaseInv, NEW d \in Drivers, pc[d] # "idle", NEW q \in PCs, NEW c \in Instance,
         Goto(d, q, c), CopyAt(q, c), RowsStay, owed' \in [Instances -> SUBSET Steps],
         faults' \in 0 .. MaxFaults
  PROVE  BaseInv'
<1>1. /\ ProcTypes' /\ OthersStay(d) /\ UNCHANGED <<backlog, target>>
      /\ pc'[d] = q /\ inst'[d] = c /\ target'[d] = target[d]
  BY GotoMoves
<1>2. target'[d] \in Instances /\ row'[target'[d]].inst.state # "absent"
  BY <1>1 DEF BaseInv, RowsStay
<1> QED
  BY <1>1, <1>2, BaseKept

LEMMA RowsUnchanged ==
  ASSUME BaseInv, UNCHANGED row
  PROVE  RowsStay
  BY DEF BaseInv, TypeOK, RowsStay, RowTypes

\* A field of an Instance that is replaced.
LEMMA InstanceUpdates ==
  ASSUME NEW r \in Instance
  PROVE  /\ \A s \in {"absent", "gone"} \cup Open \cup Terminal : [r EXCEPT !.state = s] \in Instance
         /\ \A n \in 0 .. N : [r EXCEPT !.step = n] \in Instance
         /\ \A K \in SUBSET Steps : [r EXCEPT !.compensated = K] \in Instance
  BY DEF Instance

\* Where a driver goes on after each of the writes.
LEMMA AfterPutValues ==
  /\ Putting = {"running", "advance", "failing", "complete", "compensated", "finish", "recovered"}
  /\ AfterPut["running"] = "loop" /\ AfterPut["advance"] = "loop"
  /\ AfterPut["failing"] = "compensate" /\ AfterPut["compensated"] = "compensate"
  /\ AfterPut["complete"] = "idle" /\ AfterPut["finish"] = "idle" /\ AfterPut["recovered"] = "idle"
  BY DEF Putting, AfterPut

LEMMA WrittenType ==
  ASSUME SagaAssumption, BaseInv, NEW d \in Drivers, pc[d] \in Putting, row' = Written(d)
  PROVE  RowsStay
<1>1. /\ target[d] \in Instances /\ inst[d] \in Instance /\ row \in RowTypes
      /\ LeaseTicks \in 0 .. LeaseTicks /\ 0 \in 0 .. OlderThan + 1
  BY AfterPutValues DEF BaseInv, TypeOK, RowTypes, SagaAssumption
<1>2. inst[d].state # "absent"
  BY AfterPutValues DEF BaseInv, CopyAt
<1>3. row' \in RowTypes
  BY <1>1 DEF Written, RowTypes
<1> QED
  BY <1>1, <1>2, <1>3 DEF Written, RowsStay, RowTypes

LEMMA BaseLock ==
  ASSUME SagaAssumption, BaseInv, NEW d \in Drivers, Lock(d)
  PROVE  BaseInv'
<1>1. RowsStay /\ owed' \in [Instances -> SUBSET Steps] /\ faults' \in 0 .. MaxFaults
  BY RowsUnchanged DEF Lock, BaseInv, TypeOK
<1>2. CopyAt("get", Blank) /\ "get" \in PCs
  BY DEF CopyAt, PCs
<1> QED
  BY <1>1, <1>2, BaseGoto, BlankType DEF Lock

LEMMA BaseGet ==
  ASSUME SagaAssumption, BaseInv, NEW d \in Drivers, Get(d)
  PROVE  BaseInv'
<1> DEFINE read == row[target[d]].inst
<1>1. RowsStay /\ UNCHANGED owed /\ owed' \in [Instances -> SUBSET Steps]
  BY ZenonT(30), RowsUnchanged DEF Get, BaseInv, TypeOK
<1>2. faults' \in 0 .. MaxFaults
  BY FaultBound DEF Get, BaseInv, TypeOK
<1>3. pc[d] = "get" /\ read \in Instance
  BY DEF Get, BaseInv, TypeOK
<1>4. CASE Leave(d)
  BY <1>1, <1>2, <1>4, BaseLeave
<1>5. CASE Goto(d, "running", [read EXCEPT !.state = "running"])
  <2>1. [read EXCEPT !.state = "running"] \in Instance
    BY <1>3, InstanceUpdates DEF Open
  <2>2. CopyAt("running", [read EXCEPT !.state = "running"]) /\ "running" \in PCs
    BY <1>3, AfterPutValues DEF CopyAt, PCs, Instance
  <2> QED
    BY <1>1, <1>2, <1>3, <1>5, <2>1, <2>2, BaseGoto
<1>6. CASE read.state = "compensating" /\ Goto(d, "compensate", read)
  <2>1. CopyAt("compensate", read) /\ "compensate" \in PCs
    BY <1>6 DEF CopyAt, PCs
  <2> QED
    BY <1>1, <1>2, <1>3, <1>6, <2>1, BaseGoto
<1> QED
  BY <1>4, <1>5, <1>6 DEF Get

LEMMA BasePut ==
  ASSUME SagaAssumption, BaseInv, NEW d \in Drivers, Put(d)
  PROVE  BaseInv'
<1>1. RowsStay /\ UNCHANGED owed /\ owed' \in [Instances -> SUBSET Steps]
  BY ZenonT(30), RowsUnchanged, WrittenType DEF Put, BaseInv, TypeOK
<1>2. faults' \in 0 .. MaxFaults
  BY ZenonT(30), FaultBound DEF Put, BaseInv, TypeOK
<1>3. CASE Leave(d)
  BY <1>1, <1>2, <1>3, BaseLeave
<1>4. CASE AfterPut[pc[d]] # "idle" /\ Goto(d, AfterPut[pc[d]], inst[d])
  <2>1. pc[d] \in {"running", "advance", "failing", "compensated"}
    BY <1>4, AfterPutValues DEF Put
  <2>2. inst[d] \in Instance /\ CopyAt(pc[d], inst[d])
    BY DEF BaseInv, TypeOK
  <2>3. CopyAt(AfterPut[pc[d]], inst[d]) /\ AfterPut[pc[d]] \in PCs
    BY <2>1, <2>2, AfterPutValues DEF CopyAt, PCs
  <2> QED
    BY ZenonT(30), <1>1, <1>2, <1>4, <2>1, <2>2, <2>3, BaseGoto
<1> QED
  BY <1>3, <1>4 DEF Put

LEMMA BaseLoop ==
  ASSUME SagaAssumption, BaseInv, NEW d \in Drivers, Loop(d)
  PROVE  BaseInv'
<1>1. /\ RowsStay /\ UNCHANGED owed /\ owed' \in [Instances -> SUBSET Steps]
      /\ faults' \in 0 .. MaxFaults
  BY RowsUnchanged DEF Loop, BaseInv, TypeOK
<1>2. pc[d] = "loop" /\ inst[d] \in Instance /\ CopyAt(pc[d], inst[d])
  BY DEF Loop, BaseInv, TypeOK
<1>3. CASE Leave(d)
  BY <1>1, <1>3, BaseLeave
<1>4. CASE inst[d].step < N /\ Goto(d, "forward", inst[d])
  <2>1. CopyAt("forward", inst[d]) /\ "forward" \in PCs
    BY <1>2, <1>4 DEF CopyAt, PCs
  <2> QED
    BY <1>1, <1>2, <1>4, <2>1, BaseGoto
<1>5. CASE Goto(d, "complete", [inst[d] EXCEPT !.state = "completed"])
  <2>1. [inst[d] EXCEPT !.state = "completed"] \in Instance
    BY <1>2, InstanceUpdates DEF Terminal
  <2>2. CopyAt("complete", [inst[d] EXCEPT !.state = "completed"]) /\ "complete" \in PCs
    BY <1>2, AfterPutValues DEF CopyAt, PCs, Instance
  <2> QED
    BY <1>1, <1>2, <1>5, <2>1, <2>2, BaseGoto
<1> QED
  BY <1>3, <1>4, <1>5 DEF Loop

LEMMA BaseForward ==
  ASSUME SagaAssumption, BaseInv, NEW d \in Drivers, Forward(d)
  PROVE  BaseInv'
<1>1. /\ pc[d] = "forward" /\ inst[d] \in Instance /\ inst[d].state = "running"
      /\ inst[d].step \in 0 .. N /\ inst[d].step < N /\ N \in Nat /\ target[d] \in Instances
  BY DEF Forward, BaseInv, TypeOK, CopyAt, Instance, SagaAssumption
<1>2. RowsStay /\ faults' \in 0 .. MaxFaults
  BY RowsUnchanged, FaultBound DEF Forward, BaseInv, TypeOK
<1>3. owed' \in [Instances -> SUBSET Steps]
  <2>1. inst[d].step \in Steps /\ inst[d].step + 1 \in 0 .. N
    BY <1>1 DEF Steps
  <2> QED
    BY <1>1, <2>1 DEF Forward, BaseInv, TypeOK
<1>4. CASE Goto(d, "advance", [inst[d] EXCEPT !.step = inst[d].step + 1])
  <2>1. [inst[d] EXCEPT !.step = inst[d].step + 1] \in Instance
    <3>1. inst[d].step + 1 \in 0 .. N
      BY <1>1
    <3> QED
      BY <1>1, <3>1, InstanceUpdates
  <2>2. CopyAt("advance", [inst[d] EXCEPT !.step = inst[d].step + 1]) /\ "advance" \in PCs
    BY <1>1, AfterPutValues DEF CopyAt, PCs, Instance
  <2> QED
    BY <1>1, <1>2, <1>3, <1>4, <2>1, <2>2, BaseGoto
<1>5. CASE Goto(d, "failing", [inst[d] EXCEPT !.state = "compensating"])
  <2>1. [inst[d] EXCEPT !.state = "compensating"] \in Instance
    BY <1>1, InstanceUpdates DEF Open
  <2>2. CopyAt("failing", [inst[d] EXCEPT !.state = "compensating"]) /\ "failing" \in PCs
    BY <1>1, AfterPutValues DEF CopyAt, PCs, Instance
  <2> QED
    BY <1>1, <1>2, <1>3, <1>5, <2>1, <2>2, BaseGoto
<1>6. CASE Goto(d, "recover", Blank)
  <2>1. CopyAt("recover", Blank) /\ "recover" \in PCs
    BY DEF CopyAt, PCs
  <2> QED
    BY <1>1, <1>2, <1>3, <1>6, <2>1, BaseGoto, BlankType
<1> QED
  BY <1>4, <1>5, <1>6 DEF Forward

\* FiniteSetsExt's Max of a set of indexes.
LEMMA MaxIsGreatest ==
  ASSUME NEW n \in Nat, NEW S \in SUBSET (0 .. n), S # {}
  PROVE  Max(S) \in S /\ \A k \in S : k <= Max(S)
<1> DEFINE Co == {n - k : k \in S}
           Less == {p \in Nat \X Nat : p[1] < p[2]}
<1>1. Co \subseteq Nat /\ Co # {}
  <2>1. \A k \in S : k \in Int /\ n - k \in Nat
    OBVIOUS
  <2>2. PICK k \in S : TRUE
    OBVIOUS
  <2>3. n - k \in Co
    BY <2>2
  <2>4. Co \subseteq Nat
    BY ZenonT(30), <2>1
  <2> QED
    BY <2>3, <2>4
<1>2. IsWellFoundedOn(Less, Nat)
  BY NatLessThanWellFounded DEF OpToRel
<1>3. PICK m \in Co : \A y \in Co : ~(<<y, m>> \in Less)
  <2> HIDE DEF Co, Less
  <2> QED
    BY ZenonT(30), <1>1, <1>2, WFMin
<1>4. \A y \in Co : ~(y < m)
  BY ZenonT(30), <1>1, <1>3
<1>5. PICK x \in S : m = n - x
  OBVIOUS
<1>6. \A k \in S : n - k \in Co /\ k \in Int /\ x \in Int
  <2>1. \A k \in S : n - k \in Co
    BY ZenonT(30)
  <2>2. \A k \in S : k \in Int
    <3>1. S \subseteq 0 .. n /\ \A k \in 0 .. n : k \in Int
      OBVIOUS
    <3> HIDE DEF Co, Less
    <3> QED
      BY <3>1
  <2> QED
    BY ZenonT(30), <2>1, <2>2
<1>7. \A k \in S : x >= k
  BY <1>4, <1>5, <1>6
<1>8. Max(S) \in S /\ \A y \in S : Max(S) >= y
  BY ZenonT(30), <1>7 DEF Max
<1> QED
  BY <1>6, <1>8

\* The index that driveCompensation takes next.
LEMMA NextUndone ==
  ASSUME SagaAssumption, NEW c \in Instance, Uncompensated(c) # {}
  PROVE  /\ Max(Uncompensated(c)) \in Uncompensated(c)
         /\ Max(Uncompensated(c)) \in Steps
         /\ \A k \in Uncompensated(c) : k <= Max(Uncompensated(c))
<1>1. N - 1 \in Nat /\ Uncompensated(c) \in SUBSET (0 .. N - 1)
  BY DEF SagaAssumption, Uncompensated, Steps
<1>2. Max(Uncompensated(c)) \in Uncompensated(c) /\ \A k \in Uncompensated(c) : k <= Max(Uncompensated(c))
  BY ZenonT(30), <1>1, MaxIsGreatest
<1> QED
  BY <1>2 DEF Uncompensated

LEMMA BaseCompensate ==
  ASSUME SagaAssumption, BaseInv, NEW d \in Drivers, Compensate(d)
  PROVE  BaseInv'
<1> DEFINE k == Max(Uncompensated(inst[d]))
<1>1. /\ pc[d] = "compensate" /\ inst[d] \in Instance /\ inst[d].state = "compensating"
      /\ Uncompensated(inst[d]) # {} /\ target[d] \in Instances
  BY DEF Compensate, BaseInv, TypeOK, CopyAt
<1>2. k \in Steps
  BY <1>1, NextUndone
<1> HIDE DEF k
<1>3. RowsStay /\ faults' \in 0 .. MaxFaults
  BY RowsUnchanged, FaultBound DEF Compensate, BaseInv, TypeOK
<1>4. owed' \in [Instances -> SUBSET Steps]
  BY ZenonT(30), <1>1 DEF Compensate, BaseInv, TypeOK
<1>5. CASE Goto(d, "compensated", [inst[d] EXCEPT !.compensated = inst[d].compensated \cup {k}])
  <2>1. inst[d].compensated \cup {k} \in SUBSET Steps
    BY <1>1, <1>2 DEF Instance
  <2>2. [inst[d] EXCEPT !.compensated = inst[d].compensated \cup {k}] \in Instance
    BY <1>1, <2>1, InstanceUpdates
  <2>3. /\ CopyAt("compensated", [inst[d] EXCEPT !.compensated = inst[d].compensated \cup {k}])
        /\ "compensated" \in PCs
    BY <1>1, AfterPutValues DEF CopyAt, PCs, Instance
  <2> QED
    BY <1>1, <1>3, <1>4, <1>5, <2>2, <2>3, BaseGoto
<1>6. CASE Goto(d, "recover", Blank)
  <2>1. CopyAt("recover", Blank) /\ "recover" \in PCs
    BY DEF CopyAt, PCs
  <2> QED
    BY <1>1, <1>3, <1>4, <1>6, <2>1, BaseGoto, BlankType
<1> QED
  BY <1>5, <1>6 DEF Compensate, k

LEMMA BaseCompensationDone ==
  ASSUME SagaAssumption, BaseInv, NEW d \in Drivers, CompensationDone(d)
  PROVE  BaseInv'
<1>1. pc[d] = "compensate" /\ inst[d] \in Instance
  BY DEF CompensationDone, BaseInv, TypeOK
<1>2. RowsStay /\ owed' \in [Instances -> SUBSET Steps] /\ faults' \in 0 .. MaxFaults
  BY RowsUnchanged DEF CompensationDone, BaseInv, TypeOK
<1>3. [inst[d] EXCEPT !.state = "failed"] \in Instance
  BY <1>1, InstanceUpdates DEF Terminal
<1>4. CopyAt("finish", [inst[d] EXCEPT !.state = "failed"]) /\ "finish" \in PCs
  BY <1>1, AfterPutValues DEF CopyAt, PCs, Instance
<1> QED
  BY <1>1, <1>2, <1>3, <1>4, BaseGoto DEF CompensationDone

LEMMA BaseRecover ==
  ASSUME SagaAssumption, BaseInv, NEW d \in Drivers, Recover(d)
  PROVE  BaseInv'
<1> DEFINE read == row[target[d]].inst
<1>1. RowsStay /\ UNCHANGED owed /\ owed' \in [Instances -> SUBSET Steps]
  BY RowsUnchanged DEF Recover, BaseInv, TypeOK
<1>2. faults' \in 0 .. MaxFaults
  BY FaultBound DEF Recover, BaseInv, TypeOK
<1>3. pc[d] = "recover" /\ read \in Instance
  BY DEF Recover, BaseInv, TypeOK
<1>4. CASE Leave(d)
  BY <1>1, <1>2, <1>4, BaseLeave
<1>5. CASE Goto(d, "recovered", [read EXCEPT !.state = "compensating"])
  <2>1. [read EXCEPT !.state = "compensating"] \in Instance
    BY <1>3, InstanceUpdates DEF Open
  <2>2. CopyAt("recovered", [read EXCEPT !.state = "compensating"]) /\ "recovered" \in PCs
    BY <1>3, AfterPutValues DEF CopyAt, PCs, Instance
  <2> QED
    BY <1>1, <1>2, <1>3, <1>5, <2>1, <2>2, BaseGoto
<1> QED
  BY <1>4, <1>5 DEF Recover

\* A driver that begins.
LEMMA BaseEnter ==
  ASSUME SagaAssumption, BaseInv, NEW d \in Drivers, NEW i \in Instances, NEW b \in BOOLEAN,
         Enter(d, i, b), RowsStay, row'[i].inst.state # "absent", UNCHANGED <<owed, faults>>,
         backlog' \in [Procs -> SUBSET Instances], \A p \in Procs : backlog'[p] \subseteq backlog[p]
  PROVE  BaseInv'
<1>1. ProcTypes' /\ OthersStay(d) /\ pc'[d] = "lock" /\ target'[d] = i
  BY EnterMoves
<1>2. CopyAt(pc'[d], inst'[d])
  BY <1>1 DEF CopyAt
<1>3. owed' \in [Instances -> SUBSET Steps] /\ faults' \in 0 .. MaxFaults
  BY ZenonT(30) DEF BaseInv, TypeOK
<1> QED
  BY ZenonT(30), <1>1, <1>2, <1>3, BaseKept

\* A step that changes rows alone, or what no conjunct but TypeOK mentions.
LEMMA BaseRows ==
  ASSUME SagaAssumption, BaseInv, RowsStay, ProcTypes', UNCHANGED <<backlog, pc, target, inst, owed>>,
         faults' \in 0 .. MaxFaults
  PROVE  BaseInv'
<1>1. TypeOK'
  BY ZenonT(30) DEF BaseInv, TypeOK, ProcTypes, RowsStay, RowTypes
<1>2. \A d \in Drivers : CopyAt(pc'[d], inst'[d])
  BY DEF BaseInv
<1>3. /\ \A d \in Drivers : pc'[d] # "idle" =>
           target'[d] \in Instances /\ row'[target'[d]].inst.state # "absent"
      /\ \A p \in Procs : \A i \in backlog'[p] : row'[i].inst.state # "absent"
  BY ZenonT(30) DEF BaseInv, TypeOK, RowsStay
<1> QED
  BY ZenonT(30), <1>1, <1>2, <1>3 DEF BaseInv, CopyAt

LEMMA InsertedType ==
  ASSUME SagaAssumption, BaseInv, NEW i \in Instances, row' = [row EXCEPT ![i].inst.state = "pending"]
  PROVE  /\ RowsStay /\ row'[i].inst = [row[i].inst EXCEPT !.state = "pending"]
         /\ row'[i].age = row[i].age /\ row'[i].lease = row[i].lease
         /\ row'[i].inst.state = "pending"
         /\ \A j \in Instances \ {i} : row'[j] = row[j]
<1>1. row \in RowTypes /\ row[i] \in [inst : Instance, lease : 0 .. LeaseTicks, age : 0 .. OlderThan + 1]
  BY DEF BaseInv, TypeOK, RowTypes
<1>2. [row[i].inst EXCEPT !.state = "pending"] \in Instance
  BY <1>1, InstanceUpdates DEF Open
<1>3. /\ row'[i] = [row[i] EXCEPT !.inst = [row[i].inst EXCEPT !.state = "pending"]]
      /\ \A j \in Instances \ {i} : row'[j] = row[j]
  BY <1>1 DEF RowTypes
<1>4. /\ row'[i].inst = [row[i].inst EXCEPT !.state = "pending"]
      /\ row'[i].age = row[i].age /\ row'[i].lease = row[i].lease
  BY <1>1, <1>3
<1>5. row'[i].inst.state = "pending"
  BY <1>1, <1>4 DEF Instance
<1>6. row' \in RowTypes
  BY <1>1, <1>2 DEF RowTypes
<1> QED
  BY <1>3, <1>4, <1>5, <1>6 DEF RowsStay

LEMMA BaseStart ==
  ASSUME SagaAssumption, BaseInv, NEW d \in Drivers, NEW i \in Instances, Start(d, i)
  PROVE  BaseInv'
<1>1. RowsStay /\ row'[i].inst.state = "pending"
  BY ZenonT(30), InsertedType DEF Start
<1>2. /\ UNCHANGED <<backlog, owed>> /\ backlog' \in [Procs -> SUBSET Instances]
      /\ owed' \in [Instances -> SUBSET Steps]
  BY ZenonT(30) DEF Start, BaseInv, TypeOK
<1>3. CASE Enter(d, i, FALSE) /\ UNCHANGED faults
  BY ZenonT(30), <1>1, <1>2, <1>3, BaseEnter
<1>4. CASE Fault("db") /\ UNCHANGED <<pc, target, inst, resumed, cancelled>>
  <2>1. ProcTypes' /\ faults' \in 0 .. MaxFaults
    BY ZenonT(30), <1>2, <1>4, FaultBound DEF BaseInv, TypeOK, ProcTypes
  <2> QED
    BY <1>1, <1>2, <1>4, <2>1, BaseRows
<1> QED
  BY ZenonT(30), <1>3, <1>4 DEF Start

LEMMA BaseRun ==
  ASSUME SagaAssumption, BaseInv, NEW d \in Drivers, NEW i \in Instances, Run(d, i)
  PROVE  BaseInv'
<1>1. RowsStay /\ row'[i].inst.state # "absent"
  BY ZenonT(30), RowsUnchanged DEF Run
<1>2. Enter(d, i, FALSE) /\ UNCHANGED <<backlog, owed, faults>> /\ backlog' \in [Procs -> SUBSET Instances]
  BY ZenonT(30) DEF Run, BaseInv, TypeOK
<1> QED
  BY ZenonT(30), <1>1, <1>2, BaseEnter

LEMMA BaseDispatch ==
  ASSUME SagaAssumption, BaseInv, NEW p \in Procs, NEW d \in Drivers, NEW i \in Instances,
         Dispatch(p, d, i)
  PROVE  BaseInv'
<1>1. RowsStay /\ row'[i].inst.state # "absent"
  BY ZenonT(30), RowsUnchanged DEF Dispatch, BaseInv
<1>2. /\ Enter(d, i, TRUE) /\ UNCHANGED <<owed, faults>>
      /\ backlog' \in [Procs -> SUBSET Instances]
      /\ \A q \in Procs : backlog'[q] \subseteq backlog[q]
  BY ZenonT(30) DEF Dispatch, BaseInv, TypeOK
<1> QED
  BY ZenonT(30), <1>1, <1>2, BaseEnter

\* Resume changes nothing of a row but the lease of those it lists.
LEMMA Listed ==
  ASSUME SagaAssumption, BaseInv, NEW p \in Procs, Resume(p)
  PROVE  /\ RowsStay
         /\ \A i \in Instances : row'[i].inst = row[i].inst /\ row'[i].age = row[i].age
         /\ \A i \in Instances : row'[i].lease = IF Resumable(row[i]) THEN LeaseTicks ELSE row[i].lease
         /\ \A q \in Procs, i \in Instances :
              i \in backlog'[q] => i \in backlog[q] \/ (q = p /\ Resumable(row[i]))
         /\ backlog' \in [Procs -> SUBSET Instances]
<1>1. row \in RowTypes /\ LeaseTicks \in 0 .. LeaseTicks
  BY DEF BaseInv, TypeOK, RowTypes, SagaAssumption
<1>2. \A i \in Instances :
        row'[i] = IF Resumable(row[i]) THEN [row[i] EXCEPT !.lease = LeaseTicks] ELSE row[i]
  BY DEF Resume
<1>3. row' \in RowTypes
  <2>1. DOMAIN row' = Instances /\ row' = [i \in Instances |-> row'[i]]
    BY DEF Resume
  <2>2. \A i \in Instances : row'[i] \in [inst : Instance, lease : 0 .. LeaseTicks, age : 0 .. OlderThan + 1]
    BY ZenonT(30), <1>1, <1>2 DEF RowTypes
  <2> QED
    BY <2>1, <2>2 DEF RowTypes
<1>4. \A i \in Instances : row'[i].inst = row[i].inst /\ row'[i].age = row[i].age
  BY ZenonT(30), <1>1, <1>2 DEF RowTypes
<1>5. \A i \in Instances : row'[i].lease = IF Resumable(row[i]) THEN LeaseTicks ELSE row[i].lease
  BY ZenonT(30), <1>1, <1>2 DEF RowTypes
<1>6. /\ \A q \in Procs, i \in Instances :
           i \in backlog'[q] => i \in backlog[q] \/ (q = p /\ Resumable(row[i]))
      /\ backlog' \in [Procs -> SUBSET Instances]
  BY SMTT(10), ZenonT(30) DEF Resume, BaseInv, TypeOK
<1> QED
  BY ZenonT(30), <1>3, <1>4, <1>5, <1>6 DEF RowsStay

LEMMA BaseResume ==
  ASSUME SagaAssumption, BaseInv, NEW p \in Procs, Resume(p)
  PROVE  BaseInv'
<1>1. UNCHANGED <<pc, target, inst, resumed, cancelled, owed>> /\ faults' \in 0 .. MaxFaults
  BY FaultBound DEF Resume, BaseInv, TypeOK
<1>2. TypeOK'
  BY ZenonT(30), <1>1, Listed DEF BaseInv, TypeOK, RowsStay, RowTypes
<1>3. \A d \in Drivers : CopyAt(pc'[d], inst'[d])
  BY ZenonT(30), <1>1 DEF BaseInv
<1>4. \A d \in Drivers : pc'[d] # "idle" =>
        target'[d] \in Instances /\ row'[target'[d]].inst.state # "absent"
  BY ZenonT(30), <1>1, Listed DEF BaseInv
<1>5. \A q \in Procs : \A i \in backlog'[q] : row'[i].inst.state # "absent"
  <2> SUFFICES ASSUME NEW q \in Procs, NEW i \in backlog'[q]
               PROVE  row'[i].inst.state # "absent"
    BY ZenonT(30)
  <2>1. i \in Instances
    BY Listed
  <2>2. i \in backlog[q] \/ Resumable(row[i])
    BY <2>1, Listed
  <2>3. row[i].inst.state # "absent"
    BY <2>2 DEF BaseInv, Resumable, Open
  <2> QED
    BY ZenonT(30), <2>1, <2>3, Listed
<1> QED
  BY ZenonT(30), <1>2, <1>3, <1>4, <1>5 DEF BaseInv, CopyAt

LEMMA BaseCancel ==
  ASSUME SagaAssumption, BaseInv, NEW d \in Drivers, Cancel(d)
  PROVE  BaseInv'
<1>1. RowsStay /\ UNCHANGED <<backlog, pc, target, inst, owed>> /\ faults' \in 0 .. MaxFaults
  BY RowsUnchanged, FaultBound DEF Cancel
<1>2. ProcTypes'
  BY ZenonT(30) DEF Cancel, BaseInv, TypeOK, ProcTypes
<1> QED
  BY <1>1, <1>2, BaseRows

\* A crash takes the drivers of its process with it, and no others.
LEMMA CrashMoves ==
  ASSUME SagaAssumption, BaseInv, NEW p \in Procs, Crash(p)
  PROVE  /\ ProcTypes'
         /\ \A d \in Drivers : pc'[d] # "idle" =>
              pc'[d] = pc[d] /\ target'[d] = target[d] /\ inst'[d] = inst[d]
         /\ \A q \in Procs : backlog'[q] \subseteq backlog[q]
<1>1. \A d \in Drivers : pc'[d] # "idle" =>
        pc'[d] = pc[d] /\ target'[d] = target[d] /\ inst'[d] = inst[d]
  BY ZenonT(30) DEF Crash
<1>2. backlog' \in [Procs -> SUBSET Instances] /\ \A q \in Procs : backlog'[q] \subseteq backlog[q]
  BY ZenonT(30) DEF Crash, BaseInv, TypeOK
<1>3. pc' \in [Drivers -> PCs] /\ target' \in [Drivers -> Instances \cup {Nobody}]
  BY ZenonT(30) DEF Crash, BaseInv, TypeOK, PCs
<1>4. inst' \in [Drivers -> Instance]
  BY BlankType DEF Crash, BaseInv, TypeOK
<1>5. resumed' \in [Drivers -> BOOLEAN] /\ cancelled' \in [Drivers -> BOOLEAN]
  BY ZenonT(30) DEF Crash, BaseInv, TypeOK
<1> QED
  BY ZenonT(30), <1>1, <1>2, <1>3, <1>4, <1>5 DEF ProcTypes

LEMMA BaseCrash ==
  ASSUME SagaAssumption, BaseInv, NEW p \in Procs, Crash(p)
  PROVE  BaseInv'
<1>1. UNCHANGED <<row, owed>> /\ RowsStay /\ faults' \in 0 .. MaxFaults
  BY ZenonT(30), RowsUnchanged, FaultBound DEF Crash
<1>2. TypeOK'
  BY ZenonT(30), <1>1, CrashMoves DEF BaseInv, TypeOK, ProcTypes
<1>3. \A d \in Drivers : CopyAt(pc'[d], inst'[d])
  <2> SUFFICES ASSUME NEW d \in Drivers
               PROVE  CopyAt(pc'[d], inst'[d])
    OBVIOUS
  <2>1. CASE pc'[d] = "idle"
    BY <2>1 DEF CopyAt
  <2>2. CASE pc'[d] # "idle"
    BY ZenonT(30), <2>2, CrashMoves DEF BaseInv
  <2> QED
    BY <2>1, <2>2
<1>4. \A d \in Drivers : pc'[d] # "idle" =>
        target'[d] \in Instances /\ row'[target'[d]].inst.state # "absent"
  BY ZenonT(30), <1>1, CrashMoves DEF BaseInv
<1>5. \A q \in Procs : \A i \in backlog'[q] : row'[i].inst.state # "absent"
  BY ZenonT(30), <1>1, CrashMoves DEF BaseInv
<1> QED
  BY <1>2, <1>3, <1>4, <1>5 DEF BaseInv, CopyAt

LEMMA PrunedRow ==
  ASSUME SagaAssumption, BaseInv, NEW i \in Instances, Prune(i)
  PROVE  /\ RowsStay /\ row'[i].inst = [Blank EXCEPT !.state = "gone"]
         /\ row'[i].inst.state = "gone" /\ row'[i].inst.compensated = {}
         /\ \A j \in Instances \ {i} : row'[j] = row[j]
<1>1. row \in RowTypes /\ [Blank EXCEPT !.state = "gone"] \in Instance
  BY BlankType DEF BaseInv, TypeOK, RowTypes
<1>2. 0 \in 0 .. LeaseTicks /\ 0 \in 0 .. OlderThan + 1
  BY DEF SagaAssumption
<1>3. /\ row'[i] = [inst |-> [Blank EXCEPT !.state = "gone"], lease |-> 0, age |-> 0]
      /\ \A j \in Instances \ {i} : row'[j] = row[j]
  BY <1>1 DEF Prune, RowTypes
<1>4. row' \in RowTypes
  BY <1>1, <1>2 DEF Prune, RowTypes
<1>5. /\ [Blank EXCEPT !.state = "gone"].state = "gone"
      /\ [Blank EXCEPT !.state = "gone"].compensated = {}
  BY DEF Blank
<1>6. row'[i].inst = [Blank EXCEPT !.state = "gone"]
  BY <1>3
<1> QED
  BY ZenonT(30), <1>3, <1>4, <1>5, <1>6 DEF RowsStay

LEMMA BasePrune ==
  ASSUME SagaAssumption, BaseInv, NEW i \in Instances, Prune(i)
  PROVE  BaseInv'
<1>1. UNCHANGED <<backlog, pc, target, inst, resumed, cancelled, owed, faults>>
  BY DEF Prune, procVars
<1>2. ProcTypes' /\ faults' \in 0 .. MaxFaults
  BY ZenonT(30), <1>1 DEF BaseInv, TypeOK, ProcTypes
<1> QED
  BY <1>1, <1>2, PrunedRow, BaseRows

\* Time does not change what a row says.
LEMMA OlderRow ==
  ASSUME SagaAssumption,
         NEW r \in [inst : Instance, lease : 0 .. LeaseTicks, age : 0 .. OlderThan + 1]
  PROVE  /\ Older(r) \in [inst : Instance, lease : 0 .. LeaseTicks, age : 0 .. OlderThan + 1]
         /\ Older(r).inst = r.inst
         /\ r.inst.state \notin Open => Older(r) = r
<1>1. /\ LeaseTicks \in Nat /\ OlderThan \in Nat
      /\ r.lease \in 0 .. LeaseTicks /\ r.age \in 0 .. OlderThan + 1
  BY DEF SagaAssumption
<1>2. /\ (IF r.lease = 0 THEN 0 ELSE r.lease - 1) \in 0 .. LeaseTicks
      /\ (IF r.age > OlderThan THEN r.age ELSE r.age + 1) \in 0 .. OlderThan + 1
  BY <1>1
<1> QED
  BY ZenonT(30), <1>2 DEF Older

LEMMA TickedRows ==
  ASSUME SagaAssumption, BaseInv, Tick
  PROVE  RowsStay /\ \A i \in Instances : row'[i] = Older(row[i]) /\ row'[i].inst = row[i].inst
<1>1. /\ \A i \in Instances :
           row[i] \in [inst : Instance, lease : 0 .. LeaseTicks, age : 0 .. OlderThan + 1]
      /\ row' = [i \in Instances |-> Older(row[i])]
  BY ZenonT(30) DEF Tick, BaseInv, TypeOK
<1>2. \A i \in Instances :
        /\ Older(row[i]) \in [inst : Instance, lease : 0 .. LeaseTicks, age : 0 .. OlderThan + 1]
        /\ Older(row[i]).inst = row[i].inst
  BY <1>1, OlderRow
<1> QED
  BY <1>1, <1>2 DEF RowsStay, RowTypes

LEMMA BaseTick ==
  ASSUME SagaAssumption, BaseInv, Tick
  PROVE  BaseInv'
<1>1. UNCHANGED <<backlog, pc, target, inst, resumed, cancelled, owed, faults>>
  BY DEF Tick, procVars
<1>2. ProcTypes' /\ faults' \in 0 .. MaxFaults
  BY ZenonT(30), <1>1 DEF BaseInv, TypeOK, ProcTypes
<1> QED
  BY <1>1, <1>2, TickedRows, BaseRows

LEMMA BaseInit ==
  ASSUME SagaAssumption, Init
  PROVE  BaseInv
<1>1. 0 \in 0 .. LeaseTicks /\ 0 \in 0 .. OlderThan + 1 /\ 0 \in 0 .. MaxFaults
  BY DEF SagaAssumption
<1>2. TypeOK
  BY <1>1, BlankType DEF Init, TypeOK, PCs
<1> QED
  BY ZenonT(30), <1>2 DEF Init, BaseInv, CopyAt

LEMMA BaseNext ==
  ASSUME SagaAssumption, BaseInv, [Next]_vars
  PROVE  BaseInv'
<1>1. ASSUME NEW d \in Drivers, DriverStep(d) \/ Cancel(d)
      PROVE  BaseInv'
  BY <1>1, BaseLock, BaseGet, BasePut, BaseLoop, BaseForward, BaseCompensate,
     BaseCompensationDone, BaseRecover, BaseCancel DEF DriverStep
<1>2. ASSUME NEW d \in Drivers, NEW i \in Instances, Start(d, i) \/ Run(d, i) \/ Dispatch(Host[d], d, i)
      PROVE  BaseInv'
  <2>1. Host[d] \in Procs
    BY DEF SagaAssumption
  <2> QED
    BY <1>2, <2>1, BaseStart, BaseRun, BaseDispatch
<1>3. ASSUME NEW p \in Procs, Resume(p) \/ Crash(p)
      PROVE  BaseInv'
  BY <1>3, BaseResume, BaseCrash
<1>4. ASSUME NEW i \in Instances, Prune(i)
      PROVE  BaseInv'
  BY <1>4, BasePrune
<1>5. CASE UNCHANGED vars
  <2>1. UNCHANGED <<backlog, pc, target, inst, resumed, cancelled, owed, faults>> /\ RowsStay
    BY <1>5, RowsUnchanged DEF vars, procVars
  <2>2. ProcTypes' /\ faults' \in 0 .. MaxFaults
    BY ZenonT(30), <2>1 DEF BaseInv, TypeOK, ProcTypes
  <2> QED
    BY <2>1, <2>2, BaseRows
<1> QED
  BY <1>1, <1>2, <1>3, <1>4, <1>5, BaseTick DEF Next

\* Every row and every driver stays well typed: no step index runs past the
\* definition, whatever is called, cancelled, crashed or lost.
THEOREM SagaTypes == ASSUME SagaAssumption PROVE Spec => []BaseInv
<1>1. Init => BaseInv
  BY BaseInit
<1>2. BaseInv /\ [Next]_vars => BaseInv'
  BY BaseNext
<1> QED
  BY <1>1, <1>2, PTL DEF Spec

-------------------------------------------------------------------------------
(* One driver: the mutex.                                                  *)

\* Between lockInstance and the deferred unlock.
Busy(d) == pc[d] \notin {"idle", "lock"}

\* One goroutine executes an instance.
SoleDriver ==
    \A d, e \in Drivers : Busy(d) /\ Busy(e) /\ target[d] = target[e] => d = e

\* A driver's step ends in Goto or in Leave, and writes no row but its own.
LEMMA DriverMoves ==
  ASSUME SagaAssumption, BaseInv, NEW d \in Drivers, DriverStep(d)
  PROVE  /\ pc[d] # "idle" /\ pc'[d] # "lock" /\ (pc[d] = "lock" => Lock(d))
         /\ pc'[d] # "idle" => target'[d] = target[d]
         /\ OthersStay(d) /\ UNCHANGED backlog
         /\ UNCHANGED row \/ (pc[d] \in Putting /\ row' = Written(d))
<1>1. ASSUME NEW q \in PCs \ {"idle", "lock"}, NEW c, Goto(d, q, c)
      PROVE  /\ pc'[d] # "lock" /\ (pc'[d] # "idle" => target'[d] = target[d])
             /\ OthersStay(d) /\ UNCHANGED backlog
  BY ZenonT(30), <1>1 DEF Goto, BaseInv, TypeOK, OthersStay
<1>2. ASSUME Leave(d)
      PROVE  /\ pc'[d] # "lock" /\ (pc'[d] # "idle" => target'[d] = target[d])
             /\ OthersStay(d) /\ UNCHANGED backlog
  BY <1>2, LeaveMoves
<1>3. {"get", "running", "compensate", "loop", "forward", "complete", "advance", "failing", "recover",
       "compensated", "finish", "recovered"} \subseteq PCs \ {"idle", "lock"}
  BY AfterPutValues DEF PCs
<1>4. CASE Lock(d)
  BY ZenonT(30), <1>1, <1>3, <1>4 DEF Lock
<1>5. CASE Get(d)
  BY <1>1, <1>2, <1>3, <1>5 DEF Get
<1>6. CASE Put(d)
  <2>1. AfterPut[pc[d]] = "idle" \/ AfterPut[pc[d]] \in PCs \ {"idle", "lock"}
    BY ZenonT(30), <1>3, <1>6, AfterPutValues DEF Put
  <2>2. pc[d] \in Putting /\ pc[d] \notin {"idle", "lock"}
    BY ZenonT(30), <1>6, AfterPutValues DEF Put
  <2> QED
    BY ZenonT(30), <1>1, <1>2, <1>6, <2>1, <2>2 DEF Put
<1>7. CASE Loop(d)
  BY <1>1, <1>2, <1>3, <1>7 DEF Loop
<1>8. CASE Forward(d)
  BY <1>1, <1>3, <1>8 DEF Forward
<1>9. CASE Compensate(d)
  BY <1>1, <1>3, <1>9 DEF Compensate
<1>10. CASE CompensationDone(d)
  BY <1>1, <1>3, <1>10 DEF CompensationDone
<1>11. CASE Recover(d)
  BY <1>1, <1>2, <1>3, <1>11 DEF Recover
<1> QED
  BY ZenonT(30), <1>4, <1>5, <1>6, <1>7, <1>8, <1>9, <1>10, <1>11 DEF DriverStep

\* A step that is no driver's lets nobody into an instance.
LEMMA NobodyEnters ==
  ASSUME SagaAssumption, BaseInv, [Next]_vars, ~\E d \in Drivers : DriverStep(d)
  PROVE  \A d \in Drivers : Busy(d)' => Busy(d) /\ target'[d] = target[d]
<1>1. ASSUME NEW d \in Drivers, NEW i \in Instances, Start(d, i) \/ Run(d, i) \/ Dispatch(Host[d], d, i)
      PROVE  \A e \in Drivers : Busy(e)' => Busy(e) /\ target'[e] = target[e]
  <2>1. CASE UNCHANGED <<pc, target>>
    BY ZenonT(30), <2>1 DEF Busy
  <2>2. CASE \E b \in BOOLEAN : Enter(d, i, b)
    BY ZenonT(30), <2>2 DEF Enter, Busy, BaseInv, TypeOK
  <2> QED
    BY ZenonT(30), <1>1, <2>1, <2>2 DEF Start, Run, Dispatch
<1>2. ASSUME NEW p \in Procs, Crash(p)
      PROVE  \A e \in Drivers : Busy(e)' => Busy(e) /\ target'[e] = target[e]
  BY ZenonT(30), <1>2, CrashMoves DEF Busy
<1>3. CASE UNCHANGED <<pc, target>>
  BY <1>3 DEF Busy
<1> QED
  BY <1>1, <1>2, <1>3 DEF Next, Cancel, Resume, Prune, Tick, vars, procVars

\* lockInstance keeps the drivers of one process apart.
LEMMA MutexStep ==
  ASSUME SagaAssumption, BaseInv, SoleDriver, OneProcess, [Next]_vars
  PROVE  SoleDriver'
<1>1. CASE \E d \in Drivers : DriverStep(d)
  <2>1. PICK d \in Drivers : DriverStep(d)
    BY <1>1
  <2>2. \A e \in Drivers \ {d} : pc'[e] = pc[e] /\ target'[e] = target[e]
    BY ZenonT(30), <2>1, DriverMoves DEF OthersStay
  <2>3. CASE Lock(d)
    <3>1. \A e \in Drivers : Busy(e) => target[e] # target[d]
      BY ZenonT(30), <2>3 DEF Lock, Executing, DriversOf, OneProcess, Busy
    <3>2. target'[d] = target[d]
      BY <2>3 DEF Lock, Goto
    <3> QED
      BY SMTT(30), <2>2, <3>1, <3>2 DEF SoleDriver, Busy
  <2>4. CASE ~Lock(d)
    <3>1. Busy(d)
      BY ZenonT(30), <2>1, <2>4, DriverMoves DEF Busy
    <3>2. Busy(d)' => target'[d] = target[d]
      BY <2>1, DriverMoves DEF Busy
    <3> QED
      BY <2>2, <3>1, <3>2 DEF SoleDriver, Busy
  <2> QED
    BY <2>3, <2>4
<1>2. CASE ~\E d \in Drivers : DriverStep(d)
  <2>1. \A d \in Drivers : Busy(d)' => Busy(d) /\ target'[d] = target[d]
    BY <1>2, NobodyEnters
  <2> QED
    BY <2>1 DEF SoleDriver, Busy
<1> QED
  BY <1>1, <1>2

-------------------------------------------------------------------------------
(* One driver: the claims.                                                 *)

\* Under claims an instance is with one driver or in one backlog, also before the
\* mutex is taken,
OneHolder ==
    /\ \A d, e \in Drivers :
         pc[d] # "idle" /\ pc[e] # "idle" /\ target[d] = target[e] => d = e
    /\ \A d \in Drivers, p \in Procs : pc[d] # "idle" => target[d] \notin backlog[p]
    /\ \A p, q \in Procs : \A i \in backlog[p] \cap backlog[q] : p = q

\* and no Resume can list it again.
HeldIsClaimed ==
    /\ \A d \in Drivers : pc[d] # "idle" => ~Resumable(row[target[d]])
    /\ \A p \in Procs : \A i \in backlog[p] : ~Resumable(row[i])
    /\ \A i \in Instances : row[i].inst.state = "absent" => row[i].age = 0

ClaimInv == OneHolder /\ HeldIsClaimed

\* Giving an instance up, and writing a row that nobody can list, keep the claims.
LEMMA HoldersShrink ==
  ASSUME SagaAssumption, BaseInv, ClaimInv,
         \A d \in Drivers : pc'[d] # "idle" => pc[d] # "idle" /\ target'[d] = target[d],
         \A p \in Procs : backlog'[p] \subseteq backlog[p],
         \A i \in Instances : Resumable(row'[i]) => Resumable(row[i]),
         \A i \in Instances : row'[i].inst.state = "absent" =>
                                row[i].inst.state = "absent" /\ row'[i].age = row[i].age
  PROVE  ClaimInv'
<1>1. OneHolder'
  BY ZenonT(30) DEF ClaimInv, OneHolder
<1>2. \A d \in Drivers : pc'[d] # "idle" => ~Resumable(row'[target'[d]])
  BY ZenonT(30) DEF ClaimInv, HeldIsClaimed, BaseInv
<1>3. \A p \in Procs : \A i \in backlog'[p] : ~Resumable(row'[i])
  BY ZenonT(30) DEF ClaimInv, HeldIsClaimed, BaseInv, TypeOK
<1>4. \A i \in Instances : row'[i].inst.state = "absent" => row'[i].age = 0
  BY ZenonT(30) DEF ClaimInv, HeldIsClaimed
<1> QED
  BY ZenonT(30), <1>1, <1>2, <1>3, <1>4 DEF ClaimInv, HeldIsClaimed, Resumable

LEMMA ClaimsDriver ==
  ASSUME SagaAssumption, BaseInv, ClaimInv, NEW d \in Drivers, DriverStep(d)
  PROVE  ClaimInv'
<1>1. \A e \in Drivers : pc'[e] # "idle" => pc[e] # "idle" /\ target'[e] = target[e]
  BY ZenonT(30), DriverMoves DEF OthersStay
<1>2. UNCHANGED backlog
  BY ZenonT(30), DriverMoves
<1>3. CASE UNCHANGED row
  BY ZenonT(30), <1>1, <1>2, <1>3, HoldersShrink
<1>4. CASE pc[d] \in Putting /\ row' = Written(d)
  <2>1. target[d] \in Instances /\ inst[d].state # "absent" /\ LeaseTicks # 0
    BY ZenonT(30), <1>4, AfterPutValues DEF BaseInv, CopyAt, SagaAssumption
  <2>2. /\ row'[target[d]].inst = inst[d] /\ row'[target[d]].lease = LeaseTicks
        /\ \A i \in Instances \ {target[d]} : row'[i] = row[i]
    BY ZenonT(30), <1>4, <2>1 DEF Written, BaseInv, TypeOK
  <2>3. \A i \in Instances : Resumable(row'[i]) => Resumable(row[i])
    BY ZenonT(30), <2>1, <2>2 DEF Resumable
  <2>4. \A i \in Instances : row'[i].inst.state = "absent" =>
          row[i].inst.state = "absent" /\ row'[i].age = row[i].age
    BY ZenonT(30), <2>1, <2>2
  <2> QED
    BY ZenonT(30), <1>1, <1>2, <2>3, <2>4, HoldersShrink
<1> QED
  BY ZenonT(30), <1>3, <1>4, DriverMoves

\* An instance that nobody holds is taken by one driver, out of the reach of Resume.
LEMMA ClaimsEnter ==
  ASSUME SagaAssumption, BaseInv, ClaimInv, NEW d \in Drivers, NEW i \in Instances,
         OthersStay(d), pc[d] = "idle", target'[d] = i,
         \A e \in Drivers : pc[e] # "idle" => target[e] # i,
         \A p \in Procs : i \notin backlog'[p] /\ backlog'[p] \subseteq backlog[p],
         \A j \in Instances \ {i} : row'[j] = row[j], ~Resumable(row'[i]),
         row'[i].inst.state # "absent"
  PROVE  ClaimInv'
<1>1. OneHolder'
  <2>1. \A e \in Drivers \ {d} : pc'[e] = pc[e] /\ target'[e] = target[e]
    BY ZenonT(30) DEF OthersStay
  <2>2. \A e, f \in Drivers :
          pc'[e] # "idle" /\ pc'[f] # "idle" /\ target'[e] = target'[f] => e = f
    BY SMTT(30), <2>1 DEF ClaimInv, OneHolder
  <2>3. \A e \in Drivers, p \in Procs : pc'[e] # "idle" => target'[e] \notin backlog'[p]
    BY ZenonT(30), <2>1 DEF ClaimInv, OneHolder
  <2>4. \A p, q \in Procs : \A j \in backlog'[p] \cap backlog'[q] : p = q
    BY ZenonT(30) DEF ClaimInv, OneHolder
  <2> QED
    BY ZenonT(30), <2>2, <2>3, <2>4 DEF OneHolder
<1>2. \A e \in Drivers : pc'[e] # "idle" => ~Resumable(row'[target'[e]])
  <2> SUFFICES ASSUME NEW e \in Drivers, pc'[e] # "idle"
               PROVE  ~Resumable(row'[target'[e]])
    BY ZenonT(30)
  <2>1. CASE e = d
    BY ZenonT(30), <2>1
  <2>2. CASE e # d
    <3>1. pc[e] # "idle" /\ target'[e] = target[e] /\ target[e] \in Instances \ {i}
      BY ZenonT(30), <2>2 DEF BaseInv, OthersStay
    <3>2. row'[target'[e]] = row[target[e]] /\ ~Resumable(row[target[e]])
      BY ZenonT(30), <3>1 DEF ClaimInv, HeldIsClaimed
    <3> QED
      BY ZenonT(30), <3>2
  <2> QED
    BY ZenonT(30), <2>1, <2>2
<1>3. \A p \in Procs : \A j \in backlog'[p] : ~Resumable(row'[j])
  BY ZenonT(30) DEF ClaimInv, HeldIsClaimed, BaseInv, TypeOK
<1>4. \A j \in Instances : row'[j].inst.state = "absent" => row'[j].age = 0
  BY ZenonT(30) DEF ClaimInv, HeldIsClaimed
<1> QED
  BY ZenonT(30), <1>1, <1>2, <1>3, <1>4 DEF ClaimInv, HeldIsClaimed, Resumable

LEMMA ClaimsStart ==
  ASSUME SagaAssumption, ClaimsAreKept, BaseInv, ClaimInv, NEW d \in Drivers, NEW i \in Instances,
         Start(d, i)
  PROVE  ClaimInv'
<1>1. /\ row[i].inst.state = "absent" /\ row[i].age = 0
      /\ row' = [row EXCEPT ![i].inst.state = "pending"]
  BY ZenonT(30) DEF Start, ClaimInv, HeldIsClaimed
<1>2. /\ row'[i].inst.state = "pending" /\ row'[i].age = 0
      /\ \A j \in Instances \ {i} : row'[j] = row[j]
  BY ZenonT(30), <1>1, InsertedType
<1>3. ~Resumable(row'[i])
  BY SMTT(30), <1>2 DEF Resumable, ClaimsAreKept, SagaAssumption
<1>4. /\ \A e \in Drivers : pc[e] # "idle" => target[e] # i
      /\ \A p \in Procs : i \notin backlog[p]
  BY <1>1 DEF BaseInv
<1>5. UNCHANGED backlog
  BY ZenonT(30) DEF Start
<1>6. CASE Enter(d, i, FALSE)
  <2>1. OthersStay(d) /\ pc[d] = "idle" /\ target'[d] = i
    BY ZenonT(30), <1>5, <1>6, EnterMoves DEF BaseInv, TypeOK
  <2> QED
    BY ZenonT(30), <1>2, <1>3, <1>4, <1>5, <2>1, ClaimsEnter
<1>7. CASE UNCHANGED <<pc, target, inst>>
  <2>1. \A j \in Instances : Resumable(row'[j]) => Resumable(row[j])
    BY ZenonT(30), <1>2, <1>3
  <2>2. \A j \in Instances : row'[j].inst.state = "absent" =>
          row[j].inst.state = "absent" /\ row'[j].age = row[j].age
    BY ZenonT(30), <1>2
  <2> QED
    BY ZenonT(30), <1>5, <1>7, <2>1, <2>2, HoldersShrink
<1> QED
  BY ZenonT(30), <1>6, <1>7 DEF Start

LEMMA ClaimsDispatch ==
  ASSUME SagaAssumption, BaseInv, ClaimInv, NEW p \in Procs, NEW d \in Drivers, NEW i \in Instances,
         Dispatch(p, d, i)
  PROVE  ClaimInv'
<1>1. /\ i \in backlog[p] /\ UNCHANGED row /\ Enter(d, i, TRUE)
      /\ backlog' = [backlog EXCEPT ![p] = backlog[p] \ {i}]
      /\ backlog' \in [Procs -> SUBSET Instances]
  BY ZenonT(30) DEF Dispatch, BaseInv, TypeOK
<1>2. OthersStay(d) /\ pc[d] = "idle" /\ target'[d] = i
  BY ZenonT(30), <1>1, EnterMoves
<1>3. \A e \in Drivers : pc[e] # "idle" => target[e] # i
  BY ZenonT(30), <1>1 DEF ClaimInv, OneHolder
<1>4. \A q \in Procs : i \notin backlog'[q] /\ backlog'[q] \subseteq backlog[q]
  BY ZenonT(30), <1>1 DEF ClaimInv, OneHolder, BaseInv, TypeOK
<1>5. ~Resumable(row'[i]) /\ row'[i].inst.state # "absent"
  BY ZenonT(30), <1>1 DEF ClaimInv, HeldIsClaimed, BaseInv
<1> QED
  BY ZenonT(30), <1>1, <1>2, <1>3, <1>4, <1>5, ClaimsEnter

LEMMA ClaimsResume ==
  ASSUME SagaAssumption, BaseInv, ClaimInv, NEW p \in Procs, Resume(p)
  PROVE  ClaimInv'
<1>1. UNCHANGED <<pc, target>> /\ LeaseTicks # 0
  BY DEF Resume, SagaAssumption
<1>2. \A i \in Instances : ~Resumable(row'[i])
  BY ZenonT(30), <1>1, Listed DEF Resumable
<1>3. \A q \in Procs : \A i \in backlog'[q] :
        i \in Instances /\ (i \in backlog[q] \/ (q = p /\ Resumable(row[i])))
  BY ZenonT(30), Listed
<1>4. OneHolder'
  <2>1. \A d \in Drivers, q \in Procs : pc'[d] # "idle" => target'[d] \notin backlog'[q]
    BY ZenonT(30), <1>1, <1>3 DEF ClaimInv, OneHolder, HeldIsClaimed
  <2>2. \A q, s \in Procs : \A i \in backlog'[q] \cap backlog'[s] : q = s
    BY ZenonT(30), <1>3 DEF ClaimInv, OneHolder, HeldIsClaimed
  <2> QED
    BY ZenonT(30), <1>1, <2>1, <2>2 DEF ClaimInv, OneHolder
<1>5. \A i \in Instances : row'[i].inst.state = "absent" => row'[i].age = 0
  BY ZenonT(30), Listed DEF ClaimInv, HeldIsClaimed
<1>6. \A d \in Drivers : pc'[d] # "idle" => ~Resumable(row'[target'[d]])
  BY ZenonT(30), <1>1, <1>2 DEF BaseInv
<1>7. \A q \in Procs : \A i \in backlog'[q] : ~Resumable(row'[i])
  BY ZenonT(30), <1>2, <1>3
<1> QED
  BY ZenonT(30), <1>4, <1>5, <1>6, <1>7 DEF ClaimInv, HeldIsClaimed, Resumable

\* What waits in a backlog finds a slot: the goroutines of Resume have different
\* instances, and none of them this one.
LEMMA BacklogFindsSlot ==
  ASSUME SagaAssumption, ClaimsAreKept, BaseInv, OneHolder, NEW p \in Procs, NEW i \in backlog[p]
  PROVE  FreeSlot(p)
<1> DEFINE D == {d \in DriversOf(p) : resumed[d] /\ pc[d] # "idle"}
           Rest == Instances \ {i}
           f == [d \in D |-> target[d]]
<1>1. i \in Instances
  BY ZenonT(30) DEF BaseInv, TypeOK
<1>2. /\ IsFiniteSet(Rest) /\ Cardinality(Rest) = Cardinality(Instances) - 1
      /\ Cardinality(Instances) \in Nat
  BY ZenonT(30), <1>1, FS_RemoveElement, FS_CardinalityType DEF ClaimsAreKept
<1>3. \A d \in D : d \in Drivers /\ pc[d] # "idle"
  BY DEF DriversOf
<1>4. f \in Injection(D, Rest)
  <2>1. f \in [D -> Rest]
    BY SMTT(30), <1>3 DEF OneHolder, BaseInv
  <2>2. \A d, e \in D : f[d] = f[e] => d = e
    BY ZenonT(30), <1>3 DEF OneHolder
  <2> QED
    BY ZenonT(30), <2>1, <2>2 DEF Injection, IsInjective
<1>5. IsFiniteSet(D) /\ Cardinality(D) <= Cardinality(Rest)
  <2> HIDE DEF D, Rest, f
  <2> QED
    BY ZenonT(30), <1>2, <1>4, FS_Injection
<1>6. Cardinality(D) \in Nat
  BY ZenonT(30), <1>5, FS_CardinalityType
<1>7. ResumeConcurrency \in Nat /\ Cardinality(Instances) <= ResumeConcurrency
  BY ZenonT(30) DEF SagaAssumption, ClaimsAreKept
<1>8. Cardinality(D) < ResumeConcurrency
  <2> HIDE DEF D, Rest
  <2> QED
    BY SMTT(30), <1>2, <1>5, <1>6, <1>7
<1> QED
  BY ZenonT(30), <1>8 DEF FreeSlot

LEMMA ClaimsTick ==
  ASSUME SagaAssumption, ClaimsAreKept, BaseInv, ClaimInv, Tick
  PROVE  ClaimInv'
<1>1. UNCHANGED <<pc, target, backlog>>
  BY DEF Tick, procVars
<1>2. \A p \in Procs, i \in Instances : Working(p, i) => ~Resumable(row'[i])
  BY ZenonT(30), TickedRows DEF Tick, ClaimsAreKept
<1>3. \A d \in Drivers : pc'[d] # "idle" => ~Resumable(row'[target'[d]])
  <2> SUFFICES ASSUME NEW d \in Drivers, pc[d] # "idle"
               PROVE  ~Resumable(row'[target[d]])
    BY ZenonT(30), <1>1
  <2>1. Host[d] \in Procs /\ target[d] \in Instances
    BY ZenonT(30) DEF SagaAssumption, BaseInv
  <2>2. Working(Host[d], target[d])
    BY ZenonT(30) DEF Working, DriversOf
  <2> QED
    BY ZenonT(30), <1>2, <2>1, <2>2
<1>4. \A p \in Procs : \A i \in backlog'[p] : ~Resumable(row'[i])
  <2> SUFFICES ASSUME NEW p \in Procs, NEW i \in backlog[p]
               PROVE  ~Resumable(row'[i])
    BY <1>1
  <2>1. i \in Instances
    BY ZenonT(30) DEF BaseInv, TypeOK
  <2>2. Working(p, i)
    BY ZenonT(30), BacklogFindsSlot DEF Working, ClaimInv
  <2> QED
    BY ZenonT(30), <1>2, <2>1, <2>2
<1>5. \A i \in Instances : row'[i].inst.state = "absent" => row'[i].age = 0
  <2> SUFFICES ASSUME NEW i \in Instances, row'[i].inst.state = "absent"
               PROVE  row'[i].age = 0
    OBVIOUS
  <2>1. row'[i] = Older(row[i]) /\ row[i].inst.state = "absent"
    BY ZenonT(30), TickedRows
  <2>2. row'[i] = row[i]
    BY <2>1 DEF Older, Open
  <2> QED
    BY ZenonT(30), <2>1, <2>2 DEF ClaimInv, HeldIsClaimed
<1>6. OneHolder'
  BY ZenonT(30), <1>1 DEF ClaimInv, OneHolder
<1> QED
  BY ZenonT(30), <1>3, <1>4, <1>5, <1>6 DEF ClaimInv, HeldIsClaimed, Resumable

LEMMA ClaimsCrash ==
  ASSUME SagaAssumption, BaseInv, ClaimInv, NEW p \in Procs, Crash(p)
  PROVE  ClaimInv'
<1>1. UNCHANGED row
  BY ZenonT(30) DEF Crash
<1> QED
  BY ZenonT(30), <1>1, CrashMoves, HoldersShrink

LEMMA ClaimsPrune ==
  ASSUME SagaAssumption, BaseInv, ClaimInv, NEW i \in Instances, Prune(i)
  PROVE  ClaimInv'
<1>1. UNCHANGED <<pc, target, backlog>>
  BY DEF Prune, procVars
<1>2. \A j \in Instances : Resumable(row'[j]) => Resumable(row[j])
  BY PrunedRow DEF Resumable, Open
<1>3. \A j \in Instances : row'[j].inst.state = "absent" =>
        row[j].inst.state = "absent" /\ row'[j].age = row[j].age
  BY PrunedRow
<1> QED
  BY ZenonT(30), <1>1, <1>2, <1>3, HoldersShrink

LEMMA ClaimsNext ==
  ASSUME SagaAssumption, ClaimsAreKept, BaseInv, ClaimInv, [Next]_vars
  PROVE  ClaimInv'
<1>1. ASSUME NEW d \in Drivers, Cancel(d)
      PROVE  ClaimInv'
  BY ZenonT(30), <1>1, HoldersShrink DEF Cancel
<1>2. ASSUME NEW d \in Drivers, NEW i \in Instances, Start(d, i) \/ Run(d, i) \/ Dispatch(Host[d], d, i)
      PROVE  ClaimInv'
  <2>1. Host[d] \in Procs
    BY ZenonT(30) DEF SagaAssumption
  <2> QED
    BY ZenonT(30), <1>2, <2>1, ClaimsStart, ClaimsDispatch DEF Run, ClaimsAreKept
<1>3. CASE UNCHANGED vars
  BY ZenonT(30), <1>3, HoldersShrink DEF vars, procVars
<1> QED
  BY ZenonT(30), <1>1, <1>2, <1>3, ClaimsDriver, ClaimsResume, ClaimsCrash, ClaimsPrune, ClaimsTick DEF Next

-------------------------------------------------------------------------------
(* The theorems about exclusion.                                           *)

LEMMA OneExecutes ==
  ASSUME SagaAssumption, OneProcess \/ ClaimsAreKept
  PROVE  Spec => [](BaseInv /\ SoleDriver)
<1>1. CASE OneProcess
  <2>1. Init => BaseInv /\ SoleDriver
    BY ZenonT(30), BaseInit DEF Init, SoleDriver, Busy
  <2>2. BaseInv /\ SoleDriver /\ [Next]_vars => BaseInv' /\ SoleDriver'
    BY <1>1, BaseNext, MutexStep
  <2> QED
    BY <2>1, <2>2, PTL DEF Spec
<1>2. CASE ClaimsAreKept
  <2>1. Init => BaseInv /\ ClaimInv
    BY BaseInit DEF Init, ClaimInv, OneHolder, HeldIsClaimed
  <2>2. BaseInv /\ ClaimInv /\ [Next]_vars => BaseInv' /\ ClaimInv'
    BY <1>2, BaseNext, ClaimsNext
  <2>3. BaseInv /\ ClaimInv => SoleDriver
    BY ZenonT(30) DEF ClaimInv, OneHolder, SoleDriver, Busy
  <2> QED
    BY <2>1, <2>2, <2>3, PTL DEF Spec
<1> QED
  BY <1>1, <1>2

\* At most one goroutine is inside the steps of an instance, whatever mix of Start,
\* Run and Resume is called: within one process by the mutex of lockInstance, however
\* late a driver is, and between processes by the claim of ListResumable, while
\* claims are kept.
THEOREM ExecutionIsExclusive ==
  ASSUME SagaAssumption, OneProcess \/ ClaimsAreKept
  PROVE  Spec => []ExclusiveExecution
<1>1. SoleDriver => ExclusiveExecution
  <2> SUFFICES ASSUME SoleDriver, NEW i \in Instances
               PROVE  Cardinality({d \in Drivers : target[d] = i /\ InStep(d)}) <= 1
    BY DEF ExclusiveExecution
  <2> DEFINE D == {d \in Drivers : target[d] = i /\ InStep(d)}
  <2>1. \A d, e \in D : d = e
    BY ZenonT(30) DEF SoleDriver, Busy, InStep
  <2>2. CASE D = {}
    BY <2>2, FS_EmptySet
  <2>3. CASE \E d \in D : D = {d}
    BY <2>3, FS_Singleton
  <2> QED
    BY ZenonT(30), <2>1, <2>2, <2>3
<1> QED
  BY <1>1, OneExecutes, PTL
===============================================================================
