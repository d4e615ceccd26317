---------------------------- MODULE SagaRefinement ----------------------------
(***************************************************************************)
(* From one driver per instance (SagaProofs): what the row of an instance  *)
(* says is true of its steps, and the executor over the store implements   *)
(* SagaContract.                                                           *)
(***************************************************************************)
EXTENDS SagaProofs

\* What is in effect (o) by the checkpoint (r): the steps before it, and perhaps the
\* one whose checkpoint was lost; on the way back without those that were undone.
RowIs(r, o) ==
    /\ r.state \in {"absent", "pending"} => r.step = 0 /\ r.compensated = {} /\ o = {}
    /\ r.state = "running" =>
         r.compensated = {} /\ 0 .. r.step - 1 \subseteq o /\ o \subseteq 0 .. r.step
    /\ r.state \in {"compensating", "failed"} => r.compensated \cap o = {} /\ o \subseteq 0 .. r.step
    /\ r.state = "completed" => r.compensated = {} /\ r.step = N /\ o = Steps
    /\ r.state = "gone" => r.compensated = {}

\* A driver's copy (c) is its row, but for what it is about to write.
CopyIs(q, c, r, o) ==
    /\ q = "running" => r.state \in {"pending", "running"} /\ c = [r EXCEPT !.state = "running"]
    /\ q \in {"loop", "forward", "compensate"} => c = r
    /\ q = "advance" =>
         r.state = "running" /\ r.step < N /\ r.step \in o /\ c = [r EXCEPT !.step = r.step + 1]
    /\ q = "failing" => r.state = "running" /\ c = [r EXCEPT !.state = "compensating"]
    /\ q = "complete" => r.state = "running" /\ r.step = N /\ c = [r EXCEPT !.state = "completed"]
    /\ q = "compensated" =>
         /\ r.state = "compensating"
         /\ \E k \in Uncompensated(r) \ o : c = [r EXCEPT !.compensated = r.compensated \cup {k}]
    /\ q = "finish" =>
         r.state = "compensating" /\ Uncompensated(r) = {} /\ c = [r EXCEPT !.state = "failed"]
    /\ q = "recover" => r.state \in {"running", "compensating"}
    /\ q = "recovered" => r.state \in Open /\ c = [r EXCEPT !.state = "compensating"]

WorkInv ==
    /\ \A i \in Instances : RowIs(row[i].inst, owed[i])
    /\ \A d \in Drivers : Busy(d) => CopyIs(pc[d], inst[d], row[target[d]].inst, owed[target[d]])

\* The steps of one driver on its instance, without the rest of the state.
RowStays(t) == \A i \in Instances \ {t} : row'[i].inst = row[i].inst /\ owed'[i] = owed[i]

\* What d does to its instance disturbs no other driver: no other is in it.
LEMMA WorkKept ==
  ASSUME SagaAssumption, BaseInv, SoleDriver, WorkInv, NEW d \in Drivers, Busy(d), OthersStay(d),
         RowStays(target[d]), RowIs(row'[target[d]].inst, owed'[target[d]]),
         Busy(d)' => /\ target'[d] = target[d]
                     /\ CopyIs(pc'[d], inst'[d], row'[target[d]].inst, owed'[target[d]])
  PROVE  WorkInv'
<1>1. \A i \in Instances : RowIs(row'[i].inst, owed'[i])
  <2> SUFFICES ASSUME NEW i \in Instances, i # target[d]
               PROVE  RowIs(row'[i].inst, owed'[i])
    OBVIOUS
  <2>1. row'[i].inst = row[i].inst /\ owed'[i] = owed[i]
    BY DEF RowStays
  <2>2. RowIs(row[i].inst, owed[i])
    BY DEF WorkInv
  <2> QED
    BY <2>1, <2>2
<1>2. \A e \in Drivers : Busy(e)' => CopyIs(pc'[e], inst'[e], row'[target'[e]].inst, owed'[target'[e]])
  <2> SUFFICES ASSUME NEW e \in Drivers, e # d, Busy(e)'
               PROVE  CopyIs(pc'[e], inst'[e], row'[target'[e]].inst, owed'[target'[e]])
    OBVIOUS
  <2>1. Busy(e) /\ pc'[e] = pc[e] /\ target'[e] = target[e] /\ inst'[e] = inst[e]
    BY DEF OthersStay, Busy
  <2>2. target[e] \in Instances \ {target[d]}
    BY <2>1 DEF SoleDriver, BaseInv, Busy
  <2>3. row'[target[e]].inst = row[target[e]].inst /\ owed'[target[e]] = owed[target[e]]
    BY <2>2 DEF RowStays
  <2>4. CopyIs(pc[e], inst[e], row[target[e]].inst, owed[target[e]])
    BY <2>1 DEF WorkInv
  <2> QED
    BY <2>1, <2>3, <2>4
<1> QED
  BY ZenonT(30), <1>1, <1>2 DEF WorkInv, RowIs, CopyIs, Uncompensated

\* A step that changes nothing of rows but leases and ages, and takes nobody in.
LEMMA WorkUndisturbed ==
  ASSUME SagaAssumption, BaseInv, WorkInv, UNCHANGED owed,
         \A i \in Instances : row'[i].inst = row[i].inst,
         \A d \in Drivers : Busy(d)' => Busy(d) /\ pc'[d] = pc[d] /\ target'[d] = target[d] /\ inst'[d] = inst[d]
  PROVE  WorkInv'
<1>1. \A i \in Instances : RowIs(row'[i].inst, owed'[i])
  BY DEF WorkInv
<1>2. \A d \in Drivers : Busy(d)' => CopyIs(pc'[d], inst'[d], row'[target'[d]].inst, owed'[target'[d]])
  <2> SUFFICES ASSUME NEW d \in Drivers, Busy(d)'
               PROVE  CopyIs(pc'[d], inst'[d], row'[target'[d]].inst, owed'[target'[d]])
    OBVIOUS
  <2>1. Busy(d) /\ pc'[d] = pc[d] /\ target'[d] = target[d] /\ inst'[d] = inst[d] /\ target[d] \in Instances
    BY DEF BaseInv, Busy
  <2>2. CopyIs(pc[d], inst[d], row[target[d]].inst, owed[target[d]])
    BY <2>1 DEF WorkInv
  <2> QED
    BY <2>1, <2>2
<1> QED
  BY ZenonT(30), <1>1, <1>2 DEF WorkInv, RowIs, CopyIs, Uncompensated

-------------------------------------------------------------------------------
(* What each step does to a row, a copy and what is in effect.             *)

\* The places and the values of a busy driver.
LEMMA BusyTypes ==
  ASSUME SagaAssumption, BaseInv, WorkInv, NEW d \in Drivers, Busy(d)
  PROVE  /\ target[d] \in Instances /\ row[target[d]].inst \in Instance /\ inst[d] \in Instance
         /\ owed[target[d]] \in SUBSET Steps
         /\ CopyAt(pc[d], inst[d])
         /\ RowIs(row[target[d]].inst, owed[target[d]])
         /\ CopyIs(pc[d], inst[d], row[target[d]].inst, owed[target[d]])
<1>1. target[d] \in Instances
  BY DEF BaseInv, Busy
<1>2. row[target[d]].inst \in Instance /\ inst[d] \in Instance /\ owed[target[d]] \in SUBSET Steps
  BY <1>1 DEF BaseInv, TypeOK
<1> QED
  BY ZenonT(30), <1>1, <1>2 DEF BaseInv, WorkInv

\* The write of a checkpoint makes the row the driver's copy, and that is true of
\* what is in effect.
LEMMA PutIsTrue ==
  ASSUME SagaAssumption, NEW q \in Putting, NEW c \in Instance, NEW r \in Instance,
         NEW o \in SUBSET Steps, RowIs(r, o), CopyIs(q, c, r, o), CopyAt(q, c)
  PROVE  RowIs(c, o) /\ CopyIs(AfterPut[q], c, c, o)
<1>0. N \in Nat /\ r.step \in 0 .. N /\ r.compensated \in SUBSET Steps
  BY DEF SagaAssumption, Instance
<1>1. CASE q = "running"
  <2>1. c.state = "running" /\ c.step = r.step /\ c.compensated = r.compensated
    BY <1>1 DEF CopyIs, Instance
  <2>2. r.state \in {"pending", "running"}
    BY <1>1 DEF CopyIs
  <2>3. RowIs(c, o)
    BY <1>0, <2>1, <2>2 DEF RowIs
  <2> QED
    BY <1>1, <2>3, AfterPutValues DEF CopyIs
<1>2. CASE q = "advance"
  <2>1. c.state = "running" /\ c.step = r.step + 1 /\ c.compensated = r.compensated
    BY <1>0, <1>2 DEF CopyIs, Instance
  <2>2. r.state = "running" /\ r.step \in o /\ r.compensated = {} /\ 0 .. r.step - 1 \subseteq o /\ o \subseteq 0 .. r.step
    BY <1>2 DEF CopyIs, RowIs
  <2>3. 0 .. c.step - 1 \subseteq o /\ o \subseteq 0 .. c.step
    BY <1>0, <2>1, <2>2
  <2>4. RowIs(c, o)
    BY <2>1, <2>2, <2>3 DEF RowIs
  <2> QED
    BY <1>2, <2>4, AfterPutValues DEF CopyIs
<1>3. CASE q = "failing"
  <2>1. c.state = "compensating" /\ c.step = r.step /\ c.compensated = r.compensated /\ r.state = "running"
    BY <1>3 DEF CopyIs, Instance
  <2>2. RowIs(c, o)
    BY <2>1 DEF RowIs
  <2> QED
    BY <1>3, <2>2, AfterPutValues DEF CopyIs
<1>4. CASE q = "complete"
  <2>1. /\ c.state = "completed" /\ c.step = r.step /\ c.compensated = r.compensated
        /\ r.state = "running" /\ r.step = N
    BY <1>4 DEF CopyIs, Instance
  <2>2. o = Steps /\ r.compensated = {}
    BY ZenonT(30), <1>0, <2>1 DEF RowIs, Steps
  <2>3. RowIs(c, o)
    BY <2>1, <2>2 DEF RowIs
  <2> QED
    BY <1>4, <2>3, AfterPutValues DEF CopyIs
<1>5. CASE q = "compensated"
  <2>1. PICK k \in Uncompensated(r) \ o : c = [r EXCEPT !.compensated = r.compensated \cup {k}]
    BY <1>5 DEF CopyIs
  <2>2. /\ c.state = "compensating" /\ c.step = r.step /\ c.compensated = r.compensated \cup {k}
        /\ r.state = "compensating"
    BY <1>5, <2>1 DEF CopyIs, Instance
  <2>3. RowIs(c, o)
    BY <2>1, <2>2 DEF RowIs
  <2> QED
    BY <1>5, <2>3, AfterPutValues DEF CopyIs
<1>6. CASE q = "finish"
  <2>1. /\ c.state = "failed" /\ c.step = r.step /\ c.compensated = r.compensated
        /\ r.state = "compensating"
    BY <1>6 DEF CopyIs, Instance
  <2>2. RowIs(c, o)
    BY <2>1 DEF RowIs
  <2> QED
    BY <1>6, <2>2, AfterPutValues DEF CopyIs
<1>7. CASE q = "recovered"
  <2>1. /\ c.state = "compensating" /\ c.step = r.step /\ c.compensated = r.compensated
        /\ r.state \in Open
    BY <1>7 DEF CopyIs, Instance
  <2>2. RowIs(c, o)
    BY <1>0, <2>1 DEF RowIs, Open
  <2> QED
    BY <1>7, <2>2, AfterPutValues DEF CopyIs
<1> QED
  BY <1>1, <1>2, <1>3, <1>4, <1>5, <1>6, <1>7, AfterPutValues

\* What a caller learns of an instance from the state of its row.
FateOf(s) == IF s \in {"pending", "running"} THEN "open"
             ELSE IF s = "compensating" THEN "undoing" ELSE s

\* A step of the contract, or none.
Promised == Contract!Next \/ UNCHANGED <<Fate, owed>>

LEMMA FateMoves ==
  ASSUME NEW t \in Instances, \A i \in Instances \ {t} : row'[i].inst.state = row[i].inst.state
  PROVE  /\ Fate[t] = FateOf(row[t].inst.state)
         /\ Fate' = [Fate EXCEPT ![t] = FateOf(row'[t].inst.state)]
         /\ FateOf(row'[t].inst.state) = FateOf(row[t].inst.state) => Fate' = Fate
<1>1. Fate = [i \in Instances |-> FateOf(row[i].inst.state)]
  BY DEF Fate, FateOf
<1>2. Fate' = [i \in Instances |-> FateOf(row'[i].inst.state)]
  BY DEF Fate, FateOf
<1> QED
  BY <1>1, <1>2

LEMMA FateStays ==
  ASSUME \A i \in Instances : row'[i].inst = row[i].inst
  PROVE  Fate' = Fate
  BY DEF Fate

LEMMA SameCardinality == \A S : Contract!Cardinality(S) = Cardinality(S)
  BY DEF Contract!Cardinality, Cardinality

\* The writes a caller can notice.
LEMMA PutIsPromised ==
  ASSUME SagaAssumption, NEW t \in Instances, NEW q \in Putting, NEW c \in Instance,
         row[t].inst \in Instance, owed[t] \in SUBSET Steps, UNCHANGED owed,
         RowIs(row[t].inst, owed[t]), CopyIs(q, c, row[t].inst, owed[t]), row'[t].inst = c,
         \A i \in Instances \ {t} : row'[i].inst = row[i].inst
  PROVE  Promised
<1> DEFINE r == row[t].inst
<1>0. /\ Fate[t] = FateOf(r.state) /\ Fate' = [Fate EXCEPT ![t] = FateOf(c.state)]
      /\ FateOf(c.state) = FateOf(r.state) => Fate' = Fate
  BY ZenonT(30), FateMoves
<1>1. CASE q \in {"running", "advance", "compensated"}
  <2>1. FateOf(c.state) = FateOf(r.state)
    BY ZenonT(30), <1>1 DEF CopyIs, FateOf, Instance
  <2> QED
    BY <1>0, <2>1 DEF Promised
<1>2. CASE q \in {"failing", "recovered"}
  <2>1. c.state = "compensating" /\ r.state \in Open
    BY ZenonT(30), <1>2 DEF CopyIs, Instance, Open
  <2>2. FateOf(c.state) = FateOf(r.state) \/ (FateOf(r.state) = "open" /\ FateOf(c.state) = "undoing")
    BY ZenonT(30), <2>1 DEF FateOf, Open
  <2> QED
    BY ZenonT(30), <1>0, <2>2 DEF Promised, Contract!Next, Contract!Moves
<1>3. CASE q = "complete"
  <2>1. c.state = "completed" /\ r.state = "running" /\ r.step = N
    BY <1>3 DEF CopyIs, Instance
  <2>2. owed[t] = Contract!Steps
    BY ZenonT(30), <2>1 DEF RowIs, Steps, Contract!Steps, SagaAssumption
  <2>3. FateOf(r.state) = "open" /\ FateOf(c.state) = "completed"
    BY <2>1 DEF FateOf
  <2> QED
    BY ZenonT(30), <1>0, <2>2, <2>3 DEF Promised, Contract!Next, Contract!Moves
<1>4. CASE q = "finish"
  <2>1. c.state = "failed" /\ r.state = "compensating" /\ Uncompensated(r) = {}
    BY <1>4 DEF CopyIs, Instance
  <2>2. owed[t] \subseteq {r.step}
    BY <2>1 DEF RowIs, Uncompensated, Steps, Instance, SagaAssumption
  <2>3. Cardinality(owed[t]) <= 1
    <3>1. owed[t] = {} \/ owed[t] = {r.step}
      BY <2>2
    <3>2. Cardinality({}) = 0 /\ Cardinality({r.step}) = 1
      BY ZenonT(30), FS_EmptySet, FS_Singleton
    <3> QED
      BY <3>1, <3>2
  <2>4. FateOf(r.state) = "undoing" /\ FateOf(c.state) = "failed"
    BY <2>1 DEF FateOf
  <2>5. Contract!Moves(t, "undoing", "failed")
    BY <1>0, <2>4 DEF Contract!Moves
  <2>6. Contract!Next
    BY ZenonT(30), <2>3, <2>5, SameCardinality DEF Contract!Next
  <2> QED
    BY <2>6 DEF Promised
<1> QED
  BY SMTT(10), ZenonT(30), <1>1, <1>2, <1>3, <1>4, AfterPutValues

-------------------------------------------------------------------------------
(* The steps of a driver.                                                  *)

LEMMA WorkLeave ==
  ASSUME SagaAssumption, BaseInv, SoleDriver, WorkInv, NEW d \in Drivers, Busy(d), Leave(d),
         UNCHANGED <<row, owed>>
  PROVE  WorkInv' /\ Promised
<1>1. OthersStay(d) /\ pc'[d] = "idle"
  BY LeaveMoves
<1>2. RowIs(row'[target[d]].inst, owed'[target[d]])
  BY ZenonT(30), BusyTypes
<1> QED
  BY ZenonT(30), <1>1, <1>2, WorkKept, FateStays DEF RowStays, Busy, Promised

\* A driver that goes on without having written.
LEMMA WorkGoto ==
  ASSUME SagaAssumption, BaseInv, SoleDriver, WorkInv, NEW d \in Drivers, Busy(d),
         NEW q \in PCs, NEW c \in Instance, Goto(d, q, c), UNCHANGED row, RowStays(target[d]),
         RowIs(row[target[d]].inst, owed'[target[d]]),
         CopyIs(q, c, row[target[d]].inst, owed'[target[d]])
  PROVE  WorkInv'
<1>1. OthersStay(d) /\ pc'[d] = q /\ inst'[d] = c /\ target'[d] = target[d]
  BY ZenonT(30), GotoMoves
<1> QED
  BY ZenonT(30), <1>1, WorkKept

LEMMA WorkLock ==
  ASSUME SagaAssumption, BaseInv, SoleDriver, WorkInv, NEW d \in Drivers, Lock(d)
  PROVE  WorkInv' /\ Promised
<1>1. UNCHANGED <<row, owed>> /\ Goto(d, "get", Blank) /\ "get" \in PCs
  BY DEF Lock, PCs
<1>2. OthersStay(d) /\ pc'[d] = "get" /\ UNCHANGED target
  BY <1>1, GotoMoves, BlankType
<1>3. \A e \in Drivers : Busy(e)' => CopyIs(pc'[e], inst'[e], row'[target'[e]].inst, owed'[target'[e]])
  <2>1. CopyIs(pc'[d], inst'[d], row'[target'[d]].inst, owed'[target'[d]])
    BY <1>2 DEF CopyIs
  <2>2. ASSUME NEW e \in Drivers, e # d, Busy(e)'
        PROVE  CopyIs(pc'[e], inst'[e], row'[target'[e]].inst, owed'[target'[e]])
    <3>1. Busy(e) /\ pc'[e] = pc[e] /\ target'[e] = target[e] /\ inst'[e] = inst[e]
      BY <1>2, <2>2 DEF OthersStay, Busy
    <3>2. CopyIs(pc[e], inst[e], row[target[e]].inst, owed[target[e]])
      BY <3>1 DEF WorkInv
    <3> QED
      BY <1>1, <3>1, <3>2
  <2> QED
    BY ZenonT(30), <2>1, <2>2
<1>4. \A i \in Instances : RowIs(row'[i].inst, owed'[i])
  BY ZenonT(30), <1>1 DEF WorkInv
<1>5. WorkInv'
  BY ZenonT(30), <1>3, <1>4 DEF WorkInv, RowIs, CopyIs, Uncompensated
<1> QED
  BY <1>1, <1>5, FateStays DEF Promised

LEMMA WorkGet ==
  ASSUME SagaAssumption, BaseInv, SoleDriver, WorkInv, NEW d \in Drivers, Get(d)
  PROVE  WorkInv' /\ Promised
<1> DEFINE read == row[target[d]].inst
<1>1. UNCHANGED <<row, owed>> /\ Busy(d) /\ RowStays(target[d])
  BY ZenonT(30) DEF Get, Busy, RowStays
<1>2. read \in Instance /\ RowIs(read, owed'[target[d]])
  BY ZenonT(30), <1>1, BusyTypes
<1>3. Promised
  BY <1>1, FateStays DEF Promised
<1>4. CASE Leave(d)
  BY <1>1, <1>4, WorkLeave
<1>5. CASE /\ read.state \in {"pending", "running"}
           /\ Goto(d, "running", [read EXCEPT !.state = "running"])
  <2>1. [read EXCEPT !.state = "running"] \in Instance /\ "running" \in PCs
    BY <1>2, InstanceUpdates, AfterPutValues DEF Open, PCs
  <2>2. CopyIs("running", [read EXCEPT !.state = "running"], read, owed'[target[d]])
    BY <1>5 DEF CopyIs
  <2> QED
    BY ZenonT(30), <1>1, <1>2, <1>3, <1>5, <2>1, <2>2, WorkGoto
<1>6. CASE read.state = "compensating" /\ Goto(d, "compensate", read)
  <2>1. CopyIs("compensate", read, read, owed'[target[d]]) /\ "compensate" \in PCs
    BY DEF CopyIs, PCs
  <2> QED
    BY ZenonT(30), <1>1, <1>2, <1>3, <1>6, <2>1, WorkGoto
<1> QED
  BY ZenonT(30), <1>4, <1>5, <1>6 DEF Get

LEMMA WorkPut ==
  ASSUME SagaAssumption, BaseInv, SoleDriver, WorkInv, NEW d \in Drivers, Put(d)
  PROVE  WorkInv' /\ Promised
<1> DEFINE t == target[d]
           r == row[t].inst
           c == inst[d]
<1>1. Busy(d) /\ pc[d] \in Putting /\ UNCHANGED owed
  BY ZenonT(30), AfterPutValues DEF Put, Busy
<1>2. /\ t \in Instances /\ r \in Instance /\ c \in Instance /\ owed[t] \in SUBSET Steps
      /\ RowIs(r, owed[t]) /\ CopyIs(pc[d], c, r, owed[t]) /\ CopyAt(pc[d], c)
  BY ZenonT(30), <1>1, BusyTypes
<1>3. CASE row' = Written(d)
  <2>1. row'[t].inst = c /\ \A i \in Instances \ {t} : row'[i] = row[i]
    BY ZenonT(30), <1>2, <1>3 DEF Written, BaseInv, TypeOK
  <2>2. RowIs(c, owed[t]) /\ CopyIs(AfterPut[pc[d]], c, c, owed[t])
    BY ZenonT(30), <1>1, <1>2, PutIsTrue
  <2>3. Promised
    BY ZenonT(30), <1>1, <1>2, <2>1, PutIsPromised
  <2>4. RowStays(t)
    BY <1>1, <2>1 DEF RowStays
  <2>5. CASE Leave(d)
    <3>1. OthersStay(d) /\ pc'[d] = "idle"
      BY <2>5, LeaveMoves
    <3> QED
      BY ZenonT(30), <1>1, <2>1, <2>2, <2>3, <2>4, <3>1, WorkKept DEF Busy
  <2>6. CASE AfterPut[pc[d]] # "idle" /\ Goto(d, AfterPut[pc[d]], c)
    <3>1. AfterPut[pc[d]] \in PCs
      BY ZenonT(30), <1>1, <2>6, AfterPutValues DEF PCs
    <3>2. OthersStay(d) /\ pc'[d] = AfterPut[pc[d]] /\ inst'[d] = c /\ target'[d] = t
      BY ZenonT(30), <1>2, <2>6, <3>1, GotoMoves
    <3> QED
      BY ZenonT(30), <1>1, <2>1, <2>2, <2>3, <2>4, <3>2, WorkKept
  <2> QED
    BY ZenonT(30), <1>3, <2>5, <2>6 DEF Put
<1>4. CASE UNCHANGED row /\ Leave(d)
  BY <1>1, <1>4, WorkLeave
<1> QED
  BY ZenonT(30), <1>3, <1>4 DEF Put

LEMMA WorkLoop ==
  ASSUME SagaAssumption, BaseInv, SoleDriver, WorkInv, NEW d \in Drivers, Loop(d)
  PROVE  WorkInv' /\ Promised
<1> DEFINE r == row[target[d]].inst
<1>1. UNCHANGED <<row, owed>> /\ Busy(d) /\ RowStays(target[d]) /\ pc[d] = "loop"
  BY DEF Loop, Busy, RowStays
<1>2. r \in Instance /\ inst[d] = r /\ r.state = "running" /\ RowIs(r, owed'[target[d]])
  BY ZenonT(30), <1>1, BusyTypes DEF CopyIs, CopyAt
<1>3. Promised
  BY <1>1, FateStays DEF Promised
<1>4. CASE Leave(d)
  BY <1>1, <1>4, WorkLeave
<1>5. CASE Goto(d, "forward", inst[d])
  <2>1. CopyIs("forward", r, r, owed'[target[d]]) /\ "forward" \in PCs
    BY DEF CopyIs, PCs
  <2> QED
    BY ZenonT(30), <1>1, <1>2, <1>3, <1>5, <2>1, WorkGoto
<1>6. CASE inst[d].step = N /\ Goto(d, "complete", [inst[d] EXCEPT !.state = "completed"])
  <2>1. [r EXCEPT !.state = "completed"] \in Instance /\ "complete" \in PCs
    BY ZenonT(30), <1>2, InstanceUpdates, AfterPutValues DEF Terminal, PCs
  <2>2. CopyIs("complete", [r EXCEPT !.state = "completed"], r, owed'[target[d]])
    BY ZenonT(30), <1>2, <1>6 DEF CopyIs
  <2> QED
    BY <1>1, <1>2, <1>3, <1>6, <2>1, <2>2, WorkGoto
<1> QED
  BY <1>4, <1>5, <1>6 DEF Loop

\* A step that took effect before its checkpoint, in the row and in the promise.
LEMMA StepIsTaken ==
  ASSUME SagaAssumption, NEW t \in Instances, row[t].inst \in Instance, owed \in [Instances -> SUBSET Steps],
         row[t].inst.state = "running", row[t].inst.step < N, UNCHANGED row, RowIs(row[t].inst, owed[t]),
         owed' = [owed EXCEPT ![t] = owed[t] \cup {row[t].inst.step}]
  PROVE  /\ RowIs(row[t].inst, owed'[t]) /\ Promised
         /\ row[t].inst.step \in owed'[t] /\ RowStays(t)
<1> DEFINE r == row[t].inst
<1>1. r.step \in 0 .. N /\ N \in Nat
  BY ZenonT(30) DEF Instance, SagaAssumption
<1>2. owed'[t] = owed[t] \cup {r.step} /\ RowStays(t)
  BY ZenonT(30) DEF RowStays
<1>3. 0 .. r.step - 1 \subseteq owed[t] /\ owed[t] \subseteq 0 .. r.step /\ r.compensated = {}
  BY ZenonT(30) DEF RowIs
<1>4. RowIs(r, owed'[t])
  <2>1. 0 .. r.step - 1 \subseteq owed'[t] /\ owed'[t] \subseteq 0 .. r.step
    BY SMTT(30), <1>1, <1>2, <1>3
  <2> QED
    BY ZenonT(30), <1>3, <2>1 DEF RowIs
<1>5. Contract!Take(t, r.step) /\ r.step \in Contract!Steps
  <2>1. Fate[t] = "open" /\ UNCHANGED Fate
    BY ZenonT(30), FateStays DEF Fate
  <2>2. r.step \in Contract!Steps
    BY SMTT(30), <1>1 DEF Contract!Steps
  <2> QED
    BY ZenonT(30), <1>3, <2>1, <2>2 DEF Contract!Take
<1> QED
  BY ZenonT(30), <1>2, <1>4, <1>5 DEF Promised, Contract!Next

LEMMA WorkForward ==
  ASSUME SagaAssumption, BaseInv, SoleDriver, WorkInv, NEW d \in Drivers, Forward(d)
  PROVE  WorkInv' /\ Promised
<1> DEFINE t == target[d]
           r == row[t].inst
           done == [owed EXCEPT ![t] = owed[t] \cup {r.step}]
<1>1. UNCHANGED row /\ Busy(d) /\ pc[d] = "forward"
  BY DEF Forward, Busy
<1>2. /\ t \in Instances /\ r \in Instance /\ inst[d] = r /\ r.state = "running" /\ r.step < N
      /\ RowIs(r, owed[t]) /\ owed \in [Instances -> SUBSET Steps]
  BY ZenonT(30), <1>1, BusyTypes DEF CopyIs, CopyAt, BaseInv, TypeOK
<1>3. ASSUME owed' = done
      PROVE  RowIs(r, owed'[t]) /\ Promised /\ r.step \in owed'[t] /\ RowStays(t)
  BY ZenonT(30), <1>1, <1>2, <1>3, StepIsTaken
<1>4. ASSUME owed' = owed
      PROVE  RowIs(r, owed'[t]) /\ Promised /\ RowStays(t)
  BY ZenonT(30), <1>1, <1>2, <1>4, FateStays DEF Promised, RowStays
<1>5. r.step + 1 \in 0 .. N
  BY <1>2 DEF Instance, SagaAssumption
<1>6. CASE owed' = done /\ Goto(d, "advance", [r EXCEPT !.step = r.step + 1])
  <2>1. [r EXCEPT !.step = r.step + 1] \in Instance /\ "advance" \in PCs
    BY ZenonT(30), <1>2, <1>5, InstanceUpdates, AfterPutValues DEF PCs
  <2>2. CopyIs("advance", [r EXCEPT !.step = r.step + 1], r, owed'[t])
    BY ZenonT(30), <1>2, <1>3, <1>6 DEF CopyIs
  <2> HIDE DEF done
  <2> QED
    BY ZenonT(30), <1>1, <1>3, <1>6, <2>1, <2>2, WorkGoto
<1>7. CASE owed' = owed /\ Goto(d, "failing", [r EXCEPT !.state = "compensating"])
  <2>1. [r EXCEPT !.state = "compensating"] \in Instance /\ "failing" \in PCs
    BY <1>2, InstanceUpdates, AfterPutValues DEF Open, PCs
  <2>2. CopyIs("failing", [r EXCEPT !.state = "compensating"], r, owed'[t])
    BY <1>2 DEF CopyIs
  <2> QED
    BY ZenonT(30), <1>1, <1>4, <1>7, <2>1, <2>2, WorkGoto
<1>8. CASE owed' \in {owed, done} /\ Goto(d, "recover", Blank)
  <2>1. CopyIs("recover", Blank, r, owed'[t]) /\ "recover" \in PCs
    BY <1>2 DEF CopyIs, PCs
  <2>2. RowIs(r, owed'[t]) /\ Promised /\ RowStays(t)
    BY ZenonT(30), <1>3, <1>4, <1>8
  <2> HIDE DEF done
  <2> QED
    BY <1>1, <1>8, <2>1, <2>2, WorkGoto, BlankType
<1> QED
  BY ZenonT(30), <1>2, <1>6, <1>7, <1>8 DEF Forward

\* A step that was undone before its checkpoint: nothing later is in effect but the
\* step whose checkpoint was lost.
LEMMA StepIsUndone ==
  ASSUME SagaAssumption, NEW t \in Instances, row[t].inst \in Instance, owed \in [Instances -> SUBSET Steps],
         row[t].inst.state = "compensating", Uncompensated(row[t].inst) # {}, UNCHANGED row,
         RowIs(row[t].inst, owed[t]), NEW k, k = Max(Uncompensated(row[t].inst)),
         owed' = [owed EXCEPT ![t] = owed[t] \ {k}]
  PROVE  /\ RowIs(row[t].inst, owed'[t]) /\ Promised /\ RowStays(t)
         /\ k \in Uncompensated(row[t].inst) \ owed'[t]
<1> DEFINE r == row[t].inst
           Later == {j \in owed[t] : j > k}
<1>1. k \in Uncompensated(r) /\ k \in Steps /\ \A j \in Uncompensated(r) : j <= k
  BY ZenonT(30), NextUndone
<1>2. owed'[t] = owed[t] \ {k} /\ RowStays(t)
  BY DEF RowStays
<1>3. r.compensated \cap owed[t] = {} /\ owed[t] \subseteq 0 .. r.step /\ owed[t] \subseteq Steps
  BY ZenonT(30) DEF RowIs
<1>4. RowIs(r, owed'[t])
  BY ZenonT(30), <1>2, <1>3 DEF RowIs
<1>5. Later \subseteq {r.step}
  <2> SUFFICES ASSUME NEW j \in Later, j # r.step
               PROVE  FALSE
    BY ZenonT(30)
  <2>1. j \in Steps /\ j \notin r.compensated /\ j \in 0 .. r.step /\ r.step \in 0 .. N /\ N \in Nat
    BY ZenonT(30), <1>3 DEF Instance, SagaAssumption
  <2>2. j < r.step
    BY SMTT(30), <2>1
  <2>3. j \in Uncompensated(r)
    BY ZenonT(30), <2>1, <2>2 DEF Uncompensated
  <2>4. j > k /\ j <= k /\ k \in Int /\ j \in Int
    BY SMTT(30), <1>1, <2>1, <2>3 DEF Steps
  <2> QED
    BY <2>4
<1>6. Cardinality(Later) <= 1
  <2>1. Later = {} \/ Later = {r.step}
    BY ZenonT(30), <1>5
  <2>2. Cardinality({}) = 0 /\ Cardinality({r.step}) = 1
    BY ZenonT(30), FS_EmptySet, FS_Singleton
  <2> QED
    BY <2>1, <2>2
<1>7. Contract!Undo(t, k) /\ k \in Contract!Steps
  <2>1. Fate[t] = "undoing" /\ UNCHANGED Fate
    BY ZenonT(30), FateStays DEF Fate
  <2>2. Contract!Cardinality({j \in owed[t] : j > k}) <= 1
    BY ZenonT(30), <1>6, SameCardinality
  <2> QED
    BY ZenonT(30), <1>1, <2>1, <2>2 DEF Contract!Undo, Contract!Steps, Steps
<1> QED
  BY ZenonT(30), <1>1, <1>2, <1>4, <1>7 DEF Promised, Contract!Next

LEMMA WorkCompensate ==
  ASSUME SagaAssumption, BaseInv, SoleDriver, WorkInv, NEW d \in Drivers, Compensate(d)
  PROVE  WorkInv' /\ Promised
<1> DEFINE t == target[d]
           r == row[t].inst
           k == Max(Uncompensated(r))
           undone == [owed EXCEPT ![t] = owed[t] \ {k}]
<1>1. UNCHANGED row /\ Busy(d) /\ pc[d] = "compensate"
  BY DEF Compensate, Busy
<1>2. /\ t \in Instances /\ r \in Instance /\ inst[d] = r /\ r.state = "compensating"
      /\ RowIs(r, owed[t]) /\ owed \in [Instances -> SUBSET Steps]
  BY ZenonT(30), <1>1, BusyTypes DEF CopyIs, CopyAt, BaseInv, TypeOK
<1>3. Uncompensated(r) # {} /\ k \in Steps
  BY ZenonT(30), <1>2, NextUndone DEF Compensate
<1>4. ASSUME owed' = undone
      PROVE  RowIs(r, owed'[t]) /\ Promised /\ RowStays(t) /\ k \in Uncompensated(r) \ owed'[t]
  BY ZenonT(30), <1>1, <1>2, <1>3, <1>4, StepIsUndone
<1>5. ASSUME owed' = owed
      PROVE  RowIs(r, owed'[t]) /\ Promised /\ RowStays(t)
  BY ZenonT(30), <1>1, <1>2, <1>5, FateStays DEF Promised, RowStays
<1> HIDE DEF k
<1>6. CASE owed' = undone /\ Goto(d, "compensated", [r EXCEPT !.compensated = r.compensated \cup {k}])
  <2>1. r.compensated \cup {k} \in SUBSET Steps
    BY ZenonT(30), <1>2, <1>3 DEF Instance
  <2>2. [r EXCEPT !.compensated = r.compensated \cup {k}] \in Instance /\ "compensated" \in PCs
    BY ZenonT(30), <1>2, <2>1, InstanceUpdates, AfterPutValues DEF PCs
  <2>3. CopyIs("compensated", [r EXCEPT !.compensated = r.compensated \cup {k}], r, owed'[t])
    BY ZenonT(30), <1>2, <1>4, <1>6 DEF CopyIs
  <2> HIDE DEF undone
  <2> QED
    BY ZenonT(30), <1>1, <1>4, <1>6, <2>2, <2>3, WorkGoto
<1>7. CASE owed' \in {owed, undone} /\ Goto(d, "recover", Blank)
  <2>1. CopyIs("recover", Blank, r, owed'[t]) /\ "recover" \in PCs
    BY <1>2 DEF CopyIs, PCs
  <2>2. RowIs(r, owed'[t]) /\ Promised /\ RowStays(t)
    BY ZenonT(30), <1>4, <1>5, <1>7
  <2> HIDE DEF undone
  <2> QED
    BY <1>1, <1>7, <2>1, <2>2, WorkGoto, BlankType
<1> QED
  BY ZenonT(30), <1>2, <1>6, <1>7 DEF Compensate, k

LEMMA WorkCompensationDone ==
  ASSUME SagaAssumption, BaseInv, SoleDriver, WorkInv, NEW d \in Drivers, CompensationDone(d)
  PROVE  WorkInv' /\ Promised
<1> DEFINE r == row[target[d]].inst
<1>1. UNCHANGED <<row, owed>> /\ Busy(d) /\ RowStays(target[d]) /\ pc[d] = "compensate"
  BY DEF CompensationDone, Busy, RowStays
<1>2. r \in Instance /\ inst[d] = r /\ r.state = "compensating" /\ RowIs(r, owed'[target[d]])
  BY ZenonT(30), <1>1, BusyTypes DEF CopyIs, CopyAt
<1>3. Promised
  BY <1>1, FateStays DEF Promised
<1>4. [r EXCEPT !.state = "failed"] \in Instance /\ "finish" \in PCs
  BY ZenonT(30), <1>2, InstanceUpdates, AfterPutValues DEF Terminal, PCs
<1>5. CopyIs("finish", [r EXCEPT !.state = "failed"], r, owed'[target[d]])
  BY <1>2 DEF CopyIs, CompensationDone
<1> QED
  BY ZenonT(30), <1>1, <1>2, <1>3, <1>4, <1>5, WorkGoto DEF CompensationDone

LEMMA WorkRecover ==
  ASSUME SagaAssumption, BaseInv, SoleDriver, WorkInv, NEW d \in Drivers, Recover(d)
  PROVE  WorkInv' /\ Promised
<1> DEFINE read == row[target[d]].inst
<1>1. UNCHANGED <<row, owed>> /\ Busy(d) /\ RowStays(target[d])
  BY DEF Recover, Busy, RowStays
<1>2. read \in Instance /\ RowIs(read, owed'[target[d]])
  BY <1>1, BusyTypes
<1>3. Promised
  BY <1>1, FateStays DEF Promised
<1>4. CASE Leave(d)
  BY <1>1, <1>4, WorkLeave
<1>5. CASE read.state \in Open /\ Goto(d, "recovered", [read EXCEPT !.state = "compensating"])
  <2>1. [read EXCEPT !.state = "compensating"] \in Instance /\ "recovered" \in PCs
    BY ZenonT(30), <1>2, InstanceUpdates, AfterPutValues DEF Open, PCs
  <2>2. CopyIs("recovered", [read EXCEPT !.state = "compensating"], read, owed'[target[d]])
    BY ZenonT(30), <1>5 DEF CopyIs
  <2> QED
    BY ZenonT(30), <1>1, <1>2, <1>3, <1>5, <2>1, <2>2, WorkGoto
<1> QED
  BY ZenonT(30), <1>4, <1>5 DEF Recover

-------------------------------------------------------------------------------
(* The steps of processes and of the store.                                *)

\* An insert and a deletion concern a row in which nobody works.
LEMMA WorkRow ==
  ASSUME SagaAssumption, BaseInv, WorkInv, UNCHANGED owed, NEW i \in Instances,
         row[i].inst.state \in {"absent"} \cup Terminal, RowIs(row'[i].inst, owed[i]),
         \A j \in Instances \ {i} : row'[j] = row[j],
         \A d \in Drivers : Busy(d)' =>
           Busy(d) /\ pc'[d] = pc[d] /\ target'[d] = target[d] /\ inst'[d] = inst[d]
  PROVE  WorkInv'
<1>1. \A j \in Instances : RowIs(row'[j].inst, owed'[j])
  BY ZenonT(30) DEF WorkInv
<1>2. \A d \in Drivers : Busy(d)' => CopyIs(pc'[d], inst'[d], row'[target'[d]].inst, owed'[target'[d]])
  <2> SUFFICES ASSUME NEW d \in Drivers, Busy(d)'
               PROVE  CopyIs(pc'[d], inst'[d], row'[target'[d]].inst, owed'[target'[d]])
    BY ZenonT(30)
  <2>1. /\ Busy(d) /\ pc'[d] = pc[d] /\ target'[d] = target[d] /\ inst'[d] = inst[d]
        /\ target[d] \in Instances
    BY ZenonT(30) DEF BaseInv, Busy
  <2>2. CopyIs(pc[d], inst[d], row[target[d]].inst, owed[target[d]]) /\ CopyAt(pc[d], inst[d])
    BY ZenonT(30), <2>1 DEF WorkInv, BaseInv
  <2>3. CASE target[d] # i
    BY ZenonT(30), <2>1, <2>2, <2>3
  <2>4. CASE target[d] = i
    <3>1. row[target[d]].inst.state \notin Open
      BY ZenonT(30), <2>4 DEF Open, Terminal
    <3>2. pc[d] \in PCs \ {"idle", "lock"}
      BY ZenonT(30), <2>1 DEF BaseInv, TypeOK, Busy
    <3>3. pc[d] = "get"
      BY ZenonT(30), <2>2, <3>1, <3>2, AfterPutValues DEF CopyIs, CopyAt, Open, PCs
    <3> QED
      BY <2>1, <3>3 DEF CopyIs
  <2> QED
    BY ZenonT(30), <2>3, <2>4
<1> QED
  BY ZenonT(30), <1>1, <1>2 DEF WorkInv, RowIs, CopyIs, Uncompensated

LEMMA WorkStart ==
  ASSUME SagaAssumption, BaseInv, WorkInv, NEW d \in Drivers, NEW i \in Instances, Start(d, i)
  PROVE  WorkInv' /\ Promised
<1>1. row[i].inst.state = "absent" /\ UNCHANGED owed
  BY ZenonT(30) DEF Start
<1>2. /\ row'[i].inst = [row[i].inst EXCEPT !.state = "pending"] /\ row'[i].inst.state = "pending"
      /\ \A j \in Instances \ {i} : row'[j] = row[j]
  BY ZenonT(30), InsertedType DEF Start
<1>3. RowIs(row'[i].inst, owed[i])
  <2>1. row[i].inst \in Instance /\ RowIs(row[i].inst, owed[i])
    BY ZenonT(30) DEF BaseInv, TypeOK, WorkInv
  <2>2. row'[i].inst.step = row[i].inst.step /\ row'[i].inst.compensated = row[i].inst.compensated
    BY <1>2, <2>1 DEF Instance
  <2> QED
    BY <1>1, <1>2, <2>1, <2>2 DEF RowIs
<1>4. \A e \in Drivers : Busy(e)' => Busy(e) /\ pc'[e] = pc[e] /\ target'[e] = target[e] /\ inst'[e] = inst[e]
  <2>1. CASE UNCHANGED <<pc, target, inst>>
    BY <2>1 DEF Busy
  <2>2. CASE Enter(d, i, FALSE)
    BY ZenonT(30), <2>2 DEF Enter, Busy, BaseInv, TypeOK
  <2> QED
    BY ZenonT(30), <2>1, <2>2 DEF Start
<1>5. WorkInv'
  BY <1>1, <1>2, <1>3, <1>4, WorkRow
<1>6. Contract!Moves(i, "absent", "open")
  <2>1. FateOf(row[i].inst.state) = "absent" /\ FateOf(row'[i].inst.state) = "open"
    BY <1>1, <1>2 DEF FateOf
  <2> QED
    BY ZenonT(30), <1>1, <1>2, <2>1, FateMoves DEF Contract!Moves
<1> QED
  BY ZenonT(30), <1>5, <1>6 DEF Promised, Contract!Next

LEMMA WorkPrune ==
  ASSUME SagaAssumption, BaseInv, WorkInv, NEW i \in Instances, Prune(i)
  PROVE  WorkInv' /\ Promised
<1>1. row[i].inst.state \in Terminal /\ UNCHANGED <<owed, pc, target, inst>>
  BY DEF Prune, procVars
<1>2. /\ row'[i].inst.state = "gone" /\ row'[i].inst.compensated = {}
      /\ \A j \in Instances \ {i} : row'[j] = row[j]
  BY PrunedRow
<1>3. RowIs(row'[i].inst, owed[i])
  BY ZenonT(30), <1>2 DEF RowIs
<1>4. WorkInv'
  BY ZenonT(30), <1>1, <1>2, <1>3, WorkRow DEF Busy
<1>5. Contract!Moves(i, "completed", "gone") \/ Contract!Moves(i, "failed", "gone")
  <2>1. FateOf(row[i].inst.state) \in {"completed", "failed"} /\ FateOf(row'[i].inst.state) = "gone"
    BY ZenonT(30), <1>1, <1>2 DEF FateOf, Terminal
  <2> QED
    BY ZenonT(30), <1>1, <1>2, <2>1, FateMoves DEF Contract!Moves
<1> QED
  BY ZenonT(30), <1>4, <1>5 DEF Promised, Contract!Next

\* The others.
LEMMA WorkElse ==
  ASSUME SagaAssumption, BaseInv, WorkInv, [Next]_vars, ~\E d \in Drivers : DriverStep(d),
         ~\E d \in Drivers, i \in Instances : Start(d, i), ~\E i \in Instances : Prune(i)
  PROVE  WorkInv' /\ Promised
<1>1. UNCHANGED owed
  BY ZenonT(30) DEF Next, Cancel, Run, Dispatch, Resume, Crash, Tick, vars
<1>2. \A i \in Instances : row'[i].inst = row[i].inst
  <2>1. CASE UNCHANGED row
    BY <2>1
  <2> QED
    BY ZenonT(30), <2>1, TickedRows, Listed DEF Next, Cancel, Run, Dispatch, Crash, vars
<1>3. \A d \in Drivers : Busy(d)' => Busy(d) /\ pc'[d] = pc[d] /\ target'[d] = target[d] /\ inst'[d] = inst[d]
  <2>1. ASSUME NEW p \in Procs, Crash(p)
        PROVE  \A e \in Drivers : Busy(e)' => Busy(e) /\ pc'[e] = pc[e] /\ target'[e] = target[e] /\ inst'[e] = inst[e]
    BY ZenonT(30), <2>1, CrashMoves DEF Busy
  <2>2. ASSUME NEW d \in Drivers, NEW i \in Instances, Run(d, i) \/ Dispatch(Host[d], d, i)
        PROVE  \A e \in Drivers : Busy(e)' => Busy(e) /\ pc'[e] = pc[e] /\ target'[e] = target[e] /\ inst'[e] = inst[e]
    BY ZenonT(30), <2>2 DEF Run, Dispatch, Enter, Busy, BaseInv, TypeOK
  <2>3. CASE UNCHANGED <<pc, target, inst>>
    BY <2>3 DEF Busy
  <2> QED
    BY ZenonT(30), <2>1, <2>2, <2>3 DEF Next, Cancel, Resume, Tick, vars, procVars
<1> QED
  BY ZenonT(30), <1>1, <1>2, <1>3, WorkUndisturbed, FateStays DEF Promised

LEMMA WorkNext ==
  ASSUME SagaAssumption, BaseInv, SoleDriver, WorkInv, [Next]_vars
  PROVE  WorkInv' /\ Promised
<1>1. ASSUME NEW d \in Drivers, DriverStep(d)
      PROVE  WorkInv' /\ Promised
  BY <1>1, WorkLock, WorkGet, WorkPut, WorkLoop, WorkForward, WorkCompensate,
     WorkCompensationDone, WorkRecover DEF DriverStep
<1> QED
  BY <1>1, WorkStart, WorkPrune, WorkElse

LEMMA WorkInit ==
  ASSUME SagaAssumption, Init
  PROVE  WorkInv
<1>1. \A i \in Instances : RowIs(row[i].inst, owed[i])
  BY ZenonT(30) DEF Init, Blank, RowIs
<1> QED
  BY ZenonT(30), <1>1 DEF Init, WorkInv, Busy

-------------------------------------------------------------------------------
(* The theorems.                                                           *)

LEMMA WorkHolds ==
  ASSUME SagaAssumption, OneProcess \/ ClaimsAreKept
  PROVE  Spec => []WorkInv
<1>1. Init => WorkInv
  BY WorkInit
<1>2. BaseInv /\ SoleDriver /\ WorkInv /\ [Next]_vars => WorkInv'
  BY WorkNext
<1> QED
  BY <1>1, <1>2, OneExecutes, PTL DEF Spec

\* A checkpoint is true whenever it is read: what the row says is done has been done,
\* and what it says is compensated is not in effect, although every write may fail
\* or commit unnoticed and every driver may die between acting and writing.
THEOREM CheckpointsHold ==
  ASSUME SagaAssumption, OneProcess \/ ClaimsAreKept
  PROVE  Spec => []CheckpointsAreTrue
<1>1. BaseInv /\ WorkInv => CheckpointsAreTrue
  <2> SUFFICES ASSUME BaseInv, WorkInv, NEW i \in Instances
               PROVE  /\ row[i].inst.state \in {"running", "completed"} =>
                           0 .. row[i].inst.step - 1 \subseteq owed[i]
                      /\ row[i].inst.compensated \cap owed[i] = {}
    BY ZenonT(30) DEF CheckpointsAreTrue
  <2>1. RowIs(row[i].inst, owed[i]) /\ row[i].inst.state \in {"absent", "gone"} \cup Open \cup Terminal
    BY ZenonT(30) DEF WorkInv, BaseInv, TypeOK, Instance
  <2> QED
    BY ZenonT(30), <2>1 DEF RowIs, Steps, Open, Terminal
<1> QED
  BY <1>1, OneExecutes, WorkHolds, PTL

\* The executor over the store implements SagaContract: steps in order, roll-back in
\* reverse order and never followed by a step, completed only with every step in
\* effect, failed only with nothing left to undo but a step whose checkpoint was lost,
\* and no way back from a terminal state.
THEOREM ExecutorKeepsPromise ==
  ASSUME SagaAssumption, OneProcess \/ ClaimsAreKept
  PROVE  Spec => SagaKeepsPromise
<1>1. Init => Contract!Init
  BY DEF Init, Contract!Init, Fate, Blank
<1>2. BaseInv /\ SoleDriver /\ WorkInv /\ [Next]_vars => [Contract!Next]_(Contract!vars)
  BY WorkNext DEF Promised, Contract!vars
<1> QED
  BY <1>1, <1>2, OneExecutes, WorkHolds, PTL DEF Spec, SagaKeepsPromise, Contract!Spec
===============================================================================
