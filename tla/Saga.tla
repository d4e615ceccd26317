--------------------------------- MODULE Saga ---------------------------------
(***************************************************************************)
(* The durable saga executor (runtime/saga/executor.go) over the Postgres  *)
(* state store (data/saga/pgstore).  Processes start instances, run them   *)
(* by id and resume the ones that look abandoned; every statement of the   *)
(* store is one atomic step; processes crash and are started again, steps  *)
(* panic, callers' contexts are cancelled, and a statement may report an   *)
(* error whether or not it committed.                                      *)
(*                                                                         *)
(* A driver is a goroutine in executeInstance.  claim_until is kept as the *)
(* ticks the lease has left and updated_at as the row's age, both advanced *)
(* by Tick.  A nil Compensate is one that returns at once.                 *)
(***************************************************************************)
EXTENDS Naturals, FiniteSets, FiniteSetsExt

CONSTANTS
    Instances, Procs,
    Nobody,           \* the target of an idle driver
    Drivers,          \* bound: the goroutines there may be
    Host,             \* the process each driver belongs to
    N,                \* len(def.Steps)
    Calls,            \* which of "start", "run", "resume" each process calls
    Knows,            \* the processes that registered the definition
    ResumeConcurrency, LeaseTicks,
    OlderThan,        \* the argument of Resume, in ticks
    Timely,           \* TRUE: no step outlasts the lease or OlderThan
    FaultKinds,       \* which of "crash", "panic", "cancel", "db" happen
    MaxFaults         \* bound: how many faults happen

SagaAssumption ==
    /\ Host \in [Drivers -> Procs] /\ Calls \in [Procs -> SUBSET {"start", "run", "resume"}]
    /\ Knows \subseteq Procs /\ Nobody \notin Instances
    /\ N \in Nat \ {0} /\ ResumeConcurrency \in Nat \ {0} /\ LeaseTicks \in Nat \ {0}
    /\ OlderThan \in Nat /\ Timely \in BOOLEAN /\ MaxFaults \in Nat

VARIABLES
    row,        \* the table saga_instances
    backlog,    \* what each process's Resume listed and has not dispatched
    pc,         \* where each driver is
    target,     \* the instance it drives
    inst,       \* its copy of the Instance
    resumed,    \* it was dispatched by Resume
    cancelled,  \* its caller's context is cancelled
    owed,       \* steps whose Forward succeeded and whose Compensate was not called since
    faults

procVars == <<backlog, pc, target, inst, resumed, cancelled>>
vars == <<row, procVars, owed, faults>>

Steps == 0 .. N - 1

Open == {"pending", "running", "compensating"}

Terminal == {"completed", "failed"}

Instance == [state : {"absent", "gone"} \cup Open \cup Terminal, step : 0 .. N,
             compensated : SUBSET Steps]

Blank == [state |-> "absent", step |-> 0, compensated |-> {}]

\* The store writes of executeInstance and driveCompensation, each with the place
\* the driver goes on from when it succeeds.
AfterPut == [running |-> "loop", advance |-> "loop", failing |-> "compensate",
             complete |-> "idle", compensated |-> "compensate", finish |-> "idle",
             recovered |-> "idle"]

Putting == DOMAIN AfterPut

\* driveCompensation writes under context.WithoutCancel.
Detached == {"compensated", "finish"}

PCs == {"idle", "lock", "get", "loop", "forward", "compensate", "recover"} \cup Putting

TypeOK ==
    /\ row \in [Instances -> [inst : Instance, lease : 0 .. LeaseTicks, age : 0 .. OlderThan + 1]]
    /\ backlog \in [Procs -> SUBSET Instances]
    /\ pc \in [Drivers -> PCs]
    /\ target \in [Drivers -> Instances \cup {Nobody}]
    /\ inst \in [Drivers -> Instance]
    /\ resumed \in [Drivers -> BOOLEAN]
    /\ cancelled \in [Drivers -> BOOLEAN]
    /\ owed \in [Instances -> SUBSET Steps]
    /\ faults \in 0 .. MaxFaults

Init ==
    /\ row = [i \in Instances |-> [inst |-> Blank, lease |-> 0, age |-> 0]]
    /\ backlog = [p \in Procs |-> {}]
    /\ pc = [d \in Drivers |-> "idle"]
    /\ target = [d \in Drivers |-> Nobody]
    /\ inst = [d \in Drivers |-> Blank]
    /\ resumed = [d \in Drivers |-> FALSE]
    /\ cancelled = [d \in Drivers |-> FALSE]
    /\ owed = [i \in Instances |-> {}]
    /\ faults = 0

Fault(kind) ==
    /\ kind \in FaultKinds
    /\ faults < MaxFaults
    /\ faults' = faults + 1

DriversOf(p) == {d \in Drivers : Host[d] = p}

\* The drivers between lockInstance and the deferred unlock.
Executing(p, i) ==
    {d \in DriversOf(p) : target[d] = i /\ pc[d] \notin {"idle", "lock"}}

FreeSlot(p) ==
    Cardinality({d \in DriversOf(p) : resumed[d] /\ pc[d] # "idle"}) < ResumeConcurrency

\* A driver begins executeInstance for i.
Enter(d, i, byResume) ==
    /\ pc[d] = "idle"
    /\ pc' = [pc EXCEPT ![d] = "lock"]
    /\ target' = [target EXCEPT ![d] = i]
    /\ resumed' = [resumed EXCEPT ![d] = byResume]
    /\ cancelled' = [cancelled EXCEPT ![d] = FALSE]
    /\ UNCHANGED inst

\* executeInstance returns: what the driver held goes with it.
Leave(d) ==
    /\ pc' = [pc EXCEPT ![d] = "idle"]
    /\ inst' = [inst EXCEPT ![d] = Blank]
    /\ resumed' = [resumed EXCEPT ![d] = FALSE]
    /\ cancelled' = [cancelled EXCEPT ![d] = FALSE]
    /\ target' = [target EXCEPT ![d] = Nobody]
    /\ UNCHANGED backlog

Goto(d, where, copy) ==
    /\ pc' = [pc EXCEPT ![d] = where]
    /\ inst' = [inst EXCEPT ![d] = copy]
    /\ UNCHANGED <<backlog, target, resumed, cancelled>>

\* Start: the insert, which leaves claim_until NULL, then executeInstance.  The id
\* is new.  When the insert reports an error Start returns.
Start(d, i) ==
    /\ "start" \in Calls[Host[d]] /\ Host[d] \in Knows
    /\ row[i].inst.state = "absent"
    /\ LET inserted == [row EXCEPT ![i].inst.state = "pending"]
       IN  \/ row' = inserted /\ Enter(d, i, FALSE) /\ UNCHANGED faults
          \/ /\ Fault("db") /\ pc[d] = "idle"
             /\ row' = inserted
             /\ UNCHANGED <<pc, target, inst, resumed, cancelled>>
    /\ UNCHANGED <<backlog, owed>>

\* Run: looks the instance and its definition up, and takes no claim.
Run(d, i) ==
    /\ "run" \in Calls[Host[d]] /\ Host[d] \in Knows
    /\ row[i].inst.state \notin {"absent", "gone"}
    /\ Enter(d, i, FALSE)
    /\ UNCHANGED <<row, backlog, owed, faults>>

\* Fault model of the claim: claim_until is not compared.
ResumableByAge(r) ==
    /\ r.inst.state \in Open
    /\ OlderThan = 0 \/ r.age > OlderThan

\* Fault model of ListResumable: compensating rows are not listed.
ResumableForwardOnly(r) ==
    /\ r.inst.state \in {"pending", "running"}
    /\ OlderThan = 0 \/ r.age > OlderThan
    /\ r.lease = 0

\* The candidates of ListResumable: r is a row.
Resumable(r) ==
    /\ r.inst.state \in Open
    /\ OlderThan = 0 \/ r.age > OlderThan
    /\ r.lease = 0

\* Resume, called again once its last call has returned.  It lists, and
\* thereby claims, every candidate; those whose definition is not registered are
\* claimed and then skipped.  On an error after the statement committed the rows
\* are claimed and nothing is driven.
Resume(p) ==
    LET found == {i \in Instances : Resumable(row[i])}
    IN  /\ "resume" \in Calls[p] /\ found # {}
        /\ backlog[p] = {} /\ \A d \in DriversOf(p) : ~resumed[d]
        /\ row' = [i \in Instances |-> IF i \in found THEN [row[i] EXCEPT !.lease = LeaseTicks]
                                        ELSE row[i]]
        /\ \/ /\ backlog' = [backlog EXCEPT ![p] = IF p \in Knows THEN found ELSE {}]
              /\ UNCHANGED faults
           \/ Fault("db") /\ UNCHANGED backlog
        /\ UNCHANGED <<pc, target, inst, resumed, cancelled, owed>>

\* The dispatch loop of Resume: a slot of sem, then a goroutine.
Dispatch(p, d, i) ==
    /\ i \in backlog[p] /\ d \in DriversOf(p)
    /\ FreeSlot(p)
    /\ backlog' = [backlog EXCEPT ![p] = @ \ {i}]
    /\ Enter(d, i, TRUE)
    /\ UNCHANGED <<row, owed, faults>>

\* Fault model of lockInstance: the mutex is not taken.
LockWithoutMutex(d) ==
    /\ pc[d] = "lock"
    /\ Goto(d, "get", Blank)
    /\ UNCHANGED <<row, owed, faults>>

\* lockInstance: the per-instance mutex of this process.
Lock(d) ==
    /\ pc[d] = "lock"
    /\ Executing(Host[d], target[d]) = {}
    /\ Goto(d, "get", Blank)
    /\ UNCHANGED <<row, owed, faults>>

\* The Get of executeInstance, and what it decides from the state it read.
Get(d) ==
    LET read == row[target[d]].inst
    IN  /\ pc[d] = "get"
        /\ \/ /\ ~cancelled[d] /\ UNCHANGED faults
              /\ \/ read.state \in {"pending", "running"}
                    /\ Goto(d, "running", [read EXCEPT !.state = "running"])
                 \/ read.state = "compensating" /\ Goto(d, "compensate", read)
                 \/ read.state \in Terminal \cup {"gone"} /\ Leave(d)
           \/ cancelled[d] /\ Leave(d) /\ UNCHANGED faults
           \/ Fault("db") /\ Leave(d)
        /\ UNCHANGED <<row, owed>>

\* putUpdateOptimistic: by id alone; it renews the lease.
Written(d) ==
    [row EXCEPT ![target[d]] = [inst |-> inst[d], lease |-> LeaseTicks, age |-> 0]]

\* Every Put after the first.  An error ends executeInstance: the context is
\* cancelled, the row is gone, or the database fails before or after it commits.
Put(d) ==
    /\ pc[d] \in Putting
    /\ \/ /\ ~cancelled[d] \/ pc[d] \in Detached
          /\ row[target[d]].inst.state # "gone"
          /\ row' = Written(d)
          /\ IF AfterPut[pc[d]] = "idle" THEN Leave(d) ELSE Goto(d, AfterPut[pc[d]], inst[d])
          /\ UNCHANGED faults
       \/ /\ \/ cancelled[d] /\ pc[d] \notin Detached
             \/ row[target[d]].inst.state = "gone"
          /\ Leave(d) /\ UNCHANGED <<row, faults>>
       \/ /\ Fault("db") /\ Leave(d)
          /\ \/ row[target[d]].inst.state # "gone" /\ row' = Written(d)
             \/ UNCHANGED row
    /\ UNCHANGED owed

\* Fault model of the loop: one step too many.
LoopOneMore(d) ==
    /\ pc[d] = "loop"
    /\ IF inst[d].step <= N THEN Goto(d, "forward", inst[d])
       ELSE Goto(d, "complete", [inst[d] EXCEPT !.state = "completed"])
    /\ UNCHANGED <<row, owed, faults>>

\* The head of the loop: ctx.Err(), whose own Put cannot succeed, the next step,
\* or completion.
Loop(d) ==
    /\ pc[d] = "loop"
    /\ \/ inst[d].step < N /\ cancelled[d] /\ Leave(d)
       \/ inst[d].step < N /\ ~cancelled[d] /\ Goto(d, "forward", inst[d])
       \/ inst[d].step = N /\ Goto(d, "complete", [inst[d] EXCEPT !.state = "completed"])
    /\ UNCHANGED <<row, owed, faults>>

\* step.Forward returns an output, returns an error, or panics, the latter with or
\* without its effect.
Forward(d) ==
    LET done == [owed EXCEPT ![target[d]] = @ \cup {inst[d].step}]
    IN  /\ pc[d] = "forward"
        /\ \/ /\ owed' = done /\ UNCHANGED faults
              /\ Goto(d, "advance", [inst[d] EXCEPT !.step = @ + 1])
           \/ /\ UNCHANGED <<owed, faults>>
              /\ Goto(d, "failing", [inst[d] EXCEPT !.state = "compensating"])
           \/ Fault("panic") /\ owed' \in {owed, done} /\ Goto(d, "recover", Blank)
        /\ UNCHANGED row

Uncompensated(c) == {k \in Steps : k < c.step /\ k \notin c.compensated}

\* Fault models of driveCompensation: in the order of the steps; and with a panic
\* of Compensate taken for its return.
CompensateInOrder(d) ==
    LET k == Min(Uncompensated(inst[d]))
    IN  /\ pc[d] = "compensate" /\ Uncompensated(inst[d]) # {}
        /\ owed' = [owed EXCEPT ![target[d]] = @ \ {k}]
        /\ Goto(d, "compensated", [inst[d] EXCEPT !.compensated = @ \cup {k}])
        /\ UNCHANGED <<row, faults>>

CompensateSwallowsPanic(d) ==
    LET k == Max(Uncompensated(inst[d]))
        undone == [owed EXCEPT ![target[d]] = @ \ {k}]
    IN  /\ pc[d] = "compensate" /\ Uncompensated(inst[d]) # {}
        /\ \/ owed' = undone /\ UNCHANGED faults
           \/ Fault("panic") /\ owed' \in {owed, undone}
        /\ Goto(d, "compensated", [inst[d] EXCEPT !.compensated = @ \cup {k}])
        /\ UNCHANGED row

\* driveCompensation, one index: step.Compensate returns, with or without an
\* error, or panics, before or after its effect.
Compensate(d) ==
    LET k == Max(Uncompensated(inst[d]))
        undone == [owed EXCEPT ![target[d]] = @ \ {k}]
    IN  /\ pc[d] = "compensate" /\ Uncompensated(inst[d]) # {}
        /\ \/ /\ owed' = undone /\ UNCHANGED faults
              /\ Goto(d, "compensated", [inst[d] EXCEPT !.compensated = @ \cup {k}])
           \/ Fault("panic") /\ owed' \in {owed, undone} /\ Goto(d, "recover", Blank)
        /\ UNCHANGED row

CompensationDone(d) ==
    /\ pc[d] = "compensate" /\ Uncompensated(inst[d]) = {}
    /\ Goto(d, "finish", [inst[d] EXCEPT !.state = "failed"])
    /\ UNCHANGED <<row, owed, faults>>

\* The deferred recover of executeInstance: it reads the row again and marks it
\* compensating, for a later Resume.
Recover(d) ==
    LET read == row[target[d]].inst
    IN  /\ pc[d] = "recover"
        /\ \/ /\ ~cancelled[d] /\ read.state \in Open
              /\ Goto(d, "recovered", [read EXCEPT !.state = "compensating"])
              /\ UNCHANGED faults
           \/ (cancelled[d] \/ read.state \notin Open) /\ Leave(d) /\ UNCHANGED faults
           \/ Fault("db") /\ Leave(d)
        /\ UNCHANGED <<row, owed>>

\* The caller's context is cancelled or its deadline passes.
Cancel(d) ==
    /\ pc[d] \notin {"idle", "lock"} /\ ~cancelled[d]
    /\ Fault("cancel")
    /\ cancelled' = [cancelled EXCEPT ![d] = TRUE]
    /\ UNCHANGED <<row, backlog, pc, target, inst, resumed, owed>>

\* A process dies, and is started again with nothing in memory.
Crash(p) ==
    /\ Fault("crash")
    /\ backlog[p] # {} \/ \E d \in DriversOf(p) : pc[d] # "idle"
    /\ backlog' = [backlog EXCEPT ![p] = {}]
    /\ pc' = [d \in Drivers |-> IF Host[d] = p THEN "idle" ELSE pc[d]]
    /\ target' = [d \in Drivers |-> IF Host[d] = p THEN Nobody ELSE target[d]]
    /\ inst' = [d \in Drivers |-> IF Host[d] = p THEN Blank ELSE inst[d]]
    /\ resumed' = [d \in Drivers |-> Host[d] # p /\ resumed[d]]
    /\ cancelled' = [d \in Drivers |-> Host[d] # p /\ cancelled[d]]
    /\ UNCHANGED <<row, owed>>

\* DeleteTerminalBefore, or Delete of a finished instance.
Prune(i) ==
    /\ row[i].inst.state \in Terminal
    /\ row' = [row EXCEPT ![i] = [inst |-> [Blank EXCEPT !.state = "gone"],
                                  lease |-> 0, age |-> 0]]
    /\ UNCHANGED <<procVars, owed, faults>>

\* A tick of now() on a row: neither count matters beyond its limit.
Older(r) ==
    IF r.inst.state \in Open
    THEN [r EXCEPT !.lease = IF @ = 0 THEN 0 ELSE @ - 1,
                   !.age = IF @ > OlderThan THEN @ ELSE @ + 1]
    ELSE r

\* A process that is driving i, or about to: not one whose slots are all taken.
Working(p, i) ==
    \/ \E d \in DriversOf(p) : target[d] = i /\ pc[d] # "idle"
    \/ i \in backlog[p] /\ FreeSlot(p)

\* Time passes, but, when Timely, not past the end of a claim somebody works under.
Tick ==
    /\ Timely => \A p \in Procs, i \in Instances :
                   Working(p, i) => ~Resumable(Older(row[i]))
    /\ row' = [i \in Instances |-> Older(row[i])]
    /\ row' # row
    /\ UNCHANGED <<procVars, owed, faults>>

DriverStep(d) ==
    \/ Lock(d) \/ Get(d) \/ Put(d) \/ Loop(d) \/ Forward(d)
    \/ Compensate(d) \/ CompensationDone(d) \/ Recover(d)

Next ==
    \/ \E d \in Drivers : DriverStep(d) \/ Cancel(d)
    \/ \E d \in Drivers, i \in Instances : Start(d, i) \/ Run(d, i) \/ Dispatch(Host[d], d, i)
    \/ \E p \in Procs : Resume(p) \/ Crash(p)
    \/ \E i \in Instances : Prune(i)
    \/ Tick

Spec == Init /\ [][Next]_vars

--------------------------------------------------------------------------------
\* The refinement mapping: what a caller learns of an instance.
Fate == [i \in Instances |->
    IF row[i].inst.state \in {"pending", "running"} THEN "open"
    ELSE IF row[i].inst.state = "compensating" THEN "undoing" ELSE row[i].inst.state]

Contract == INSTANCE SagaContract WITH fate <- Fate

\* The executor keeps the promise of SagaContract through crashes, panics,
\* cancelled callers and ambiguous commits: steps in order, roll-back in reverse
\* order and never followed by a step, completed only with every step in effect,
\* failed only with nothing left to undo but a step whose checkpoint was lost,
\* and no way back from a terminal state.
SagaKeepsPromise == Contract!Spec

\* A driver inside a user's Forward or Compensate.
InStep(d) ==
    \/ pc[d] = "forward"
    \/ pc[d] = "compensate" /\ Uncompensated(inst[d]) # {}

\* At most one goroutine is inside the steps of an instance, whatever mix of
\* Start, Run and Resume is called (the instance mutex, and the claim lease of
\* ListResumable: "concurrent Resume callers cannot both execute the same saga").
ExclusiveExecution ==
    \A i \in Instances : Cardinality({d \in Drivers : target[d] = i /\ InStep(d)}) <= 1

\* A checkpoint is never lost: what the row says is done has been done, and what
\* it says is compensated is not in effect (the order in which executeInstance
\* and driveCompensation act and write).
CheckpointsAreTrue ==
    \A i \in Instances :
        /\ row[i].inst.state \in {"running", "completed"} => 0 .. row[i].inst.step - 1 \subseteq owed[i]
        /\ row[i].inst.compensated \cap owed[i] = {}

\* A driver whose Forward failed goes on to roll back, even when its caller's
\* context is cancelled (driveCompensation: "a cancelled or deadline-expired
\* caller (typical for HTTP-driven Start) cannot abort rollback").  A fault of
\* the database or a crash at this point excuses it.
FailureIsRolledBack ==
    [][\A d \in Drivers : pc[d] = "failing" /\ pc'[d] # "failing" =>
         pc'[d] = "compensate" \/ faults' # faults]_vars
================================================================================
