--------------------------- MODULE MCCoordination ---------------------------
(***************************************************************************)
(* The components that agree through a shared store: the lock and Lease    *)
(* electors, the saga executor (two goroutines of one process, and two     *)
(* processes) and the idempotency middleware, each with the fairness its   *)
(* scheduling justifies.  They have no state in common: a behaviour picks  *)
(* its subject and leaves the others in an initial state.                  *)
(***************************************************************************)
EXTENDS Elector, K8sLease, Saga, Idempotency, TLC

CONSTANTS p1, p2, d1, d2, i1, r1, r2, r3, FpA, FpB

VARIABLE subject

sagaVars == vars
allVars == <<subject, electorVars, leaseVars, sagaVars, requestVars>>

AllBackends == {"redis", "pg", "etcd"}

\* Two processes with a driver each, that start sagas and resume them: the claim lease.
TwoProcesses == d1 :> p1 @@ d2 :> p2
StartAndResume == [p \in Procs |-> {"start", "resume"}]

\* Two goroutines of one process: the instance mutex, and steps that outlast the lease.
Mutex == INSTANCE Saga WITH
    Procs <- {p1}, Host <- [d \in Drivers |-> p1],
    Calls <- [p \in {p1} |-> {"start", "run", "resume"}], Knows <- {p1},
    LeaseTicks <- 1, OlderThan <- 0, Timely <- FALSE, MaxFaults <- 2

\* Two requests with the same body and a third with another one.
TwoBodies == [r \in Requests |-> IF r = r3 THEN FpB ELSE FpA]

ASSUME Assumptions ==
    K8sAssumption /\ SagaAssumption /\ Mutex!SagaAssumption /\ IdempotencyAssumption

SuiteInit ==
    /\ subject \in {"elector", "k8s", "saga mutex", "saga claims", "idempotency"}
    /\ ElectorInit /\ (subject # "elector" => backend = "redis")
    /\ LeaseInit
    /\ subject # "k8s" => ~drainTimeout /\ lease = "free" /\ cur = CHOOSE t \in Slots : TRUE
    /\ IF subject = "saga mutex" THEN Mutex!Init ELSE Init
    /\ RequestInit /\ (subject # "idempotency" => store = "pg")

\* Only the subject moves.
Only(chosen) ==
    /\ chosen # "elector" => UNCHANGED electorVars
    /\ chosen # "k8s" => UNCHANGED leaseVars
    /\ chosen \notin {"saga mutex", "saga claims"} => UNCHANGED sagaVars
    /\ chosen # "idempotency" => UNCHANGED requestVars

SuiteNext ==
    /\ UNCHANGED subject /\ Only(subject)
    /\ \/ subject = "elector" /\ ElectorNext
       \/ subject = "k8s" /\ LeaseNext
       \/ subject = "saga mutex" /\ Mutex!Next
       \/ subject = "saga claims" /\ Next
       \/ subject = "idempotency" /\ RequestNext

\* The scheduler runs every goroutine, time passes, a callback whose ctx is
\* cancelled returns, and the orchestrator calls Run again.  Nothing makes a
\* healthy callback return, and no fault is owed.
ElectorFair ==
    /\ \A p \in Replicas :
        /\ WF_electorVars(subject = "elector" /\ ElectorStep(p))
        /\ WF_electorVars(subject = "elector" /\ KeepAlive(p))
        /\ WF_electorVars(subject = "elector" /\ ~LiveCtx(p) /\ CallbackReturns(p))
        /\ WF_electorVars(subject = "elector" /\ Replace(p))
        /\ WF_electorVars(subject = "elector" /\ ElectorStart(p))
    /\ WF_electorVars(subject = "elector" /\ ElectorTick)

\* Goroutines are scheduled and renew returns once its ctx is cancelled.  An
\* OnAcquired whose ctx is cancelled returns, except where a drain timeout is
\* there for the ones that do not.
LeaseFair ==
    /\ WF_leaseVars(subject = "k8s" /\ RunStep)
    /\ WF_leaseVars(subject = "k8s" /\ stopReq /\ RenewEnds)
    /\ \A t \in Slots :
        /\ WF_leaseVars(subject = "k8s" /\ GStep(t))
        /\ WF_leaseVars(subject = "k8s" /\ ctxDone[t] /\ ~drainTimeout /\ OnAcquiredReturns(t))

\* Goroutines go on, user steps return, the clock advances, and the service keeps
\* calling Resume: the executor has no loop of its own.
SagaFair ==
    /\ WF_sagaVars(subject = "saga mutex" /\ Mutex!Tick)
    /\ \A d \in Drivers : WF_sagaVars(subject = "saga mutex" /\ Mutex!DriverStep(d))
    /\ WF_sagaVars(subject = "saga mutex" /\ Mutex!Resume(p1))
    /\ WF_sagaVars(subject = "saga mutex" /\ \E d \in Drivers : Mutex!Dispatch(p1, d, i1))
    /\ WF_sagaVars(subject = "saga claims" /\ Tick)
    /\ \A d \in Drivers :
        /\ WF_sagaVars(subject = "saga claims" /\ DriverStep(d))
        /\ WF_sagaVars(subject = "saga claims" /\ Resume(Host[d]))
        /\ WF_sagaVars(subject = "saga claims" /\ Dispatch(Host[d], d, i1))

\* Handlers return, servers go on, the client does not give up, the clock advances.
KeyedFair ==
    /\ WF_requestVars(subject = "idempotency" /\ StoreTick)
    /\ \A r \in Requests : WF_requestVars(subject = "idempotency" /\ RequestStep(r))

SuiteSpec ==
    /\ SuiteInit /\ [][SuiteNext]_allVars
    /\ ElectorFair /\ LeaseFair /\ SagaFair /\ KeyedFair

-----------------------------------------------------------------------------
\* Whatever is the subject gets on: the key is led again, a cancelled Run returns, a
\* started saga is completed or rolled back, and a client that keeps trying is answered.
CoordinationSettles ==
    []<>CASE subject = "elector" -> \E p \in Replicas : Leads(p)
          [] subject = "k8s" -> run = "idle" \/ ~stopReq
          [] subject \in {"saga mutex", "saga claims"} ->
                row[i1].inst.state \in Terminal \cup {"absent", "gone"}
          [] subject = "idempotency" ->
                \A r \in Requests : place[r] \in {"answered", "rejected"}
=============================================================================
