---------------------------- MODULE BackgroundJobs ----------------------------
(***************************************************************************)
(* The loops that run in the background of a service, and the Redis locks  *)
(* they run under: runtime/batchworker, runtime/cron and                   *)
(* data/lock/redislock.                                                    *)
(***************************************************************************)
EXTENDS Faults, FiniteSets

-------------------------------------------------------------------------------
(***************************************************************************)
(* runtime/batchworker: a worker that runs a batch, sleeps and runs the    *)
(* next one, and whose Stop may come before, during or after Start.        *)
(***************************************************************************)

VARIABLES
    loop,      \* Start: "no", "begun", "running", "sleeping", "returned" or "refused"
    isStopped, \* w.stopped
    cancelled, \* the worker's context
    asleep,    \* the context was already cancelled when the timer was armed
    stopCall   \* Stop: "no", "waiting", "ok" or "expired"

worker == <<loop, isStopped, cancelled, asleep, stopCall>>
workerVars == <<worker, faults>>

WorkerTypeOK ==
    /\ loop \in {"no", "begun", "running", "sleeping", "returned", "refused"}
    /\ {isStopped, cancelled, asleep} \subseteq BOOLEAN
    /\ stopCall \in {"no", "waiting", "ok", "expired"} /\ faults \in 0 .. MaxFaults

WorkerInit ==
    /\ loop = "no" /\ isStopped = FALSE /\ cancelled = FALSE /\ asleep = FALSE
    /\ stopCall = "no" /\ faults = 0

\* Start: a worker that was stopped before is not started.
StartWorker ==
    /\ loop = "no" /\ loop' = IF isStopped THEN "refused" ELSE "begun"
    /\ UNCHANGED <<isStopped, cancelled, asleep, stopCall, faults>>

\* The context is looked at before the first batch.
FirstBatch ==
    /\ loop = "begun" /\ loop' = IF cancelled THEN "returned" ELSE "running"
    /\ UNCHANGED <<isStopped, cancelled, asleep, stopCall, faults>>

\* runBatch returns, with an error or a recovered panic too, and the timer is armed.
BatchEnds ==
    /\ loop = "running" /\ loop' = "sleeping" /\ asleep' = cancelled
    /\ UNCHANGED <<isStopped, cancelled, stopCall, faults>>

\* The timer fires.  With a context cancelled meanwhile the select may still take it.
NextBatch ==
    /\ loop = "sleeping" /\ ~asleep /\ loop' = "running"
    /\ UNCHANGED <<isStopped, cancelled, asleep, stopCall, faults>>

LoopEnds ==
    /\ loop = "sleeping" /\ cancelled /\ loop' = "returned"
    /\ UNCHANGED <<isStopped, cancelled, asleep, stopCall, faults>>

\* The context given to Start ends.
ParentEnds ==
    /\ loop \notin {"no", "refused"} /\ ~cancelled /\ cancelled' = TRUE
    /\ UNCHANGED <<loop, isStopped, asleep, stopCall, faults>>

\* Fault model of Stop: a worker that is not running is left as it is.
StopForgets == stopCall' = "ok" /\ UNCHANGED isStopped

\* Stop of a worker that never started: it closes done so that nobody waits.
StopUnstarted == stopCall' = "ok" /\ isStopped' = TRUE

\* Stop: set stopped, cancel, and wait until Start's loop has returned.
StopWorker ==
    /\ stopCall = "no"
    /\ IF loop = "no"
         THEN StopUnstarted /\ UNCHANGED cancelled
         ELSE stopCall' = "waiting" /\ isStopped' = TRUE /\ cancelled' = TRUE
    /\ UNCHANGED <<loop, asleep, faults>>

\* Fault model of Start: done is closed only by a loop that saw its context end while
\* it slept.
DoneBySleep == loop = "returned" /\ asleep

\* done is closed by every return of Start's loop.
Done == loop \in {"returned", "refused"}

StopReturnsOk ==
    /\ stopCall = "waiting" /\ Done /\ stopCall' = "ok"
    /\ UNCHANGED <<loop, isStopped, cancelled, asleep, faults>>

StopCtxExpires ==
    /\ stopCall = "waiting" /\ Fault /\ stopCall' = "expired"
    /\ UNCHANGED <<loop, isStopped, cancelled, asleep>>

WorkerStep == FirstBatch \/ BatchEnds \/ NextBatch \/ LoopEnds

WorkerNext ==
    \/ StartWorker \/ WorkerStep \/ ParentEnds
    \/ StopWorker \/ StopReturnsOk \/ StopCtxExpires

\* Batches return, timers fire, and a sleeping loop whose context is cancelled is woken.
WorkerFairness == WF_workerVars(WorkerStep) /\ WF_workerVars(StopReturnsOk)

WorkerSpec == WorkerInit /\ [][WorkerNext]_workerVars /\ WorkerFairness

------------------------------------------------------------------------------
\* After Stop returned nil no batch runs and none is started, whichever of Start and
\* Stop came first.
QuietAfterStop == stopCall = "ok" => loop \in {"no", "refused", "returned"}

\* A cancelled worker leaves its loop and Stop returns.
WorkerSettled == stopCall # "waiting" /\ (cancelled => loop \in {"no", "refused", "returned"})

-------------------------------------------------------------------------------
(***************************************************************************)
(* runtime/cron: one job of a Scheduler on several replicas, with a leader *)
(* gate that is asked when the job fires, and Start racing Stop.  The      *)
(* robfig/cron engine is external: it fires while it runs, skips a job     *)
(* that still runs, and its Stop waits for the jobs it has fired.          *)
(***************************************************************************)

CONSTANT Replicas

VARIABLES
    sched,    \* per replica: Start, the stopped flag, s.ctx, the engine, Stop
    job,      \* per replica: "idle", "fired", "checked" (context looked at) or "running"
    leader,   \* replicas whose leader predicate is true: at most one
    deposed   \* replicas that lost leadership while their job was past the gate

cron == <<sched, job, leader, deposed>>
cronVars == <<cron, faults>>

CronTypeOK ==
    /\ sched \in [Replicas -> [start: {"no", "marked", "serving", "returned", "refused"},
                               halted: BOOLEAN, cancelled: BOOLEAN, engine: BOOLEAN,
                               stop: {"no", "cancelled", "waiting", "ok", "expired"}]]
    /\ job \in [Replicas -> {"idle", "fired", "checked", "running"}]
    /\ leader \subseteq Replicas /\ Cardinality(leader) <= 1
    /\ deposed \subseteq Replicas /\ faults \in 0 .. MaxFaults

CronInit ==
    /\ sched = [r \in Replicas |-> [start |-> "no", halted |-> FALSE, cancelled |-> FALSE,
                                    engine |-> FALSE, stop |-> "no"]]
    /\ job = [r \in Replicas |-> "idle"]
    /\ leader = {} /\ deposed = {} /\ faults = 0

Keep == UNCHANGED <<job, leader, deposed, faults>>

\* Scheduler.Start up to the unlock, the engine's start, and its end with the context.
CronStart(r) ==
    /\ sched[r].start = "no"
    /\ sched' = [sched EXCEPT ![r].start = IF sched[r].halted THEN "refused" ELSE "marked"]
    /\ Keep

EngineStart(r) ==
    /\ sched[r].start = "marked"
    /\ sched' = [sched EXCEPT ![r].start = "serving", ![r].engine = TRUE]
    /\ Keep

StartReturns(r) ==
    /\ sched[r].start = "serving" /\ sched[r].cancelled
    /\ sched' = [sched EXCEPT ![r].start = "returned", ![r].engine = FALSE]
    /\ Keep

\* The context given to Start ends.
ParentCancelled(r) ==
    /\ sched[r].start = "serving" /\ ~sched[r].cancelled
    /\ sched' = [sched EXCEPT ![r].cancelled = TRUE]
    /\ Keep

\* Scheduler.Stop: set stopped and cancel s.ctx when Start made one; then stop the
\* engine; then wait for the jobs.
CronStop(r) ==
    /\ sched[r].stop = "no"
    /\ sched' = [sched EXCEPT ![r].halted = TRUE, ![r].stop = "cancelled",
                              ![r].cancelled = @ \/ sched[r].start # "no"]
    /\ Keep

EngineStop(r) ==
    /\ sched[r].stop = "cancelled"
    /\ sched' = [sched EXCEPT ![r].stop = "waiting", ![r].engine = FALSE]
    /\ Keep

CronStopReturns(r) ==
    /\ sched[r].stop = "waiting"
    /\ \/ job[r] = "idle" /\ sched' = [sched EXCEPT ![r].stop = "ok"] /\ UNCHANGED faults
       \/ job[r] # "idle" /\ Fault /\ sched' = [sched EXCEPT ![r].stop = "expired"]
    /\ UNCHANGED <<job, leader, deposed>>

\* The engine fires; SkipIfStillRunning drops the firing of a job that still runs.
Fire(r) ==
    /\ sched[r].engine /\ job[r] = "idle" /\ job' = [job EXCEPT ![r] = "fired"]
    /\ UNCHANGED <<sched, leader, deposed, faults>>

\* Fault model of wrapJob: the scheduler's context is not looked at.
CheckNoContext(r) == job' = [job EXCEPT ![r] = "checked"]

\* wrapJob: a job that fires while the scheduler stops is skipped.
CheckContext(r) == job' = [job EXCEPT ![r] = IF sched[r].cancelled THEN "idle" ELSE "checked"]

JobChecksContext(r) ==
    /\ job[r] = "fired" /\ CheckContext(r)
    /\ UNCHANGED <<sched, leader, deposed, faults>>

\* Fault model of isLeader: a panic of the predicate lets the job run.
GatePanicOpens(r) == TRUE

\* isLeader recovers a panic of the predicate to false.
GatePanic(r) == FALSE

\* The leader gate, and the job's function; its error or panic is only recorded.
JobChecksLeader(r) ==
    /\ job[r] = "checked"
    /\ \/ job' = [job EXCEPT ![r] = IF r \in leader THEN "running" ELSE "idle"]
          /\ UNCHANGED faults
       \/ Fault /\ job' = [job EXCEPT ![r] = IF GatePanic(r) THEN "running" ELSE "idle"]
    /\ UNCHANGED <<sched, leader, deposed>>

JobEnds(r) ==
    /\ job[r] = "running" /\ job' = [job EXCEPT ![r] = "idle"]
    /\ deposed' = deposed \ {r}
    /\ UNCHANGED <<sched, leader, faults>>

\* Leadership moves, also while the old leader's job runs.
Elect(l) ==
    /\ l # leader /\ leader' = l
    /\ deposed' = deposed \union {r \in leader : job[r] = "running"}
    /\ UNCHANGED <<sched, job, faults>>

JobStep(r) == JobChecksContext(r) \/ JobChecksLeader(r) \/ JobEnds(r)
CronStep(r) == EngineStart(r) \/ StartReturns(r) \/ EngineStop(r) \/ CronStopReturns(r)

CronNext ==
    \/ \E r \in Replicas : \/ JobStep(r) \/ CronStep(r) \/ Fire(r)
                           \/ CronStart(r) \/ CronStop(r) \/ ParentCancelled(r)
    \/ Elect({}) \/ \E r \in Replicas : Elect({r})

\* Goroutines run and job functions return (their context ends with the job timeout).
CronFairness == \A r \in Replicas : WF_cronVars(JobStep(r)) /\ WF_cronVars(CronStep(r))

CronSpec == CronInit /\ [][CronNext]_cronVars /\ CronFairness

------------------------------------------------------------------------------
\* After Stop returned nil the job's function does not run on that replica, and does not
\* begin to, also when the engine was started after Stop had stopped it.
CronQuietAfterStop ==
    \A r \in Replicas : sched[r].stop = "ok" => job[r] \notin {"checked", "running"}

\* Two replicas run the job at once only when one of them was leader when its run began
\* and lost leadership during it: the gate is asked at the start of a run, not later.
OverlapNeedsHandover ==
    Cardinality({r \in Replicas : job[r] = "running"} \ deposed) <= 1

\* Stop and a cancelled Start return.
CronSettled ==
    \A r \in Replicas : /\ sched[r].stop \in {"no", "ok", "expired"}
                        /\ sched[r].cancelled => sched[r].start = "returned"

-------------------------------------------------------------------------------
(***************************************************************************)
(* data/lock/redislock and its redlock sibling: WithLock over one Redis    *)
(* or over a quorum of independent ones.  redsync, which sets, deletes and *)
(* touches the keys, is external.  A key's lifetime is two events: its TTL *)
(* runs out (the key is aged), then the server removes it.                 *)
(***************************************************************************)

CONSTANTS LockCallers, LockNodes, TryCount

ASSUME LockAssumption == TryCount \in Nat \ {0} /\ IsFiniteSet(LockNodes)

NoOwner == "nobody"

VARIABLES
    pools,      \* the Redis instances of this deployment: one, or all of LockNodes
    maxTries,   \* WithRetry's attempts
    key,        \* per instance: the key's owner and whether its TTL has run out
    section,    \* per caller: its place in WithLock
    ahead,      \* per caller: the instances the current round has not reached yet
    tally,      \* per caller: deletes of its release that hit its key, and that missed
    lockCancelled,  \* the callers whose context has ended
    tainted,    \* the callers whose commands Redis failed
    overlapped  \* the callers during whose section another one entered its own

lockState == <<pools, maxTries, key, section, ahead, tally, lockCancelled, tainted, overlapped>>
lockVars == <<lockState, faults>>

Places == {"idle", "try", "in", "release", "ok", "lost", "not"}

LockTypeOK ==
    /\ pools \subseteq LockNodes /\ pools # {} /\ maxTries \in 1 .. TryCount
    /\ key \in [LockNodes -> [owner : LockCallers \cup {NoOwner}, aged : BOOLEAN]]
    /\ section \in [LockCallers -> [at : Places, tries : 0 .. TryCount, slow : BOOLEAN]]
    /\ ahead \in [LockCallers -> SUBSET LockNodes]
    /\ tally \in [LockCallers -> [hit : 0 .. Cardinality(LockNodes), miss : 0 .. Cardinality(LockNodes)]]
    /\ lockCancelled \subseteq LockCallers /\ tainted \subseteq LockCallers /\ overlapped \subseteq LockCallers
    /\ faults \in 0 .. MaxFaults

FreeKey == [owner |-> NoOwner, aged |-> FALSE]

LockInit ==
    /\ \/ pools = {CHOOSE n \in LockNodes : TRUE} /\ maxTries \in 1 .. TryCount
       \/ pools = LockNodes /\ maxTries = 1   \* bound: the quorum is explored with one try
    /\ key = [n \in LockNodes |-> FreeKey]
    /\ section = [c \in LockCallers |-> [at |-> "idle", tries |-> 0, slow |-> FALSE]]
    /\ ahead = [c \in LockCallers |-> {}] /\ tally = [c \in LockCallers |-> [hit |-> 0, miss |-> 0]]
    /\ lockCancelled = {} /\ tainted = {} /\ overlapped = {} /\ faults = 0

Owned(c) == {n \in pools : key[n].owner = c}
IsQuorum(k) == 2 * k > Cardinality(pools)
Inside == {c \in LockCallers : section[c].at = "in"}

Drop(c, ns) == [n \in LockNodes |-> IF n \in ns /\ key[n].owner = c THEN FreeKey ELSE key[n]]

\* WithLock calls Acquire; a DegradedLocker whose connection is unhealthy refuses.
Acquire(c) ==
    /\ section[c].at = "idle"
    /\ \/ /\ section' = [section EXCEPT ![c] = [at |-> "try", tries |-> 1, slow |-> FALSE]]
          /\ ahead' = [ahead EXCEPT ![c] = pools] /\ UNCHANGED faults
       \/ Fault /\ section' = [section EXCEPT ![c].at = "not"] /\ UNCHANGED ahead
    /\ UNCHANGED <<pools, maxTries, key, tally, lockCancelled, tainted, overlapped>>

\* One SET NX of the current try.
SetNX(c, n) ==
    /\ section[c].at = "try" /\ n \in ahead[c]
    /\ ahead' = [ahead EXCEPT ![c] = @ \ {n}]
    /\ \/ /\ key' = IF key[n].owner = NoOwner THEN [key EXCEPT ![n] = [owner |-> c, aged |-> FALSE]] ELSE key
          /\ UNCHANGED <<faults, tainted>>
       \/ Fault /\ tainted' = tainted \cup {c} /\ UNCHANGED key
    /\ UNCHANGED <<pools, maxTries, section, tally, lockCancelled, overlapped>>

\* LockContext has heard from every instance.  With a quorum inside the TTL Acquire
\* returns the handle and fn runs; otherwise the keys are deleted again, and a new try
\* follows unless there is none left or the context has ended.
EndTry(c) ==
    /\ section[c].at = "try" /\ ahead[c] = {}
    /\ IF IsQuorum(Cardinality(Owned(c))) /\ ~section[c].slow
       THEN /\ section' = [section EXCEPT ![c].at = "in"]
            /\ overlapped' = overlapped \cup Inside
            /\ UNCHANGED <<key, ahead, faults, tainted>>
       ELSE /\ \/ key' = Drop(c, pools) /\ UNCHANGED <<faults, tainted>>
               \/ Fault /\ tainted' = tainted \cup {c} /\ UNCHANGED key
            /\ IF section[c].tries < maxTries /\ c \notin lockCancelled
               THEN /\ section' = [section EXCEPT ![c] = [at |-> "try", tries |-> @.tries + 1, slow |-> FALSE]]
                    /\ ahead' = [ahead EXCEPT ![c] = pools]
               ELSE section' = [section EXCEPT ![c].at = "not"] /\ UNCHANGED ahead
            /\ UNCHANGED overlapped
    /\ UNCHANGED <<pools, maxTries, tally, lockCancelled>>

\* DoExtend: redsync renews the TTL on every instance that still has the caller's token;
\* (false, nil) and a backend error leave the handle as it is.
Extend(c) ==
    /\ section[c].at = "in" /\ \E n \in Owned(c) : key[n].aged
    /\ \E reached \in SUBSET pools :
        /\ reached # pools => Fault
        /\ reached = pools => UNCHANGED faults
        /\ key' = [n \in LockNodes |-> IF n \in reached \cap Owned(c) THEN [key[n] EXCEPT !.aged = FALSE] ELSE key[n]]
    /\ UNCHANGED <<pools, maxTries, section, ahead, tally, lockCancelled, tainted, overlapped>>

\* fn returns, fails or panics: the deferred release starts.
LockedFnEnds(c) ==
    /\ section[c].at = "in"
    /\ section' = [section EXCEPT ![c].at = "release"]
    /\ ahead' = [ahead EXCEPT ![c] = pools] /\ tally' = [tally EXCEPT ![c] = [hit |-> 0, miss |-> 0]]
    /\ UNCHANGED <<pools, maxTries, key, lockCancelled, tainted, overlapped, faults>>

CancelContext(c) ==
    /\ section[c].at \in {"try", "in"} /\ c \notin lockCancelled /\ Fault
    /\ lockCancelled' = lockCancelled \cup {c}
    /\ UNCHANGED <<pools, maxTries, key, section, ahead, tally, tainted, overlapped>>

\* UnlockContext deletes the key where it still has the caller's token.
DeleteKey(c, n) ==
    \/ /\ key' = Drop(c, {n}) /\ UNCHANGED <<faults, tainted>>
       /\ tally' = IF key[n].owner = c THEN [tally EXCEPT ![c].hit = @ + 1] ELSE [tally EXCEPT ![c].miss = @ + 1]
    \/ Fault /\ tainted' = tainted \cup {c} /\ UNCHANGED <<key, tally>>

\* Fault model of Delete: the release runs in the caller's context.
DeleteInCallerContext(c, n) ==
    /\ section[c].at = "release" /\ n \in ahead[c]
    /\ ahead' = [ahead EXCEPT ![c] = @ \ {n}]
    /\ IF c \in lockCancelled THEN UNCHANGED <<key, tally, tainted, faults>> ELSE DeleteKey(c, n)
    /\ UNCHANGED <<pools, maxTries, section, lockCancelled, overlapped>>

\* DetachedReleaseContext: the end of the caller's context does not reach the release.
Delete(c, n) ==
    /\ section[c].at = "release" /\ n \in ahead[c]
    /\ ahead' = [ahead EXCEPT ![c] = @ \ {n}]
    /\ DeleteKey(c, n)
    /\ UNCHANGED <<pools, maxTries, section, lockCancelled, overlapped>>

\* Fault model of Released: a release that finds the key gone has nothing left to do.
ReleasedAnyway(c) == TRUE

\* DoRelease: a quorum of deletes is a release, a miss among fewer is a lost lock, and
\* ReleaseAndJoin only logs an error of the backend.
Released(c) == IsQuorum(tally[c].hit) \/ tally[c].miss = 0

EndRelease(c) ==
    /\ section[c].at = "release" /\ ahead[c] = {}
    /\ section' = [section EXCEPT ![c].at = IF Released(c) THEN "ok" ELSE "lost"]
    /\ UNCHANGED <<pools, maxTries, key, ahead, tally, lockCancelled, tainted, overlapped, faults>>

\* The TTL of the caller's keys runs out; a try it runs out in is too slow.
TTLElapses(c) ==
    /\ \E n \in Owned(c) : ~key[n].aged
    /\ key' = [n \in LockNodes |-> IF n \in Owned(c) THEN [key[n] EXCEPT !.aged = TRUE] ELSE key[n]]
    /\ section' = [section EXCEPT ![c].slow = @ \/ section[c].at = "try"]
    /\ UNCHANGED <<pools, maxTries, ahead, tally, lockCancelled, tainted, overlapped, faults>>

\* The server drops an aged key, or loses a live one in a restart or a failover.
LoseKey(n) ==
    /\ key[n].owner # NoOwner
    /\ IF key[n].aged THEN UNCHANGED faults ELSE Fault
    /\ key' = [key EXCEPT ![n] = FreeKey]
    /\ UNCHANGED <<pools, maxTries, section, ahead, tally, lockCancelled, tainted, overlapped>>

RedisLockStep(c) == EndTry(c) \/ LockedFnEnds(c) \/ EndRelease(c) \/ \E n \in pools : SetNX(c, n) \/ Delete(c, n)

LockNext ==
    \/ \E c \in LockCallers : Acquire(c) \/ RedisLockStep(c) \/ Extend(c) \/ CancelContext(c) \/ TTLElapses(c)
    \/ \E n \in LockNodes : LoseKey(n)

LockFairness == \A c \in LockCallers : WF_lockVars(RedisLockStep(c))

LockSpec == LockInit /\ [][LockNext]_lockVars /\ LockFairness

\* What WithLock tells its caller, when no command of its own failed.  A nil error means
\* that no other caller entered while its fn ran, however often keys expired or were
\* lost; and whatever the answer, also to a caller whose context had ended, no instance
\* holds its token afterwards.
LockLossIsReported ==
    \A c \in LockCallers \ tainted :
        /\ section[c].at = "ok" => c \notin overlapped
        /\ section[c].at \in {"ok", "lost", "not"} => Owned(c) = {}

LockSettled == \A c \in LockCallers : section[c].at \in {"idle", "ok", "lost", "not"}
================================================================================
