------------------------------ MODULE Elector ------------------------------
(***************************************************************************)
(* Leader election over one shared lock: the Run loop of                   *)
(* infra/leaderelection/{redislock,pgadvisory,etcd} and the lock clients   *)
(* it drives (data/lock/{redislock,pgadvisory}, etcd's session/election).  *)
(*                                                                         *)
(* The three backends run the same term - acquire, hold, drain the         *)
(* OnAcquired goroutine, OnLost, give the lock back - but differ in what   *)
(* keeps the lock alive (an expiring key that Extend resets; a database    *)
(* session; a lease kept alive in the background) and in the order of the  *)
(* last steps.  backend is chosen once and the per-backend actions carry   *)
(* their own name.                                                         *)
(***************************************************************************)
EXTENDS Integers, FiniteSets

CONSTANTS Replicas,           \* replicas competing for the key
          NoHolder,           \* the lock is free
          Ghost,              \* the lock is held by a token no process knows any more
          Backends,           \* subset of {"redis", "pg", "etcd"}
          TTL,                \* life of the key / lease, in ticks
          RenewTicks,         \* renewInterval, in ticks
          DrainTimeouts,      \* is WithCallbackDrainTimeout configured?
          RenewsTimely,       \* are the renewals of a live process on schedule?
          ElectorFaultKinds,  \* which faults the environment injects ...
          MaxElectorFaults    \* ... and how many (bound)

ASSUME ElectorAssumption ==
    /\ Backends \subseteq {"redis", "pg", "etcd"}
    /\ NoHolder \notin Replicas /\ Ghost \notin Replicas /\ NoHolder # Ghost
    /\ RenewTicks \in Nat \ {0} /\ TTL \in Nat /\ TTL > RenewTicks
    /\ MaxElectorFaults \in Nat

VARIABLES backend,       \* which implementation runs
          holder,        \* server side: who owns the lock
          ttl,           \* server side: ticks before an owned key / lease expires
          stage,         \* where the Run goroutine is
          leader,        \* Elector.leader, what IsLeader reports
          cb,            \* the OnAcquired goroutine
          ctxCancelled,  \* leader ctx cancelled by the elector itself
          stop,          \* Run's ctx cancelled
          lostOwed,      \* a term was acquired and its OnLost has not run yet
          timedOut,      \* the drain of this term timed out
          since,         \* ticks since the lock was last (re)newed
          electorFaults  \* faults injected so far

srv == <<holder, ttl>>
term == <<leader, cb, ctxCancelled, lostOwed, timedOut, since>>
electorVars == <<backend, holder, ttl, stage, leader, cb, ctxCancelled, stop, lostOwed, timedOut,
                 since, electorFaults>>

InTerm == {"lead", "extend", "drain", "resign", "lost"}
Stages == InTerm \cup {"down", "acquire", "release", "close", "failed"}

ElectorTypeOK ==
    /\ backend \in Backends
    /\ holder \in Replicas \cup {NoHolder, Ghost}
    /\ ttl \in 0..TTL /\ (ttl = 0 <=> holder = NoHolder)
    /\ stage \in [Replicas -> Stages]
    /\ leader \in [Replicas -> BOOLEAN] /\ ctxCancelled \in [Replicas -> BOOLEAN]
    /\ stop \in [Replicas -> BOOLEAN] /\ lostOwed \in [Replicas -> BOOLEAN]
    /\ timedOut \in [Replicas -> BOOLEAN]
    /\ cb \in [Replicas -> {"none", "running", "done"}]
    /\ since \in [Replicas -> 0..TTL]
    /\ electorFaults \in 0..MaxElectorFaults

ElectorInit ==
    /\ backend \in Backends
    /\ holder = NoHolder /\ ttl = 0
    /\ stage = [p \in Replicas |-> "acquire"]
    /\ leader = [p \in Replicas |-> FALSE] /\ ctxCancelled = leader /\ stop = leader
    /\ lostOwed = leader /\ timedOut = leader
    /\ cb = [p \in Replicas |-> "none"]
    /\ since = [p \in Replicas |-> 0]
    /\ electorFaults = 0

-----------------------------------------------------------------------------
(* Helpers.                                                                *)

\* Another fault of this kind may still happen.
ElectorFault(kind) ==
    /\ kind \in ElectorFaultKinds /\ electorFaults < MaxElectorFaults
    /\ electorFaults' = electorFaults + 1

\* The ctx handed to OnAcquired is still live: it is a child of Run's ctx, so
\* cancelling either one cancels it.
LiveCtx(p) == cb[p] = "running" /\ ~ctxCancelled[p] /\ ~stop[p]

\* What a replica may act on: the flag other goroutines poll, or the ctx.
Leads(p) == leader[p] \/ LiveCtx(p)

SetHolder(h, t) == holder' = h /\ ttl' = t

GoTo(p, l) == stage' = [stage EXCEPT ![p] = l]

\* Store(false), cancel(), then wait for the callback.
StepDown(p) ==
    /\ leader' = [leader EXCEPT ![p] = FALSE]
    /\ ctxCancelled' = [ctxCancelled EXCEPT ![p] = TRUE]
    /\ GoTo(p, "drain")
    /\ UNCHANGED <<backend, cb, stop, lostOwed, timedOut, since>>

\* etcd resigns as soon as the callback is gone; the lock-based electors call
\* OnLost first.
AfterHold == IF backend = "etcd" THEN "resign" ELSE "lost"

\* How Run goes on once a term is over.
AfterTerm(p) == IF timedOut[p] THEN "failed"
                ELSE IF stop[p] THEN "down" ELSE "acquire"

-----------------------------------------------------------------------------
(* Acquiring.                                                              *)

\* The lock is granted; leader.Store(true); OnAcquired starts.
BeginTerm(p) ==
    /\ SetHolder(p, TTL)
    /\ GoTo(p, "lead")
    /\ leader' = [leader EXCEPT ![p] = TRUE]
    /\ cb' = [cb EXCEPT ![p] = "running"]
    /\ ctxCancelled' = [ctxCancelled EXCEPT ![p] = FALSE]
    /\ lostOwed' = [lostOwed EXCEPT ![p] = TRUE]
    /\ since' = [since EXCEPT ![p] = 0]
    /\ UNCHANGED <<backend, stop, timedOut, electorFaults>>

\* Locker.Acquire of either lock client; a held lock is (nil, false, nil) and
\* Run sleeps and asks again, which changes nothing.
Acquire(p) ==
    /\ backend \in {"redis", "pg"} /\ stage[p] = "acquire" /\ ~stop[p]
    /\ holder = NoHolder
    /\ BeginTerm(p)

\* Acquire fails although the server may have granted the lock: the Redis key
\* stays until its TTL, the Postgres connection is discarded and with it the lock.
AcquireError(p) ==
    /\ backend \in {"redis", "pg"} /\ stage[p] = "acquire" /\ ElectorFault("acquire")
    /\ \/ backend = "redis" /\ holder = NoHolder /\ SetHolder(Ghost, TTL)
       \/ UNCHANGED srv
    /\ UNCHANGED <<backend, stage, stop, term>>

\* sessionFactory and Campaign: blocks until the lease of this session owns the
\* election key.
Campaign(p) ==
    /\ backend = "etcd" /\ stage[p] = "acquire" /\ ~stop[p]
    /\ holder = NoHolder
    /\ BeginTerm(p)

\* Run sees its ctx cancelled while it is not the leader.
ReturnIdle(p) ==
    /\ stage[p] = "acquire" /\ stop[p]
    /\ GoTo(p, "down")
    /\ UNCHANGED <<backend, srv, stop, term, electorFaults>>

-----------------------------------------------------------------------------
(* Holding.                                                                *)

\* parent.Done() (redislock, pgadvisory) or leaderCtx.Done() (etcd).
CtxDone(p) ==
    /\ stage[p] = "lead" /\ stop[p]
    /\ StepDown(p)
    /\ UNCHANGED <<srv, electorFaults>>

\* OnAcquired returned (or panicked) while still leader: no drain.
CallbackDone(p) ==
    /\ stage[p] = "lead" /\ cb[p] = "done"
    /\ cb' = [cb EXCEPT ![p] = "none"]
    /\ leader' = [leader EXCEPT ![p] = FALSE]
    /\ GoTo(p, AfterHold)
    /\ UNCHANGED <<backend, srv, stop, ctxCancelled, lostOwed, timedOut, since, electorFaults>>

\* renewTicker / healthTicker fires; the call is out.
BeginExtend(p) ==
    /\ backend \in {"redis", "pg"} /\ stage[p] = "lead" /\ since[p] >= RenewTicks
    /\ GoTo(p, "extend")
    /\ UNCHANGED <<backend, srv, stop, term, electorFaults>>

\* Fault model: a renewal adds to the remaining life of the key.
ExtendOKAdds(p) ==
    /\ stage[p] = "extend" /\ holder = p
    /\ SetHolder(p, ttl + TTL)
    /\ since' = [since EXCEPT ![p] = 0]
    /\ GoTo(p, "lead")
    /\ UNCHANGED <<backend, stop, leader, cb, ctxCancelled, lostOwed, timedOut, electorFaults>>

\* Extend answers true: the key's TTL is reset, the session answered the ping.
ExtendOK(p) ==
    /\ stage[p] = "extend" /\ holder = p
    /\ SetHolder(p, TTL)
    /\ since' = [since EXCEPT ![p] = 0]
    /\ GoTo(p, "lead")
    /\ UNCHANGED <<backend, stop, leader, cb, ctxCancelled, lostOwed, timedOut, electorFaults>>

\* Fault model: a failed renewal is only logged; the loop waits for the next tick.
ExtendFailsLogged(p) ==
    /\ stage[p] = "extend"
    /\ \/ (holder # p \/ stop[p]) /\ UNCHANGED electorFaults
       \/ ElectorFault("renew")
    /\ since' = [since EXCEPT ![p] = 0]
    /\ GoTo(p, "lead")
    /\ UNCHANGED <<backend, srv, stop, leader, cb, ctxCancelled, lostOwed, timedOut>>

\* Extend answers false (the token no longer owns the key), the session is dead,
\* the ctx is cancelled, or the call fails - before or after it took effect.
ExtendFails(p) ==
    /\ stage[p] = "extend"
    /\ \/ (holder # p \/ stop[p]) /\ UNCHANGED electorFaults
       \/ ElectorFault("renew")
    /\ \/ UNCHANGED srv
       \/ backend = "redis" /\ holder = p /\ SetHolder(p, TTL)
    /\ StepDown(p)

\* etcd's client keeps the lease alive in the background until the session is
\* closed or its ctx - Run's ctx - is cancelled.
KeepAlive(p) ==
    /\ backend = "etcd" /\ holder = p /\ ~stop[p]
    /\ stage[p] \in {"lead", "resign", "lost", "close"}
    /\ ttl < TTL
    /\ SetHolder(p, TTL)
    /\ since' = [since EXCEPT ![p] = 0]
    /\ UNCHANGED <<backend, stage, stop, leader, cb, ctxCancelled, lostOwed, timedOut,
                   electorFaults>>

\* sess.Done() closes: the watcher cancels the leader ctx, the hold loop drops
\* the flag and drains.
SessionDone(p) ==
    /\ backend = "etcd" /\ stage[p] = "lead" /\ holder # p
    /\ StepDown(p)
    /\ UNCHANGED <<srv, electorFaults>>

-----------------------------------------------------------------------------
(* The end of a term.                                                      *)

\* Fault models: the lock is given back as soon as the callback is gone; the
\* drain does not wait for the callback.
DrainedFrees(p) ==
    /\ stage[p] = "drain" /\ cb[p] = "done"
    /\ cb' = [cb EXCEPT ![p] = "none"]
    /\ IF holder = p THEN SetHolder(NoHolder, 0) ELSE UNCHANGED srv
    /\ GoTo(p, AfterHold)
    /\ UNCHANGED <<backend, stop, leader, ctxCancelled, lostOwed, timedOut, since, electorFaults>>

DrainedAtOnce(p) ==
    /\ stage[p] = "drain"
    /\ cb' = [cb EXCEPT ![p] = IF @ = "done" THEN "none" ELSE @]
    /\ GoTo(p, AfterHold)
    /\ UNCHANGED <<backend, srv, stop, leader, ctxCancelled, lostOwed, timedOut, since,
                   electorFaults>>

\* awaitCallbackDrain receives cbDone.
Drained(p) ==
    /\ stage[p] = "drain" /\ cb[p] = "done"
    /\ cb' = [cb EXCEPT ![p] = "none"]
    /\ GoTo(p, AfterHold)
    /\ UNCHANGED <<backend, srv, stop, leader, ctxCancelled, lostOwed, timedOut, since,
                   electorFaults>>

\* awaitCallbackDrain gives up; the OnAcquired goroutine is left running.
DrainTimeout(p) ==
    /\ DrainTimeouts /\ stage[p] = "drain"
    /\ timedOut' = [timedOut EXCEPT ![p] = TRUE]
    /\ cb' = [cb EXCEPT ![p] = IF @ = "done" THEN "none" ELSE @]
    /\ GoTo(p, AfterHold)
    /\ UNCHANGED <<backend, srv, stop, leader, ctxCancelled, lostOwed, since, electorFaults>>

\* Fault model: redislock releases whatever the drain did.
AfterLostReleases(p) == IF backend = "etcd" THEN "close" ELSE "release"

\* runOnLost; redislock returns here after a drain timeout, without releasing.
AfterLost(p) == IF backend = "etcd" THEN "close"
                ELSE IF backend = "redis" /\ timedOut[p] THEN "failed" ELSE "release"

OnLost(p) ==
    /\ stage[p] = "lost"
    /\ lostOwed' = [lostOwed EXCEPT ![p] = FALSE]
    /\ GoTo(p, AfterLost(p))
    /\ UNCHANGED <<backend, srv, stop, leader, cb, ctxCancelled, timedOut, since, electorFaults>>

\* handle.Release of the Redis lock: frees the key if the token still owns it;
\* on a transport error the key is left to its TTL.
RedisRelease(p) ==
    /\ backend = "redis" /\ stage[p] = "release"
    /\ \/ holder = p /\ SetHolder(NoHolder, 0) /\ UNCHANGED electorFaults
       \/ holder # p /\ UNCHANGED <<srv, electorFaults>>
       \/ holder = p /\ ElectorFault("release") /\ SetHolder(Ghost, ttl)
    /\ GoTo(p, AfterTerm(p))
    /\ UNCHANGED <<backend, stop, term>>

\* Fault model: the connection goes back to the pool with the lock still held.
PgReleaseLeaks(p) ==
    /\ backend = "pg" /\ stage[p] = "release"
    /\ IF holder = p THEN SetHolder(Ghost, ttl) ELSE UNCHANGED srv
    /\ GoTo(p, AfterTerm(p))
    /\ UNCHANGED <<backend, stop, term, electorFaults>>

\* handle.Release of the advisory lock: unlocked, or the connection is discarded
\* and the session ends; either way the lock is gone.
PgRelease(p) ==
    /\ backend = "pg" /\ stage[p] = "release"
    /\ IF holder = p THEN SetHolder(NoHolder, 0) ELSE UNCHANGED srv
    /\ GoTo(p, AfterTerm(p))
    /\ UNCHANGED <<backend, stop, term, electorFaults>>

\* elect.Resign on a detached ctx: deletes the election key if it is still ours.
Resign(p) ==
    /\ backend = "etcd" /\ stage[p] = "resign"
    /\ \/ holder = p /\ SetHolder(NoHolder, 0) /\ UNCHANGED electorFaults
       \/ holder # p /\ UNCHANGED <<srv, electorFaults>>
       \/ holder = p /\ ElectorFault("release") /\ UNCHANGED srv
    /\ GoTo(p, "lost")
    /\ UNCHANGED <<backend, stop, term>>

\* The deferred sess.Close revokes the lease, unless Run's ctx is cancelled: then
\* the lease is left to its TTL.
CloseSession(p) ==
    /\ backend = "etcd" /\ stage[p] = "close"
    /\ CASE holder # p -> UNCHANGED srv
         [] holder = p /\ stop[p] -> SetHolder(Ghost, ttl)
         [] holder = p /\ ~stop[p] -> SetHolder(NoHolder, 0)
    /\ GoTo(p, AfterTerm(p))
    /\ UNCHANGED <<backend, stop, term, electorFaults>>

-----------------------------------------------------------------------------
(* The environment.                                                        *)

\* OnAcquired returns, by itself or because its ctx was cancelled.
CallbackReturns(p) ==
    /\ cb[p] = "running"
    /\ cb' = [cb EXCEPT ![p] = IF stage[p] \in {"lead", "extend", "drain"}
                               THEN "done" ELSE "none"]
    /\ UNCHANGED <<backend, srv, stage, stop, leader, ctxCancelled, lostOwed, timedOut,
                   since, electorFaults>>

\* A process ends: what its Run knew is gone.  A session-scoped lock ends with
\* it, a key or a lease outlives it.
ReplicaEnds(p) ==
    /\ GoTo(p, "down")
    /\ leader' = [leader EXCEPT ![p] = FALSE]
    /\ cb' = [cb EXCEPT ![p] = "none"]
    /\ ctxCancelled' = [ctxCancelled EXCEPT ![p] = FALSE]
    /\ lostOwed' = [lostOwed EXCEPT ![p] = FALSE]
    /\ timedOut' = [timedOut EXCEPT ![p] = FALSE]
    /\ since' = [since EXCEPT ![p] = 0]
    /\ CASE holder # p -> UNCHANGED srv
         [] holder = p /\ backend = "pg" -> SetHolder(NoHolder, 0)
         [] holder = p /\ backend # "pg" -> SetHolder(Ghost, ttl)
    /\ UNCHANGED <<backend, stop>>

ElectorCrash(p) == stage[p] # "down" /\ ElectorFault("crash") /\ ReplicaEnds(p)

\* The orchestrator replaces a process whose Run reported a drain timeout.
Replace(p) == stage[p] = "failed" /\ ReplicaEnds(p) /\ UNCHANGED electorFaults

\* Run is called (again).
ElectorStart(p) ==
    /\ stage[p] = "down"
    /\ GoTo(p, "acquire")
    /\ stop' = [stop EXCEPT ![p] = FALSE]
    /\ UNCHANGED <<backend, srv, term, electorFaults>>

\* Run's ctx is cancelled.
ElectorStop(p) ==
    /\ stage[p] \notin {"down", "failed"} /\ ~stop[p] /\ ElectorFault("stop")
    /\ stop' = [stop EXCEPT ![p] = TRUE]
    /\ UNCHANGED <<backend, srv, stage, term>>

\* The server drops the lock: eviction, failover, an ended session.
Lose ==
    /\ holder # NoHolder /\ ElectorFault("lost")
    /\ SetHolder(NoHolder, 0)
    /\ UNCHANGED <<backend, stage, stop, term>>

\* Renewals are on schedule: at most one interval between them, and a call in
\* flight is given up after one more (extendOnce).
OnSchedule(p) ==
    Leads(p) => since[p] < (IF stage[p] = "extend" THEN 2 * RenewTicks ELSE RenewTicks)

\* Time passes; keys and leases expire, session locks do not.
ElectorTick ==
    /\ RenewsTimely => \A p \in Replicas : OnSchedule(p)
    /\ \/ holder # NoHolder
       \/ \E p \in Replicas : leader[p] /\ since[p] < RenewTicks
    /\ since' = [p \in Replicas |-> IF leader[p] /\ since[p] < TTL
                                    THEN since[p] + 1 ELSE since[p]]
    /\ IF backend = "pg" \/ holder = NoHolder THEN UNCHANGED srv
       ELSE SetHolder(IF ttl = 1 THEN NoHolder ELSE holder, ttl - 1)
    /\ UNCHANGED <<backend, stage, stop, leader, cb, ctxCancelled, lostOwed, timedOut,
                   electorFaults>>

-----------------------------------------------------------------------------
ElectorStep(p) ==
    \/ Acquire(p) \/ Campaign(p) \/ ReturnIdle(p)
    \/ CtxDone(p) \/ CallbackDone(p)
    \/ BeginExtend(p) \/ ExtendOK(p) \/ ExtendFails(p)
    \/ SessionDone(p)
    \/ Drained(p) \/ DrainTimeout(p) \/ OnLost(p)
    \/ RedisRelease(p) \/ PgRelease(p) \/ Resign(p) \/ CloseSession(p)

Env(p) == AcquireError(p) \/ ElectorCrash(p) \/ ElectorStop(p)

ElectorNext ==
    \/ \E p \in Replicas : \/ ElectorStep(p) \/ KeepAlive(p) \/ CallbackReturns(p)
                         \/ Replace(p) \/ ElectorStart(p) \/ Env(p)
    \/ Lose
    \/ ElectorTick

ElectorSpec == ElectorInit /\ [][ElectorNext]_electorVars

-----------------------------------------------------------------------------
(* Properties.                                                             *)

\* The contract of leaderelection.Callbacks: OnLost is owed exactly while a term
\* is on, it runs only once OnAcquired has returned (or its drain timed out), and
\* no new term starts in a process where an OnAcquired goroutine is left.
TermsAreBalanced ==
    \A p \in Replicas :
        /\ lostOwed[p] <=> stage[p] \in InTerm
        /\ cb[p] # "none" => stage[p] \in {"lead", "extend", "drain"} \/ timedOut[p]
        /\ stage[p] = "acquire" => cb[p] = "none" /\ ~leader[p] /\ ~timedOut[p]

\* While renewals are on schedule and the server does not drop the lock, failed
\* renewals, crashes, cancellations and lost answers never leave two replicas
\* with a live leader ctx or with IsLeader true.
ExclusiveLeadership ==
    \A p, q \in Replicas : Leads(p) /\ Leads(q) => p = q

\* Callbacks' contract again: "OnLost runs synchronously before the implementation
\* releases ... the term".  A step of Run that frees the lock finds no OnLost owed,
\* except in the etcd elector, whose runOnce resigns first.
OnLostBeforeRelease ==
    [][\A p \in Replicas :
        holder = p /\ holder' = NoHolder /\ stage'[p] # stage[p] =>
            ~lostOwed'[p] \/ backend = "etcd"]_electorVars

\* Run frees the lock while its own OnAcquired goroutine still runs only after a
\* drain timeout, and redislock not even then: it leaves the key to its TTL, since
\* "releasing would let another replica enter leadership while the orphan still
\* runs".
NoHandoverWhileRunning ==
    [][\A p \in Replicas :
        holder = p /\ holder' = NoHolder /\ stage'[p] # stage[p] /\ cb'[p] = "running" =>
            timedOut[p] /\ backend # "redis"]_electorVars

\* The lock is handed on in order: OnLost runs before it is given back, and it is
\* not given back under a running callback, save for the exceptions each backend
\* documents.
HandoverIsOrderly == OnLostBeforeRelease /\ NoHandoverWhileRunning
=============================================================================
