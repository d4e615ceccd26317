----------------------------- MODULE Connections -----------------------------
(***************************************************************************)
(* A client's view of its servers: infra/redis and                         *)
(* infra/sqldb/readreplica.                                                *)
(***************************************************************************)
EXTENDS FiniteSets, Faults, Integers

-------------------------------------------------------------------------------
(***************************************************************************)
(* infra/redis: the connection's view of the server.  One loop pings the   *)
(* server on a ticker and commits what it saw under mu; every command that *)
(* meets a READONLY reply marks the connection; Close runs beside both.    *)
(* The gauge is written after mu is released.  A change back to healthy    *)
(* starts the reconnect callback in a goroutine of its own.                *)
(***************************************************************************)

CONSTANTS MaxReconnectAttempts   \* failed pings in a row before Dead; 0: never

ASSUME RconnAssumption == MaxReconnectAttempts \in Nat

VARIABLES
    server,        \* "up", "down" or "readonly"
    pinger,        \* the health loop: its place and the ping's result
    conn,          \* what mu guards: healthy, readOnly, failures, reconnecting
    gauge,         \* connectionHealthy
    hook,          \* a command's MarkReadOnly: "none", or its gauge still to be set
    closeStage,       \* Close: "no", "closed" (the channel), "client", "flagged", "done"
    dead,          \* the channel of Dead is closed
    callback,      \* per goroutine of fireOnReconnect: "none", "starting", "running"
    watching       \* those whose inner goroutine waits for Close

rconnState == <<server, pinger, conn, gauge, hook, closeStage, dead, callback, watching>>
rconnVars == <<rconnState, faults>>

Callbacks == {1, 2}
IsClosed == closeStage # "no"

\* connectInternal, lazy or not, starts the loop with a first check.
RconnInit ==
    /\ server = "up" /\ pinger = [at |-> "ping", result |-> "none"]
    /\ \E lazy \in BOOLEAN :
        /\ conn = [healthy |-> ~lazy, readOnly |-> FALSE, failures |-> 0, reconnecting |-> FALSE]
        /\ gauge = IF lazy THEN 0 ELSE 1
    /\ hook = "none" /\ closeStage = "no" /\ dead = FALSE
    /\ callback = [i \in Callbacks |-> "none"] /\ watching = {} /\ faults = 0

\* The server fails, is demoted, comes back.
ServerChanges ==
    /\ \/ server = "up" /\ Fault /\ server' \in {"down", "readonly"}
       \/ server # "up" /\ server' = "up" /\ UNCHANGED faults
    /\ UNCHANGED <<pinger, conn, gauge, hook, closeStage, dead, callback, watching>>

PingerAt(place) == pinger' = [pinger EXCEPT !.at = place]

\* checkHealth's Ping: a demoted server mostly answers it.
Ping ==
    /\ pinger.at = "ping"
    /\ \E r \in {"ok", "error", "readonly"} :
        /\ r = "ok" => server # "down" /\ closeStage \in {"no", "closed"}
        /\ r = "error" => server = "down" \/ closeStage \notin {"no", "closed"}
        /\ r = "readonly" => server = "readonly" /\ closeStage \in {"no", "closed"}
        /\ pinger' = [at |-> "pong", result |-> r]
    /\ UNCHANGED <<server, conn, gauge, hook, closeStage, dead, callback, watching, faults>>

\* What MarkReadOnly does under mu.
Marked == [conn EXCEPT !.readOnly = TRUE, !.healthy = FALSE]

\* Fault model of CommitsOk: the answer counts although Close has run.
CommitsAlways == TRUE

CommitsOk == ~IsClosed

\* The answer is committed under mu.  A READONLY reply is no failure, but it
\* resets the count of failures only on an open connection.  The count is kept
\* no further than the limit it is compared with.
Commit ==
    /\ pinger.at = "pong"
    /\ \/ /\ pinger.result = "ok" /\ CommitsOk
          /\ conn' = [conn EXCEPT !.healthy = TRUE, !.readOnly = FALSE, !.failures = 0]
          /\ PingerAt(IF conn.healthy /\ ~conn.readOnly THEN "set" ELSE "set then fire")
          /\ UNCHANGED dead
       \/ /\ pinger.result = "ok" /\ ~CommitsOk
          /\ PingerAt("idle") /\ UNCHANGED <<conn, dead>>
       \/ /\ pinger.result = "readonly"
          /\ conn' = [Marked EXCEPT !.failures = IF IsClosed THEN conn.failures ELSE 0]
          /\ PingerAt("clear") /\ UNCHANGED dead
       \/ /\ pinger.result = "error"
          /\ conn' = [conn EXCEPT !.healthy = FALSE,
                        !.failures = IF @ < MaxReconnectAttempts THEN @ + 1 ELSE @]
          /\ dead' = (dead \/ (MaxReconnectAttempts > 0 /\ conn.failures + 1 >= MaxReconnectAttempts))
          /\ PingerAt("clear")
    /\ UNCHANGED <<server, gauge, hook, closeStage, callback, watching, faults>>

\* Then, outside mu, the gauge.
SetGauge ==
    /\ pinger.at \in {"set", "set then fire", "clear"}
    /\ gauge' = (IF pinger.at = "clear" THEN 0 ELSE 1)
    /\ PingerAt(IF pinger.at = "set then fire" THEN "fire" ELSE "idle")
    /\ UNCHANGED <<server, conn, hook, closeStage, dead, callback, watching, faults>>

\* Fault model of MayFire: every trigger starts a callback.
MayFireAlways == TRUE

MayFire == ~conn.reconnecting

\* fireOnReconnect: a trigger during a callback is skipped.
FireOnReconnect ==
    /\ pinger.at = "fire" /\ PingerAt("idle")
    /\ \/ /\ MayFire
          /\ conn' = [conn EXCEPT !.reconnecting = TRUE]
          /\ \E i \in Callbacks \ watching :
                callback[i] = "none" /\ callback' = [callback EXCEPT ![i] = "starting"]
       \/ ~MayFire /\ UNCHANGED <<conn, callback>>
    /\ UNCHANGED <<server, gauge, hook, closeStage, dead, watching, faults>>

\* The goroutine looks at the closed channel once, then calls the callback and
\* has an inner goroutine wait for Close.
StartCallback(i) ==
    /\ callback[i] = "starting"
    /\ \/ /\ IsClosed /\ callback' = [callback EXCEPT ![i] = "none"]
          /\ conn' = [conn EXCEPT !.reconnecting = FALSE] /\ UNCHANGED watching
       \/ /\ ~IsClosed /\ callback' = [callback EXCEPT ![i] = "running"]
          /\ watching' = watching \cup {i} /\ UNCHANGED conn
    /\ UNCHANGED <<server, pinger, gauge, hook, closeStage, dead, faults>>

\* The callback returns, fails or panics; after Close the inner goroutine may
\* still choose the closed channel.
EndCallback(i) ==
    /\ callback[i] = "running" /\ callback' = [callback EXCEPT ![i] = "none"]
    /\ conn' = [conn EXCEPT !.reconnecting = FALSE]
    /\ \/ watching' = watching \ {i}
       \/ IsClosed /\ UNCHANGED watching
    /\ UNCHANGED <<server, pinger, gauge, hook, closeStage, dead, faults>>

WatcherSeesClose(i) ==
    /\ i \in watching /\ IsClosed
    /\ conn' = [conn EXCEPT !.reconnecting = FALSE] /\ watching' = watching \ {i}
    /\ UNCHANGED <<server, pinger, gauge, hook, closeStage, dead, callback, faults>>

\* healthLoop's select: the ticker, and on a closed or dead connection the end;
\* when both are ready, either.
Tick ==
    /\ pinger.at = "idle" /\ PingerAt("ping")
    /\ UNCHANGED <<server, conn, gauge, hook, closeStage, dead, callback, watching, faults>>

LoopEnds ==
    /\ pinger.at = "idle" /\ (IsClosed \/ dead) /\ PingerAt("gone")
    /\ UNCHANGED <<server, conn, gauge, hook, closeStage, dead, callback, watching, faults>>

\* MarkReadOnly by a command: under mu, then the gauge if the mark is new.
MarkReadOnly ==
    /\ \/ /\ hook = "none" /\ server = "readonly" /\ Fault
          /\ conn' = Marked /\ hook' = (IF conn.readOnly THEN "none" ELSE "gauge")
          /\ UNCHANGED gauge
       \/ /\ hook = "gauge" /\ hook' = "none" /\ gauge' = 0
          /\ UNCHANGED <<conn, faults>>
    /\ UNCHANGED <<server, pinger, closeStage, dead, callback, watching>>

\* Close: the channel, the client, the flag, the gauge.
CloseStep ==
    /\ \/ closeStage = "no" /\ Fault /\ closeStage' = "closed" /\ UNCHANGED <<conn, gauge>>
       \/ closeStage = "closed" /\ closeStage' = "client" /\ UNCHANGED <<conn, gauge, faults>>
       \/ /\ closeStage = "client" /\ closeStage' = "flagged"
          /\ conn' = [conn EXCEPT !.healthy = FALSE] /\ UNCHANGED <<gauge, faults>>
       \/ closeStage = "flagged" /\ closeStage' = "done" /\ gauge' = 0 /\ UNCHANGED <<conn, faults>>
    /\ UNCHANGED <<server, pinger, hook, dead, callback, watching>>

HealthLoopStep == Ping \/ Commit \/ SetGauge \/ FireOnReconnect \/ Tick
CallbackStep(i) == StartCallback(i) \/ EndCallback(i) \/ WatcherSeesClose(i)

RconnNext ==
    \/ ServerChanges \/ HealthLoopStep \/ LoopEnds \/ MarkReadOnly \/ CloseStep
    \/ \E i \in Callbacks : CallbackStep(i)

RconnSpec ==
    /\ RconnInit /\ [][RconnNext]_rconnVars
    /\ WF_rconnVars(HealthLoopStep) /\ SF_rconnVars(LoopEnds) /\ WF_rconnVars(hook = "gauge" /\ MarkReadOnly)
    /\ WF_rconnVars(IsClosed /\ CloseStep) /\ WF_rconnVars(server # "up" /\ ServerChanges)
    /\ \A i \in Callbacks : WF_rconnVars(CallbackStep(i))

RconnTypeOK ==
    /\ server \in {"up", "down", "readonly"} /\ hook \in {"none", "gauge"}
    /\ conn.failures \in 0 .. MaxReconnectAttempts /\ gauge \in {0, 1}
    /\ closeStage \in {"no", "closed", "client", "flagged", "done"}
    /\ watching \subseteq Callbacks

\* After Close has cleared it, the connection is never again reported healthy,
\* although a ping answered before Close may be committed after it
\* (checkHealth's second look at the closed channel).
ClosedIsUnhealthy == closeStage \in {"flagged", "done"} => ~conn.healthy

\* Two reconnect callbacks never run at the same time, also when Close clears
\* the reconnecting flag under a running one (fireOnReconnect).
OneCallback == Cardinality({i \in Callbacks : callback[i] = "running"}) <= 1

\* Quiet but for the ticker.
RconnQuiet ==
    /\ pinger.at \in {"idle", "gone"} /\ hook = "none" /\ closeStage \in {"no", "done"}
    /\ \A i \in Callbacks : callback[i] = "none"

\* An open connection to a server that is up comes to be healthy, and one that
\* was closed or given up on comes to rest.
RconnSettled ==
    /\ RconnQuiet
    /\ IF IsClosed \/ dead THEN pinger.at = "gone"
       ELSE server = "up" /\ conn.healthy /\ ~conn.readOnly

\* A closed connection does not leave its gauge at 1 (the comment in
\* checkHealth: "leaving a closed connection reporting Healthy()==true and the
\* gauge stuck at 1").
ClosedGaugeIsZero == pinger.at = "gone" /\ closeStage = "done" => gauge = 0

-------------------------------------------------------------------------------
(***************************************************************************)
(* infra/sqldb/readreplica: read-only acquires go round-robin to a replica *)
(* in rotation, in a second pass to those out of it, and at last to the    *)
(* primary.  Failures in a row take a replica out of rotation, a           *)
(* connection or a probe brings it back.  Flag, counter and gauge are      *)
(* separate atomics, written by every reader and by the probe loop.        *)
(***************************************************************************)

CONSTANTS Readers,           \* callers of Acquire(WithReadOnly)
          NumReplicas,
          MaxConsecFails,    \* maxConsecutiveFails
          MaxAcquires        \* bound on the acquires of all readers

ASSUME RoutingAssumption ==
    NumReplicas \in Nat \ {0} /\ MaxConsecFails \in Nat \ {0} /\ MaxAcquires \in Nat

VARIABLES
    up,          \* the replicas that answer
    inRotation,  \* the replicas whose healthy flag is set
    fails,       \* per replica: consecutiveFails, counted up to the limit
    healthyGauge,
    rrIdx,       \* acquires begun
    actor,       \* per reader and for the prober: its place
    pool         \* "open", "stopping", "closed"

routingState == <<up, inRotation, fails, healthyGauge, rrIdx, actor, pool>>
routingVars == <<routingState, faults>>

ReplicaSet == 0 .. NumReplicas - 1
Actors == Readers \cup {"prober"}

\* steady and tried are history: the replicas whose flag has not changed since
\* the call began, and those it asked for a connection.
IdleActor == [at |-> "rest", pass |-> 0, i |-> 0, start |-> 0, tried |-> {}, steady |-> {}]

RoutingInit ==
    /\ up = ReplicaSet /\ inRotation = ReplicaSet
    /\ fails = [r \in ReplicaSet |-> 0] /\ healthyGauge = NumReplicas /\ rrIdx = 0
    /\ actor = [a \in Actors |-> IdleActor] /\ pool = "open" /\ faults = 0

ReplicaOf(a) == (actor[a].start + actor[a].i) % NumReplicas
GoesTo(a, place) == actor' = [actor EXCEPT ![a].at = place]

\* A replica stops answering, or answers again.
ReplicaChanges ==
    /\ \E r \in ReplicaSet :
        \/ r \in up /\ Fault /\ up' = up \ {r}
        \/ r \notin up /\ up' = up \cup {r} /\ UNCHANGED faults
    /\ UNCHANGED <<inRotation, fails, healthyGauge, rrIdx, actor, pool>>

\* Acquire with WithReadOnly.
Acquire(a) ==
    /\ actor[a].at = "rest" /\ rrIdx < MaxAcquires /\ rrIdx' = rrIdx + 1
    /\ actor' = [actor EXCEPT ![a] = [at |-> "look", pass |-> 1, i |-> 0,
                    start |-> rrIdx' % NumReplicas, tried |-> {}, steady |-> ReplicaSet]]
    /\ UNCHANGED <<up, inRotation, fails, healthyGauge, pool, faults>>

\* Fault model of After: the second pass is left out.
AfterFirstPass(c) ==
    IF c.i + 1 < NumReplicas THEN [c EXCEPT !.i = @ + 1, !.at = "look"]
    ELSE [c EXCEPT !.at = "primary"]

\* Where a reader goes when its current replica gave no connection.
After(c) ==
    CASE c.i + 1 < NumReplicas -> [c EXCEPT !.i = @ + 1, !.at = "look"]
      [] c.i + 1 = NumReplicas /\ c.pass = 1 -> [c EXCEPT !.i = 0, !.pass = 2, !.at = "look"]
      [] OTHER -> [c EXCEPT !.at = "primary"]

\* The first pass asks the replicas in rotation, the second the others.
Look(a) ==
    /\ actor[a].at = "look"
    /\ IF (actor[a].pass = 1) = (ReplicaOf(a) \in inRotation) THEN GoesTo(a, "call")
       ELSE actor' = [actor EXCEPT ![a] = After(@)]
    /\ UNCHANGED <<up, inRotation, fails, healthyGauge, rrIdx, pool, faults>>

\* pool.Acquire.  A caller that gave up is no failure of the replica; its
\* second pass ends the same way, at the primary.
AskReplica(a) ==
    /\ actor[a].at = "call"
    /\ LET asked == [actor[a] EXCEPT !.tried = @ \cup {ReplicaOf(a)}]
           serves == ReplicaOf(a) \in up /\ pool # "closed"
       IN  \/ serves /\ actor' = [actor EXCEPT ![a] = [asked EXCEPT !.at = "reset"]] /\ UNCHANGED faults
           \/ /\ ~serves /\ UNCHANGED faults
              /\ actor' = [actor EXCEPT ![a] = IF asked.pass = 1 THEN [asked EXCEPT !.at = "count"]
                                               ELSE After(asked)]
           \/ Fault /\ actor' = [actor EXCEPT ![a] = IdleActor]
    /\ UNCHANGED <<up, inRotation, fails, healthyGauge, rrIdx, pool>>

Done(a) == IF a = "prober" THEN [actor[a] EXCEPT !.at = "next"] ELSE IdleActor

\* The flag of r changes, as every reader under way remembers.
Flips(r) == [a \in Actors |-> [actor[a] EXCEPT !.steady = @ \ {r}]]

\* A connection or a probe that succeeded: the counter, then the flag.
ResetFails(a) ==
    /\ actor[a].at = "reset" /\ fails' = [fails EXCEPT ![ReplicaOf(a)] = 0]
    /\ GoesTo(a, "readd")
    /\ UNCHANGED <<up, inRotation, healthyGauge, rrIdx, pool, faults>>

\* Fault model of Readd: the flag is stored and the gauge raised whatever it was.
ReaddAlways(a) ==
    /\ actor[a].at = "readd"
    /\ inRotation' = inRotation \cup {ReplicaOf(a)}
    /\ actor' = [Flips(ReplicaOf(a)) EXCEPT ![a].at = "inc"]
    /\ UNCHANGED <<up, fails, healthyGauge, rrIdx, pool, faults>>

\* CompareAndSwap(false, true).
Readd(a) ==
    /\ actor[a].at = "readd"
    /\ \/ /\ ReplicaOf(a) \notin inRotation
          /\ inRotation' = inRotation \cup {ReplicaOf(a)}
          /\ actor' = [Flips(ReplicaOf(a)) EXCEPT ![a].at = "inc"]
       \/ /\ ReplicaOf(a) \in inRotation
          /\ actor' = [actor EXCEPT ![a] = Done(a)] /\ UNCHANGED inRotation
    /\ UNCHANGED <<up, fails, healthyGauge, rrIdx, pool, faults>>

\* recordReplicaFailure: the counter, then CompareAndSwap(true, false).
CountFailure(a) ==
    /\ actor[a].at = "count"
    /\ LET n == fails[ReplicaOf(a)] + 1
       IN  /\ fails' = [fails EXCEPT ![ReplicaOf(a)] = IF n < MaxConsecFails THEN n ELSE MaxConsecFails]
           /\ IF n >= MaxConsecFails THEN GoesTo(a, "evict")
              ELSE actor' = [actor EXCEPT ![a] = IF a = "prober" THEN Done(a) ELSE After(@)]
    /\ UNCHANGED <<up, inRotation, healthyGauge, rrIdx, pool, faults>>

Evict(a) ==
    /\ actor[a].at = "evict"
    /\ \/ /\ ReplicaOf(a) \in inRotation
          /\ inRotation' = inRotation \ {ReplicaOf(a)}
          /\ actor' = [Flips(ReplicaOf(a)) EXCEPT ![a].at = "dec"]
       \/ /\ ReplicaOf(a) \notin inRotation /\ UNCHANGED inRotation
          /\ actor' = [actor EXCEPT ![a] = IF a = "prober" THEN Done(a) ELSE After(@)]
    /\ UNCHANGED <<up, fails, healthyGauge, rrIdx, pool, faults>>

MoveGauge(a) ==
    /\ \/ /\ actor[a].at = "inc" /\ healthyGauge' = healthyGauge + 1
          /\ actor' = [actor EXCEPT ![a] = Done(a)]
       \/ /\ actor[a].at = "dec" /\ healthyGauge' = healthyGauge - 1
          /\ actor' = [actor EXCEPT ![a] = IF a = "prober" THEN Done(a) ELSE After(@)]
    /\ UNCHANGED <<up, inRotation, fails, rrIdx, pool, faults>>

\* The fallback to the primary ends the acquire.
AcquirePrimary(a) ==
    /\ actor[a].at = "primary" /\ actor' = [actor EXCEPT ![a] = IdleActor]
    /\ UNCHANGED <<up, inRotation, fails, healthyGauge, rrIdx, pool, faults>>

\* healthLoop: a tick probes every replica in turn; the stop channel is looked
\* at between two rounds.
BeginRound ==
    /\ actor["prober"].at = "rest"
    /\ \/ actor' = [actor EXCEPT !["prober"] = [IdleActor EXCEPT !.at = "probe"]]
       \/ pool = "stopping" /\ GoesTo("prober", "gone")
    /\ UNCHANGED <<up, inRotation, fails, healthyGauge, rrIdx, pool, faults>>

Probe ==
    /\ actor["prober"].at = "probe"
    /\ GoesTo("prober", IF ReplicaOf("prober") \in up /\ pool # "closed" THEN "reset" ELSE "count")
    /\ UNCHANGED <<up, inRotation, fails, healthyGauge, rrIdx, pool, faults>>

NextProbe ==
    /\ actor["prober"].at = "next"
    /\ actor' = [actor EXCEPT !["prober"] =
                    IF actor["prober"].i + 1 < NumReplicas
                    THEN [IdleActor EXCEPT !.at = "probe", !.i = actor["prober"].i + 1] ELSE IdleActor]
    /\ UNCHANGED <<up, inRotation, fails, healthyGauge, rrIdx, pool, faults>>

\* Fault model of ProberGone: Close does not wait for the loop.
ProberLeft == TRUE

ProberGone == actor["prober"].at = "gone"

\* Close stops the loop, waits for it and closes the pools.
ClosePool ==
    /\ \/ pool = "open" /\ Fault /\ pool' = "stopping"
       \/ pool = "stopping" /\ ProberGone /\ pool' = "closed" /\ UNCHANGED faults
    /\ UNCHANGED <<up, inRotation, fails, healthyGauge, rrIdx, actor>>

SharedStep(a) == ResetFails(a) \/ Readd(a) \/ CountFailure(a) \/ Evict(a) \/ MoveGauge(a)
ReaderStep(a) == Look(a) \/ AskReplica(a) \/ AcquirePrimary(a) \/ SharedStep(a)
ProberStep == BeginRound \/ Probe \/ NextProbe \/ SharedStep("prober")

RoutingNext ==
    \/ ReplicaChanges \/ ProberStep \/ ClosePool
    \/ \E a \in Readers : Acquire(a) \/ ReaderStep(a)

RoutingSpec ==
    /\ RoutingInit /\ [][RoutingNext]_routingVars
    /\ WF_routingVars(ProberStep) /\ \A a \in Readers : WF_routingVars(ReaderStep(a))

RoutingTypeOK ==
    /\ up \subseteq ReplicaSet /\ inRotation \subseteq ReplicaSet
    /\ \A r \in ReplicaSet : fails[r] \in 0 .. MaxConsecFails
    /\ healthyGauge \in (0 - Cardinality(Actors)) .. NumReplicas + Cardinality(Actors)
    /\ pool \in {"open", "stopping", "closed"}

\* The gauge counts the replicas in rotation, but for the actors between a
\* change of the flag and that of the gauge: no interleaving of readers and
\* prober moves it twice for one change (the compare-and-swaps of
\* acquireReplica, probe and recordReplicaFailure).
RotationGaugeExact ==
    healthyGauge + Cardinality({a \in Actors : actor[a].at = "inc"})
      = Cardinality(inRotation) + Cardinality({a \in Actors : actor[a].at = "dec"})

\* A read falls back to the primary only after asking every replica, except
\* those that left or joined the rotation while it was under way (acquireReplica).
FallbackIsExhaustive ==
    \A a \in Readers : actor[a].at = "primary" => actor[a].steady \subseteq actor[a].tried

\* No probe meets a closed pool (Close waits for healthLoop).
NoProbeAfterClose == pool = "closed" => actor["prober"].at = "gone"

\* The probes bring every answering replica back into rotation, also one that
\* was evicted right after a success.
RoutingSettled == pool # "open" \/ up \subseteq inRotation

\* A read falls back only after asking every replica ("Already covered by the
\* healthy pass.", readreplica.go).
FallbackAskedAll ==
    \A a \in Readers : actor[a].at = "primary" => actor[a].tried = ReplicaSet
================================================================================
