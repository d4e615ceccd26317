------------------------------ MODULE MCRuntime ------------------------------
(***************************************************************************)
(* The runtime components in one model. They have no state in common: a    *)
(* behaviour picks its subject and leaves the others in an initial state.  *)
(***************************************************************************)
EXTENDS ServiceRuntime, BackgroundJobs, HttpServing, OutboundCalls, Streaming,
        HttpResponses

\* Bounds: the faults of a behaviour about some of the subjects.
CONSTANTS BusFaults, CronFaults, HubFaults, HealthFaults, McpFaults, SpendFaults,
          LockFaults

VARIABLE subject

vars == <<subject, units, bus, registry, worker, cron, hubState, request, health, breaker,
          guards, fanState, appState, streamState, mcpState, spendState, lockState, resp,
          tripState, nodeState, passState, faults>>

Init ==
    /\ subject \in {"lifecycle", "bus", "handlers", "worker", "cron", "websocket",
                    "request", "health", "breaker", "guards", "fanout", "app", "streams",
                    "mcp", "spend", "redislock", "response", "resilient", "realtime",
                    "credentials"}
    /\ LifeInit /\ (subject # "lifecycle" => stubborn = {})
    /\ BusInit /\ (subject # "bus" => mode = "auto" /\ onFull = "error")
    /\ HandlersInit /\ WorkerInit /\ CronInit /\ HubInit /\ RequestInit /\ HealthInit
    /\ BreakerInit /\ GuardInit
    /\ FanInit /\ (subject # "fanout" => fanMode = "settled")
    /\ AppInit /\ StreamInit
    /\ McpInit /\ (subject # "mcp" => auditMode = "strict")
    /\ SpendInit /\ (subject # "spend" => hardEnforced /\ refundOnError)
    /\ LockInit /\ (subject # "redislock" => maxTries = 1 /\ pools = LockNodes)
    /\ RespInit /\ (subject # "response" => ~resp.eligible /\ ~resp.allowed /\ resp.size.max > MinSize)
    /\ TripInit
    /\ NodeInit /\ (subject # "realtime" => ~node.configured)
    /\ PassInit

\* Only the subject moves.
Only(chosen) ==
    /\ chosen # "lifecycle" => UNCHANGED units
    /\ chosen # "bus" => UNCHANGED bus
    /\ chosen # "handlers" => UNCHANGED registry
    /\ chosen # "worker" => UNCHANGED worker
    /\ chosen # "cron" => UNCHANGED cron
    /\ chosen # "websocket" => UNCHANGED hubState
    /\ chosen # "request" => UNCHANGED request
    /\ chosen # "health" => UNCHANGED health
    /\ chosen # "breaker" => UNCHANGED breaker
    /\ chosen # "guards" => UNCHANGED guards
    /\ chosen # "fanout" => UNCHANGED fanState
    /\ chosen # "app" => UNCHANGED appState
    /\ chosen # "streams" => UNCHANGED streamState
    /\ chosen # "mcp" => UNCHANGED mcpState
    /\ chosen # "spend" => UNCHANGED spendState
    /\ chosen # "redislock" => UNCHANGED lockState
    /\ chosen # "response" => UNCHANGED resp
    /\ chosen # "resilient" => UNCHANGED tripState
    /\ chosen # "realtime" => UNCHANGED nodeState
    /\ chosen # "credentials" => UNCHANGED passState

Next ==
    /\ UNCHANGED subject /\ Only(subject)
    /\ \/ subject = "lifecycle" /\ LifeNext
       \/ subject = "bus" /\ BusNext /\ faults' <= BusFaults
       \/ subject = "handlers" /\ HandlersNext
       \/ subject = "worker" /\ WorkerNext
       \/ subject = "cron" /\ CronNext /\ faults' <= CronFaults
       \/ subject = "websocket" /\ HubNext /\ faults' <= HubFaults
       \/ subject = "request" /\ RequestNext
       \/ subject = "health" /\ HealthNext /\ faults' <= HealthFaults
       \/ subject = "breaker" /\ BreakerNext
       \/ subject = "guards" /\ GuardNext
       \/ subject = "fanout" /\ FanNext
       \/ subject = "app" /\ AppNext
       \/ subject = "streams" /\ StreamNext /\ UNCHANGED faults
       \/ subject = "mcp" /\ McpNext /\ faults' <= McpFaults
       \/ subject = "spend" /\ SpendNext /\ faults' <= SpendFaults
       \/ subject = "redislock" /\ LockNext /\ faults' <= LockFaults
       \/ subject = "response" /\ RespNext /\ UNCHANGED faults
       \/ subject = "resilient" /\ TripNext /\ UNCHANGED faults
       \/ subject = "realtime" /\ NodeNext /\ UNCHANGED faults
       \/ subject = "credentials" /\ PassNext /\ UNCHANGED faults

\* The fairness of each component's specification, for the one that moves.
Fairness ==
    /\ \A i \in Units : WF_lifeVars(subject = "lifecycle" /\ UnitStep(i))
    /\ WF_lifeVars(subject = "lifecycle" /\ StopperStep)
    /\ WF_lifeVars(subject = "lifecycle" /\ RunStep)
    /\ \A e \in Events : WF_busVars(subject = "bus" /\ task[e] # "new" /\ PublisherStep(e))
    /\ \A e \in Events : WF_busVars(subject = "bus" /\ ExecuteTask(e))
    /\ WF_busVars(subject = "bus" /\ Take)
    /\ WF_busVars(subject = "bus" /\ StarterStep)
    /\ \A s \in Stoppers : WF_busVars(subject = "bus" /\ StopPool(s))
    /\ WF_workerVars(subject = "worker" /\ WorkerStep)
    /\ WF_workerVars(subject = "worker" /\ StopReturnsOk)
    /\ \A r \in Replicas : WF_cronVars(subject = "cron" /\ JobStep(r))
    /\ \A r \in Replicas : WF_cronVars(subject = "cron" /\ CronStep(r))
    /\ \A c \in Conns : WF_hubVars(subject = "websocket" /\ conn[c].at # "new" /\ RequestStep(c))
    /\ \A c \in Conns : WF_hubVars(subject = "websocket" /\ CloseStep(c))
    /\ \A c \in Conns : WF_hubVars(subject = "websocket" /\ ObeyClose(c))
    /\ WF_hubVars(subject = "websocket" /\ PassShutdown)
    /\ WF_requestVars(subject = "request" /\ ServeStep)
    /\ WF_requestVars(subject = "request" /\ ContextEnds)
    /\ WF_requestVars(subject = "request" /\ HandlerEnds)
    /\ \A i \in Checks : WF_healthVars(subject = "health" /\ ReportSome(i))
    /\ \A p \in Probes : WF_healthVars(subject = "health" /\ ProbeStep(p))
    /\ WF_fanVars(subject = "fanout" /\ FanStep)
    /\ \A i \in Fns : WF_fanVars(subject = "fanout" /\ FnEnds(i))
    /\ WF_appVars(subject = "app" /\ RunContext)
    /\ WF_appVars(subject = "app" /\ InternalServes)
    /\ \A s \in Streams : WF_streamState(subject = "streams" /\ StreamStep(s))
    /\ \A s \in Streams : WF_streamState(subject = "streams" /\ WatchdogStep(s))
    /\ \A c \in ToolCalls : WF_mcpVars(subject = "mcp" /\ CallStep(c))
    /\ \A w \in AuditWorkers : WF_mcpVars(subject = "mcp" /\ AuditWorkerStep(w))
    /\ WF_mcpVars(subject = "mcp" /\ StopMcpReturns)
    /\ \A c \in LockCallers : WF_lockVars(subject = "redislock" /\ RedisLockStep(c))
    /\ WF_respVars(subject = "response" /\ HandlerDone)
    /\ \A t \in RoundTrips : WF_tripVars(subject = "resilient" /\ TripStep(t))
    /\ WF_nodeVars(subject = "realtime" /\ NodeStep)
    /\ WF_nodeVars(subject = "realtime" /\ DisconnectSlow)

Spec == Init /\ [][Next]_vars /\ Fairness

\* Every component's variables keep their types.
RuntimeTypeOK ==
    /\ LifeTypeOK /\ BusTypeOK /\ HandlersTypeOK /\ WorkerTypeOK /\ CronTypeOK /\ HubTypeOK
    /\ RequestTypeOK /\ HealthTypeOK /\ BreakerTypeOK /\ GuardTypeOK /\ FanTypeOK
    /\ AppTypeOK /\ StreamTypeOK /\ McpTypeOK /\ SpendTypeOK /\ LockTypeOK /\ RespTypeOK
    /\ TripTypeOK /\ NodeTypeOK /\ PassTypeOK

\* When a stop has returned, what it was responsible for is over: no component, handler,
\* batch, job or connection it was to join runs or begins to run, everything accepted
\* before was worked off, a module is stopped only after its users, and no publication is
\* written to a connection that was told to go, however Start, Stop and the work raced
\* each other.
StopIsFinal ==
    /\ StoppedStaysStopped /\ RunJoinsAll /\ StopDrainsBus /\ QuietAfterStop
    /\ CronQuietAfterStop /\ ShutdownWaits /\ StopDrainsEntries /\ ReturnReleasesAll
    /\ ModuleOutlivesItsUsers /\ NodeStopIsFinal /\ NoPublicationAfterClose

\* Whoever is admitted is counted, and given back once: the slots of connections and
\* streams, reserved time and budget units are exactly those in use on every way out, a
\* half-open breaker has one trial call, hosts have breakers of their own, the context of
\* a call lasts as long as its body and a connection no longer than its token, and a
\* leader-gated job runs twice at once only across a handover.
AdmissionIsExact ==
    /\ SlotsExact /\ ClosedOnce /\ ReservationExact /\ StreamsAreCounted
    /\ CounterIsWhatWasUsed /\ DeliveredIsPaid /\ OneTrialCall /\ OverlapNeedsHandover
    /\ BackendFollowsNode /\ ExpiryWithinToken /\ HostsAreIsolated /\ ContextLastsForBody

\* What a caller is told is what happened: one whole response through every layer of
\* middleware, also of a handler that panics, with logs and metrics that say the same;
\* the verdict of one evaluation, the results of functions that are over, an idle stream
\* that was idle, a tool result with its entry, a lock that was held throughout, a
\* publish that called those subscribed when it began.
AnswersAreTrue ==
    /\ OneWholeResponse /\ CachedIsVerdict /\ WaiterFindsResponse /\ FanOutReturnsAll
    /\ IdleMeansIdle /\ ResultImpliesEntry /\ LockLossIsReported
    /\ PublishReachesSubscribers /\ ResponseIsWhole /\ PanicIsAnswered /\ RecordsAreTrue
    /\ FlushReachesClient /\ HijackedIsRaw /\ ObservedWasInstalled

Settled ==
    CASE subject = "lifecycle" -> LifeSettled
      [] subject = "bus" -> BusSettled
      [] subject = "worker" -> WorkerSettled
      [] subject = "cron" -> CronSettled
      [] subject = "websocket" -> HubSettled
      [] subject = "request" -> RequestSettled
      [] subject = "health" -> HealthSettled
      [] subject = "fanout" -> FanSettled
      [] subject = "app" -> AppSettled
      [] subject = "streams" -> StreamSettled
      [] subject = "mcp" -> McpSettled
      [] subject = "redislock" -> LockSettled
      [] subject = "response" -> RespSettled
      [] subject = "resilient" -> TripSettled
      [] subject = "realtime" -> NodeSettled
      [] OTHER -> TRUE

\* Whatever is the subject comes to rest: a service that is told to stop stops, accepted
\* events are handled, Stop and Shutdown return, requests and probes are answered, a lock
\* is given up.
RuntimeSettles == []<>Settled
==============================================================================
