---------------------------- MODULE ServiceRuntime ----------------------------
(***************************************************************************)
(* A service from its first module to its exit: the runner of its          *)
(* components (runtime/lifecycle), the builder around it (app), and the    *)
(* event bus its modules share (runtime/eventbus).                         *)
(***************************************************************************)
EXTENDS FiniteSets, Faults, SequencesExt

-------------------------------------------------------------------------------
(***************************************************************************)
\* runtime/lifecycle: the Runner that starts every component of a service,
\* waits for a signal or for the first component to return, stops them in
\* reverse order of registration and then returns, and the FuncComponent
\* adapter whose Start and Stop race each other.
(***************************************************************************)

CONSTANT NumUnits   \* components registered with the Runner

ASSUME LifecycleAssumption == NumUnits \in Nat \ {0}

VARIABLES
  unit,      \* FuncComponent i: how far Start got, stopped flag, f.cancel called
  stubborn,  \* components whose function ignores its context
  group,     \* gCtx: "live" or "done"
  stopAt,    \* the stopper goroutine: NumUnits + 1 waits for gCtx, i stops unit i, 0 done
  waiting,   \* stopOne(stopAt) is inside Stop, waiting for Start to return
  stopErrs,  \* components whose Stop returned an error
  forced,    \* a second signal cancelled forceCtx
  run        \* Runner.Run: "running", "joined" or "abandoned"

units == <<unit, stubborn, group, stopAt, waiting, stopErrs, forced, run>>
lifeVars == <<units, faults>>

Units == 1 .. NumUnits

LifeTypeOK ==
  /\ unit \in [Units -> [at: {"new", "running", "done"},
                         stopped: BOOLEAN, cancelled: BOOLEAN]]
  /\ stubborn \subseteq Units
  /\ group \in {"live", "done"}
  /\ stopAt \in 0 .. NumUnits + 1 /\ waiting \in BOOLEAN
  /\ stopErrs \subseteq Units /\ forced \in BOOLEAN
  /\ run \in {"running", "joined", "abandoned"}
  /\ faults \in 0 .. MaxFaults

LifeInit ==
  /\ unit = [i \in Units |-> [at |-> "new", stopped |-> FALSE, cancelled |-> FALSE]]
  /\ stubborn \in {S \in SUBSET Units : Cardinality(S) <= MaxFaults}
  /\ group = "live" /\ stopAt = NumUnits + 1 /\ waiting = FALSE
  /\ stopErrs = {} /\ forced = FALSE /\ run = "running" /\ faults = 0

\* The context handed to a component's function is cancelled.
CtxDone(i) == group = "done" \/ unit[i].cancelled

\* Fault model of Start: the stopped flag is not looked at.
StartAlways(i) == unit[i].at = "new" /\ unit' = [unit EXCEPT ![i].at = "running"]
                  /\ UNCHANGED group

\* FuncComponent.Start: a component that was stopped first returns
\* ErrStoppedBeforeStart, which the Runner takes for a clean return; every
\* return of a component cancels the group.
Start(i) ==
  /\ unit[i].at = "new"
  /\ unit' = [unit EXCEPT ![i].at = IF unit[i].stopped THEN "done" ELSE "running"]
  /\ group' = IF unit[i].stopped THEN "done" ELSE group

\* Fault model of Run: a component that returns leaves the others running.
ReturnAlone(i) == unit[i].at = "running" /\ unit' = [unit EXCEPT ![i].at = "done"]
                  /\ UNCHANGED group

\* The component's function returns (nil, an error or a recovered panic) and
\* the deferred runCancel of Runner.Run ends the group.
Return(i) ==
  /\ unit[i].at = "running"
  /\ unit' = [unit EXCEPT ![i].at = "done"]
  /\ group' = "done"

StartUnit(i) ==
  Start(i) /\ UNCHANGED <<stubborn, stopAt, waiting, stopErrs, forced, run, faults>>

\* The function obeys its cancelled context.
ObeyContext(i) ==
  /\ CtxDone(i) /\ i \notin stubborn
  /\ Return(i)
  /\ UNCHANGED <<stubborn, stopAt, waiting, stopErrs, forced, run, faults>>

\* The function fails, or finishes, without being asked to.
ReturnEarly(i) ==
  /\ Fault /\ Return(i)
  /\ UNCHANGED <<stubborn, stopAt, waiting, stopErrs, forced, run>>

\* The first SIGINT or SIGTERM cancels gCtx, the second one forceCtx.
Signal ==
  /\ group = "live" /\ group' = "done"
  /\ UNCHANGED <<unit, stubborn, stopAt, waiting, stopErrs, forced, run, faults>>

SecondSignal ==
  /\ group = "done" /\ run = "running" /\ forced' = TRUE
  /\ UNCHANGED <<unit, stubborn, group, stopAt, waiting, stopErrs, run, faults>>

\* The stopper sees gCtx done, runs the beforeStop callbacks and starts on
\* the component that was registered last.
BeginStopAll ==
  /\ stopAt = NumUnits + 1 /\ group = "done"
  /\ stopAt' = NumUnits
  /\ UNCHANGED <<unit, stubborn, group, waiting, stopErrs, forced, run, faults>>

\* FuncComponent.Stop: set stopped, cancel the function's context, and wait
\* for Start to return when it was ever called.
CallStop ==
  /\ stopAt \in Units /\ ~waiting
  /\ unit' = [unit EXCEPT ![stopAt].stopped = TRUE, ![stopAt].cancelled = TRUE]
  /\ IF unit[stopAt].at = "new"
       THEN stopAt' = stopAt - 1 /\ UNCHANGED waiting
       ELSE waiting' = TRUE /\ UNCHANGED stopAt
  /\ UNCHANGED <<stubborn, group, stopErrs, forced, run, faults>>

StopReturns ==
  /\ waiting /\ unit[stopAt].at = "done"
  /\ stopAt' = stopAt - 1 /\ waiting' = FALSE
  /\ UNCHANGED <<unit, stubborn, group, stopErrs, forced, run, faults>>

\* The step's deadline passes, or forceCtx is cancelled, before Start
\* returned: the error is kept and the next component gets its turn.
StopTimesOut ==
  /\ waiting /\ unit[stopAt].at = "running"
  /\ IF stopAt \in stubborn \/ forced THEN UNCHANGED faults ELSE Fault
  /\ stopErrs' = stopErrs \union {stopAt}
  /\ stopAt' = stopAt - 1 /\ waiting' = FALSE
  /\ UNCHANGED <<unit, stubborn, group, forced, run>>

\* Fault model of Run: the stopper is not waited for.
JoinedUnits == \A i \in Units : unit[i].at = "done"

\* Run waits for every Start goroutine and for the stopper.
Joined == JoinedUnits /\ stopAt = 0

Join ==
  /\ run = "running" /\ Joined
  /\ run' = "joined"
  /\ UNCHANGED <<unit, stubborn, group, stopAt, waiting, stopErrs, forced, faults>>

\* After a second signal Run waits stopTimeout more and gives up.
Abandon ==
  /\ run = "running" /\ forced
  /\ run' = "abandoned"
  /\ UNCHANGED <<unit, stubborn, group, stopAt, waiting, stopErrs, forced, faults>>

UnitStep(i) == StartUnit(i) \/ ObeyContext(i)
StopperStep == BeginStopAll \/ CallStop \/ StopReturns \/ StopTimesOut
RunStep == Join \/ Abandon

LifeNext ==
  \/ \E i \in Units : UnitStep(i) \/ ReturnEarly(i)
  \/ Signal \/ SecondSignal
  \/ StopperStep \/ RunStep

\* Goroutines make progress; a Stop that waits has a deadline.
LifeFairness ==
  /\ \A i \in Units : WF_lifeVars(UnitStep(i))
  /\ WF_lifeVars(StopperStep)
  /\ WF_lifeVars(RunStep)

LifeSpec == LifeInit /\ [][LifeNext]_lifeVars /\ LifeFairness

------------------------------------------------------------------------------
\* A component whose Stop returned without an error never runs afterwards,
\* also when Stop overtook the goroutine that calls Start.
StoppedStaysStopped ==
  \A i \in Units : stopAt < i /\ i \notin stopErrs => unit[i].at # "running"

\* Run returns normally only once every component was asked to stop, last
\* registered first, and has returned.
RunJoinsAll ==
  run = "joined" => \A i \in Units : unit[i].at = "done" /\ unit[i].stopped

\* Once any component returned, or a signal came, Run returns, unless a
\* component ignores its context and nobody sends the second signal.
LifeSettled ==
  \/ run # "running"
  \/ group = "live" /\ \A i \in Units : unit[i].at # "done"
  \/ ~forced /\ \E i \in stubborn : unit[i].at = "running"

-------------------------------------------------------------------------------
(***************************************************************************)
(* app: Builder.RunContext from the first module to the last deferred      *)
(* call.  Every step of the start-up may fail, and what was set up before  *)
(* it is then given back by the deferred calls; a module's Init that is    *)
(* not back in time goes on behind the back of a start-up that failed.     *)
(* The shutdown of the runner is the part above: here the runner runs the  *)
(* hooks, then stops the units, and may leave a stuck one behind.          *)
(***************************************************************************)

CONSTANTS NumModules

ASSUME AppAssumption == NumModules \in Nat

VARIABLES
    step,         \* where RunContext is
    module,       \* per module: its state
    tlsSource,    \* the reloading TLS source: "none", "open", "closed"
    ownsTLS,      \* closeReloadingTLS is set
    internal,     \* the internal server: "none", "starting", "up", "failed", "stopped"
    appUnit       \* the runner's units: "none", "running", "stuck", "ended"

appState == <<step, module, tlsSource, ownsTLS, internal, appUnit>>
appVars == <<appState, faults>>

Modules == 1 .. NumModules

AppInit ==
    /\ step = "tls" /\ module = [m \in Modules |-> "new"]
    /\ tlsSource = "none" /\ ownsTLS = FALSE /\ internal = "none" /\ appUnit = "none"
    /\ faults = 0

\* The TLS of the servers: none that reloads, a reloading source, or an error.
BuildTLS ==
    /\ step = "tls"
    /\ \/ step' = "init" /\ UNCHANGED <<tlsSource, ownsTLS, faults>>
       \/ step' = "init" /\ tlsSource' = "open" /\ ownsTLS' = TRUE /\ UNCHANGED faults
       \/ Fault /\ step' = "returned" /\ UNCHANGED <<tlsSource, ownsTLS>>
    /\ UNCHANGED <<module, internal, appUnit>>

Initialized == {m \in Modules : module[m] = "ready"}

\* initOneModule: the goroutine of the next module begins its Init.
BeginInit ==
    /\ step = "init"
    /\ \E m \in Modules :
        /\ module[m] = "new" /\ \A k \in 1 .. m - 1 : module[k] = "ready"
        /\ module' = [module EXCEPT ![m] = "initializing"]
    /\ step' = "awaiting"
    /\ UNCHANGED <<tlsSource, ownsTLS, internal, appUnit, faults>>

\* Its Init returns in time, with success, or with an error or a panic; the
\* modules initialized so far are then closed.
EndInit ==
    /\ step = "awaiting"
    /\ \E m \in Modules :
        /\ module[m] = "initializing"
        /\ \/ module' = [module EXCEPT ![m] = "ready"] /\ step' = "init" /\ UNCHANGED faults
           \/ Fault /\ module' = [module EXCEPT ![m] = "failed"] /\ step' = "undo"
    /\ UNCHANGED <<tlsSource, ownsTLS, internal, appUnit>>

\* The deadline of the start-up passes, or the caller's context is cancelled;
\* Init goes on.
InitTimesOut ==
    /\ step = "awaiting" /\ Fault /\ step' = "undo"
    /\ module' = [m \in Modules |-> IF module[m] = "initializing" THEN "orphaned" ELSE module[m]]
    /\ UNCHANGED <<tlsSource, ownsTLS, internal, appUnit>>

OrphanEnds ==
    /\ \E m \in Modules : module[m] = "orphaned" /\ module' = [module EXCEPT ![m] = "leaked"]
    /\ UNCHANGED <<step, tlsSource, ownsTLS, internal, appUnit, faults>>

\* Fault model of LastReady: the modules are closed in the order of their start.
FirstReady(m) == \A k \in Initialized : k >= m

LastReady(m) == \A k \in Initialized : k <= m

\* closeModules, in the failed initModules and in the deferred call: backwards,
\* an error or a panic of one Stop does not keep the others from theirs.
CloseModules ==
    /\ step \in {"undo", "cleanup"}
    /\ \/ \E m \in Initialized :
            LastReady(m) /\ module' = [module EXCEPT ![m] = "stopped"] /\ UNCHANGED step
       \/ Initialized = {} /\ step' = "closeTLS" /\ UNCHANGED module
    /\ UNCHANGED <<tlsSource, ownsTLS, internal, appUnit, faults>>

\* All modules are ready: their health checks are validated, Populate and the
\* RouterFunc are called; a panic there runs the deferred calls too.
BuildHandler ==
    /\ step = "init" /\ Initialized = Modules
    /\ \/ step' = "start" /\ UNCHANGED faults
       \/ Fault /\ step' = "cleanup"
    /\ UNCHANGED <<module, tlsSource, ownsTLS, internal, appUnit>>

\* The internal server starts in a goroutine; a failure within 50 ms ends the
\* start-up, a later one ends the runner.
StartInternal ==
    /\ step = "start" /\ internal' = "starting" /\ step' = "pause"
    /\ UNCHANGED <<module, tlsSource, ownsTLS, appUnit, faults>>

InternalServes ==
    /\ internal = "starting"
    /\ \/ internal' = "up" /\ UNCHANGED faults
       \/ Fault /\ internal' = "failed"
    /\ UNCHANGED <<step, module, tlsSource, ownsTLS, appUnit>>

\* Fault model of Hands: the hand-over is forgotten, and the start-up's own
\* deferred close is dropped before the pause.
HandsEarly == step' = "run" /\ ownsTLS' = FALSE

Hands == step' = "run" /\ UNCHANGED ownsTLS

AfterPause ==
    /\ step = "pause"
    /\ \/ internal = "failed" /\ step' = "stopInternal" /\ ownsTLS' = ownsTLS
       \/ Hands
    /\ UNCHANGED <<module, tlsSource, internal, appUnit, faults>>

\* AttachToRunner of a module may still panic; otherwise the runner takes over
\* the TLS source, whose close is the last shutdown hook.
RunUnits ==
    /\ step = "run"
    /\ \/ step' = "running" /\ appUnit' = "running" /\ ownsTLS' = FALSE /\ UNCHANGED faults
       \/ Fault /\ step' = "stopInternal" /\ UNCHANGED <<appUnit, ownsTLS>>
    /\ UNCHANGED <<module, tlsSource, internal>>

\* A signal, an error of a unit or of the internal server: BeforeStop runs the
\* hooks before any unit is stopped.
RunHooks ==
    /\ step = "running" /\ step' = "stopping"
    /\ tlsSource' = (IF tlsSource = "open" THEN "closed" ELSE tlsSource)
    /\ UNCHANGED <<module, ownsTLS, internal, appUnit, faults>>

\* Fault model of UnitsJoined: RunContext goes on while the units run.
JoinsNothing == UNCHANGED <<appUnit, faults>>

UnitsJoined ==
    \/ appUnit' = "ended" /\ UNCHANGED faults
    \/ Fault /\ appUnit' = "stuck"

StopUnits ==
    /\ step = "stopping" /\ UnitsJoined /\ step' = "stopInternal"
    /\ UNCHANGED <<module, tlsSource, ownsTLS, internal>>

\* The deferred calls, last deferred first: the internal server, the modules,
\* the TLS source.
StopInternal ==
    /\ step = "stopInternal" /\ internal' = "stopped" /\ step' = "cleanup"
    /\ UNCHANGED <<module, tlsSource, ownsTLS, appUnit, faults>>

CloseTLS ==
    /\ step = "closeTLS" /\ step' = "returned"
    /\ tlsSource' = (IF ownsTLS THEN "closed" ELSE tlsSource)
    /\ UNCHANGED <<module, ownsTLS, internal, appUnit, faults>>

RunContext ==
    \/ BuildTLS \/ BeginInit \/ EndInit \/ InitTimesOut \/ CloseModules \/ BuildHandler
    \/ StartInternal \/ AfterPause \/ RunUnits \/ RunHooks \/ StopUnits \/ StopInternal \/ CloseTLS

AppNext == RunContext \/ OrphanEnds \/ InternalServes
AppSpec == AppInit /\ [][AppNext]_appVars /\ WF_appVars(RunContext) /\ WF_appVars(InternalServes)

AppTypeOK ==
    /\ step \in {"tls", "init", "awaiting", "undo", "start", "pause", "run", "running",
                 "stopping", "stopInternal", "cleanup", "closeTLS", "returned"}
    /\ \A m \in Modules : module[m] \in
         {"new", "initializing", "ready", "failed", "orphaned", "leaked", "stopped"}
    /\ internal \in {"none", "starting", "up", "failed", "stopped"}
    /\ appUnit \in {"none", "running", "stuck", "ended"} /\ ownsTLS \in BOOLEAN
    /\ tlsSource \in {"none", "open", "closed"}

\* Wherever RunContext returns, it leaves no module ready, no TLS source
\* polling its files and no internal server, but for an Init it gave up on.
ReturnReleasesAll ==
    step = "returned" =>
        /\ Initialized = {} /\ tlsSource # "open"
        /\ internal \in {"none", "stopped"}

\* A module is stopped only when nothing uses it any more: no later module, no
\* unit of the runner that was not given up, no internal server.
ModuleOutlivesItsUsers ==
    \A m \in Modules : module[m] = "stopped" =>
        /\ \A k \in m + 1 .. NumModules : module[k] # "ready"
        /\ appUnit # "running" /\ internal \in {"none", "stopped"}

\* Every start-up and every shutdown ends.
AppSettled == step = "returned"

-------------------------------------------------------------------------------
(***************************************************************************)
(* runtime/eventbus: asynchronous dispatch.  Publishers submit tasks to a  *)
(* worker pool with a bounded queue (or start a goroutine each), while     *)
(* Start and Stop open and close the pool.                                 *)
(***************************************************************************)

CONSTANTS Events,      \* published once each, to one asynchronous handler
          NumWorkers, QueueSize

ASSUME BusAssumption == NumWorkers \in Nat \ {0} /\ QueueSize \in Nat \ {0}

VARIABLES
    mode,        \* "auto": New started the pool; "pool": Start does; "unbounded"
    onFull,      \* what submit does with a full queue: "drop", "error" or "block"
    task,        \* per event: how far its task got
    queue,       \* p.queue
    started,     \* p.started
    spawned,     \* the workers were added to p.wg
    poolStopped, \* p.stopped
    closed,      \* p.queue is closed
    starting,    \* Bus.Start: "no", "marked", "serving", "ended" or "refused"
    busStopped,  \* b.stopped
    stop,        \* pool.stop as called by Start and by Stop
    late         \* Stop was called before Start had added the workers to p.wg

bus == <<mode, onFull, task, queue, started, spawned, poolStopped, closed, starting,
         busStopped, stop, late>>
busVars == <<bus, faults>>

Stoppers == {"Start", "Stop"}
InFlight == {"checked", "queued", "running"}

BusTypeOK ==
    /\ mode \in {"auto", "pool", "unbounded"} /\ onFull \in {"drop", "error", "block"}
    /\ task \in [Events -> InFlight \union {"new", "ran", "refused"}]
    /\ queue \in Seq(Events) /\ Len(queue) <= QueueSize
    /\ {started, spawned, poolStopped, closed, busStopped, late} \subseteq BOOLEAN
    /\ starting \in {"no", "marked", "serving", "ended", "refused"}
    /\ stop \in [Stoppers -> {"no", "flag", "close", "wait", "done", "expired"}]
    /\ faults \in 0 .. MaxFaults

BusInit ==
    /\ mode \in {"auto", "pool", "unbounded"} /\ onFull \in {"drop", "error", "block"}
    /\ task = [e \in Events |-> "new"] /\ queue = <<>>
    /\ started = (mode = "auto") /\ spawned = (mode = "auto")
    /\ poolStopped = FALSE /\ closed = FALSE /\ busStopped = FALSE /\ late = FALSE
    /\ starting = "no" /\ stop = [s \in Stoppers |-> "no"] /\ faults = 0

Becomes(e, s) == task' = [task EXCEPT ![e] = s]
Running == {e \in Events : task[e] = "running"}

\* Fault model of dispatchAsync: the stopped flag is not looked at under the mutex.
SpawnAlways(e) == Becomes(e, "running")

\* dispatchAsync without a pool: one goroutine per event, under startMu.
SpawnHandler(e) == Becomes(e, IF busStopped THEN "refused" ELSE "running")

Dispatch(e) ==
    /\ task[e] = "new" /\ mode = "unbounded"
    /\ SpawnHandler(e)
    /\ UNCHANGED <<mode, onFull, queue, started, spawned, poolStopped, closed, starting,
                   busStopped, stop, late, faults>>

\* submit loads started and stopped, one after the other; a refused task is released.
CheckPool(e) ==
    /\ task[e] = "new" /\ mode # "unbounded"
    /\ Becomes(e, IF started /\ ~poolStopped THEN "checked" ELSE "refused")
    /\ UNCHANGED <<mode, onFull, queue, started, spawned, poolStopped, closed, starting,
                   busStopped, stop, late, faults>>

\* Fault model of submit: the panic of a send on the closed queue is not recovered.
SendNoRecover(e) ==
    /\ ~closed /\ (onFull = "block" => Len(queue) < QueueSize)
    /\ IF Len(queue) < QueueSize
         THEN Becomes(e, "queued") /\ queue' = Append(queue, e)
         ELSE Becomes(e, "refused") /\ UNCHANGED queue

\* The send on p.queue: it panics on a closed queue, also one that closes while the
\* publisher waits for space, and the deferred recover turns that into ErrStopped.
Send(e) ==
    /\ onFull = "block" => closed \/ Len(queue) < QueueSize
    /\ IF ~closed /\ Len(queue) < QueueSize
         THEN Becomes(e, "queued") /\ queue' = Append(queue, e)
         ELSE Becomes(e, "refused") /\ UNCHANGED queue

Submit(e) ==
    /\ task[e] = "checked" /\ Send(e)
    /\ UNCHANGED <<mode, onFull, started, spawned, poolStopped, closed, starting,
                   busStopped, stop, late, faults>>

\* The publisher's context ends while it waits for space in the queue.
SubmitCancelled(e) ==
    /\ task[e] = "checked" /\ onFull = "block" /\ Len(queue) = QueueSize
    /\ Fault /\ Becomes(e, "refused")
    /\ UNCHANGED <<mode, onFull, queue, started, spawned, poolStopped, closed, starting,
                   busStopped, stop, late>>

\* A worker takes the oldest task; handler errors and panics are reported and end it.
Take ==
    /\ spawned /\ queue # <<>> /\ Cardinality(Running) < NumWorkers
    /\ Becomes(Head(queue), "running") /\ queue' = Tail(queue)
    /\ UNCHANGED <<mode, onFull, started, spawned, poolStopped, closed, starting,
                   busStopped, stop, late, faults>>

ExecuteTask(e) ==
    /\ task[e] = "running" /\ Becomes(e, "ran")
    /\ UNCHANGED <<mode, onFull, queue, started, spawned, poolStopped, closed, starting,
                   busStopped, stop, late, faults>>

\* Bus.Start: refused after Stop; pool.start swaps started before it spawns the workers.
BusStart ==
    /\ starting = "no"
    /\ starting' = IF busStopped THEN "refused" ELSE "marked"
    /\ UNCHANGED <<mode, onFull, task, queue, started, spawned, poolStopped, closed,
                   busStopped, stop, late, faults>>

StartPool ==
    /\ starting = "marked" /\ ~started /\ mode = "pool" /\ started' = TRUE
    /\ UNCHANGED <<mode, onFull, task, queue, spawned, poolStopped, closed, starting,
                   busStopped, stop, late, faults>>

SpawnWorkers ==
    /\ starting = "marked" /\ (started \/ mode = "unbounded")
    /\ spawned' = started /\ starting' = "serving"
    /\ UNCHANGED <<mode, onFull, task, queue, started, poolStopped, closed,
                   busStopped, stop, late, faults>>

\* Start's context ends: with a pool it stops the pool itself.
StartContextEnds ==
    /\ starting = "serving" /\ starting' = "ended"
    /\ stop' = [stop EXCEPT !["Start"] = IF mode = "unbounded" THEN "done" ELSE "flag"]
    /\ UNCHANGED <<mode, onFull, task, queue, started, spawned, poolStopped, closed,
                   busStopped, late, faults>>

\* Bus.Stop: only the first call drains.
BusStop ==
    /\ ~busStopped /\ busStopped' = TRUE
    /\ stop' = [stop EXCEPT !["Stop"] = IF mode = "unbounded" THEN "wait" ELSE "flag"]
    /\ late' = (starting = "marked" /\ mode = "pool")
    /\ UNCHANGED <<mode, onFull, task, queue, started, spawned, poolStopped, closed,
                   starting, faults>>

\* Fault model of pool.stop: p.wg.Wait is missing.
NotWaited == TRUE

\* wg.Wait returns: every worker that was added has drained the closed queue.
Drained ==
    IF mode = "unbounded" THEN Running = {}
                          ELSE spawned => queue = <<>> /\ Running = {}

\* pool.stop: set stopped, close the queue once, wait for the workers.
StopPool(s) ==
    /\ \/ stop[s] = "flag" /\ poolStopped' = TRUE /\ UNCHANGED closed
          /\ stop' = [stop EXCEPT ![s] = "close"]
       \/ stop[s] = "close" /\ closed' = TRUE /\ UNCHANGED poolStopped
          /\ stop' = [stop EXCEPT ![s] = "wait"]
       \/ stop[s] = "wait" /\ Drained /\ UNCHANGED <<poolStopped, closed>>
          /\ stop' = [stop EXCEPT ![s] = "done"]
    /\ UNCHANGED <<mode, onFull, task, queue, started, spawned, starting, busStopped,
                   late, faults>>

\* Stop's context expires first; the goroutine that drains is left behind.
StopExpires ==
    /\ stop["Stop"] = "wait" /\ Fault /\ stop' = [stop EXCEPT !["Stop"] = "expired"]
    /\ UNCHANGED <<mode, onFull, task, queue, started, spawned, poolStopped, closed,
                   starting, busStopped, late>>

PublisherStep(e) == Dispatch(e) \/ CheckPool(e) \/ Submit(e)
StarterStep == StartPool \/ SpawnWorkers

BusNext ==
    \/ \E e \in Events : PublisherStep(e) \/ SubmitCancelled(e) \/ ExecuteTask(e)
    \/ Take \/ BusStart \/ StarterStep \/ StartContextEnds
    \/ BusStop \/ (\E s \in Stoppers : StopPool(s)) \/ StopExpires

\* Goroutines run, and handlers return.
BusFairness ==
    /\ \A e \in Events : WF_busVars(task[e] # "new" /\ PublisherStep(e)) /\ WF_busVars(ExecuteTask(e))
    /\ WF_busVars(Take) /\ WF_busVars(StarterStep)
    /\ \A s \in Stoppers : WF_busVars(StopPool(s))

BusSpec == BusInit /\ [][BusNext]_busVars /\ BusFairness

-------------------------------------------------------------------------------
\* When Stop has returned nil every accepted event was handled, and none is handled
\* later, however the publishers raced it.  One case is excluded: Start was between
\* setting started and adding the workers to the WaitGroup when Stop was called.
StopDrainsBus ==
    stop["Stop"] = "done" /\ ~late => \A e \in Events : task[e] \notin {"queued", "running"}

\* Accepted events are handled, blocked publishers come back and Stop returns.
BusSettled ==
    /\ \A e \in Events : task[e] \notin InFlight
    /\ \A s \in Stoppers : stop[s] \in {"no", "done", "expired"}

-------------------------------------------------------------------------------
(***************************************************************************)
(* runtime/eventbus: the handlers of one event and synchronous publishes.  *)
(* Subscribe appends, Unsubscribe leaves a tombstone, both compact the     *)
(* slice, and a publish walks a copy of it while the others go on.         *)
(***************************************************************************)

CONSTANTS Publishes, MaxHandlers, CompactionThreshold

ASSUME HandlersAssumption == MaxHandlers \in Nat /\ CompactionThreshold \in Nat \ {0}

VARIABLES
    handlers,   \* b.handlers[event]: registration ids with their alive flag
    nextID,     \* ids handed out so far
    publish,    \* per publish: the copy it walks, its position and what it called
    subs,       \* ids subscribed and not unsubscribed, oldest first
    expected,   \* per publish: ids subscribed when it took its copy, oldest first
    halted      \* b.stopped

registry == <<handlers, nextID, publish, subs, expected, halted>>
handlerVars == <<registry, faults>>

Alive(h) == h.alive
NotBegun == [at |-> 0, snapshot |-> <<>>, called |-> <<>>]

HandlersTypeOK ==
    /\ \A i \in DOMAIN handlers : handlers[i].id \in 1 .. nextID /\ handlers[i].alive \in BOOLEAN
    /\ nextID \in 0 .. MaxHandlers /\ halted \in BOOLEAN
    /\ \A p \in Publishes : publish[p].at \in 0 .. MaxHandlers + 1
    /\ faults \in 0 .. MaxFaults

HandlersInit ==
    /\ handlers = <<>> /\ nextID = 0 /\ subs = <<>> /\ halted = FALSE
    /\ publish = [p \in Publishes |-> NotBegun] /\ expected = [p \in Publishes |-> <<>>]
    /\ faults = 0

\* Fault model of maybeCompactLocked: the threshold is compared the wrong way round.
CompactAll(hs) ==
    LET dead == SelectSeq(hs, LAMBDA h : ~h.alive)
    IN  IF Len(dead) < CompactionThreshold THEN hs ELSE dead

\* maybeCompactLocked: with enough tombstones, only the live handlers are kept.
Compact(hs) ==
    LET dead == SelectSeq(hs, LAMBDA h : ~h.alive)
    IN  IF Len(dead) < CompactionThreshold THEN hs ELSE SelectSeq(hs, Alive)

Subscribe ==
    /\ nextID < MaxHandlers /\ nextID' = nextID + 1
    /\ handlers' = Compact(Append(handlers, [id |-> nextID + 1, alive |-> TRUE]))
    /\ subs' = Append(subs, nextID + 1)
    /\ UNCHANGED <<publish, expected, halted, faults>>

Unsubscribe(id) ==
    /\ \E i \in DOMAIN handlers :
         /\ handlers[i].id = id /\ handlers[i].alive
         /\ handlers' = Compact([handlers EXCEPT ![i].alive = FALSE])
    /\ subs' = SelectSeq(subs, LAMBDA s : s # id)
    /\ UNCHANGED <<nextID, publish, expected, halted, faults>>

\* publishAny copies the slice under the read lock.
BeginPublish(p) ==
    /\ publish[p] = NotBegun /\ handlers # <<>>
    /\ publish' = [publish EXCEPT ![p] = [at |-> 1, snapshot |-> handlers, called |-> <<>>]]
    /\ expected' = [expected EXCEPT ![p] = subs]
    /\ UNCHANGED <<handlers, nextID, subs, halted, faults>>

\* Fault model of publishAny: the shared slice is walked instead of a copy.
WalkShared(p) == handlers

Walked(p) == publish[p].snapshot

\* The next handler of the copy: tombstones are skipped, a stopped bus ends the publish,
\* and a handler's error or panic does not keep the next one from running.
CallNext(p) ==
    LET at == publish[p].at
        h  == Walked(p)[at]
    IN  /\ at \in DOMAIN Walked(p) /\ ~(h.alive /\ halted)
        /\ publish' = [publish EXCEPT ![p].at = at + 1,
                         ![p].called = IF h.alive THEN Append(@, h.id) ELSE @]
        /\ UNCHANGED <<handlers, nextID, subs, expected, halted, faults>>

Halt == ~halted /\ halted' = TRUE /\ UNCHANGED <<handlers, nextID, publish, subs, expected, faults>>

PublishStep(p) == BeginPublish(p) \/ CallNext(p)

HandlersNext ==
    \/ Subscribe \/ (\E id \in 1 .. MaxHandlers : Unsubscribe(id)) \/ Halt
    \/ \E p \in Publishes : PublishStep(p)

HandlersSpec == HandlersInit /\ [][HandlersNext]_handlerVars

--------------------------------------------------------------------------------
\* A publish calls, in order of subscription and once each, the handlers that were
\* subscribed when it began, whatever is subscribed, unsubscribed or compacted
\* meanwhile; only Stop cuts it short.
PublishReachesSubscribers ==
    \A p \in Publishes : publish[p] # NotBegun =>
        /\ IsPrefix(publish[p].called, expected[p])
        /\ publish[p].at > Len(Walked(p)) => publish[p].called = expected[p]
================================================================================
