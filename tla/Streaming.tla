------------------------------ MODULE Streaming ------------------------------
(***************************************************************************)
(* Streams and tool calls of a server: grpcx/interceptor, httpx/mcp and    *)
(* the realtime node.                                                      *)
(***************************************************************************)
EXTENDS Integers, FiniteSets, Faults, Sequences

-------------------------------------------------------------------------------
(***************************************************************************)
(* grpcx/interceptor/stream_limits.go: the concurrent-stream limiter and   *)
(* the idle watchdog of a server's streams, one interceptor inside the     *)
(* other.                                                                  *)
(***************************************************************************)

CONSTANTS Streams,
          MaxStreams,     \* max of MaxConcurrentStreamsServer
          IdleLimit,      \* d of StreamIdleTimeout, in ticks of the watchdog
          MaxStreamTime   \* bound on the clock

ASSUME StreamAssumption ==
    MaxStreams \in Nat \ {0} /\ IdleLimit \in Nat \ {0} /\ MaxStreamTime \in Nat

VARIABLES
    streamTime,    \* monoNow
    streamCount,   \* streamLimiter.current
    stream,        \* per stream: its place; "handler" is inside both interceptors
    loadedCount,   \* per stream: the value tryAcquire has loaded
    lastActive,    \* per stream
    ctxCancelled,  \* streams whose derived context the watchdog has cancelled
    clientGone,    \* streams whose own context is over
    watchdog,      \* per stream: "none", "ticking", "fires", "gone"
    handlerEnd,    \* per stream: what the handler returned: "none", "ok", "cancelled"
    status         \* per stream: what the caller is told

streamState == <<streamTime, streamCount, stream, loadedCount, lastActive, ctxCancelled, clientGone,
                 watchdog, handlerEnd, status>>

StreamInit ==
    /\ streamTime = 0 /\ streamCount = 0 /\ ctxCancelled = {} /\ clientGone = {}
    /\ stream = [s \in Streams |-> "new"] /\ loadedCount = [s \in Streams |-> 0]
    /\ lastActive = [s \in Streams |-> 0] /\ watchdog = [s \in Streams |-> "none"]
    /\ handlerEnd = [s \in Streams |-> "none"] /\ status = [s \in Streams |-> "none"]

Puts(f, s, v) == [f EXCEPT ![s] = v]
InHandler(s) == stream[s] \in {"handler", "handler parked"}

LoadCount(s) ==
    /\ stream[s] = "new"
    /\ IF streamCount >= MaxStreams
       THEN stream' = Puts(stream, s, "done") /\ status' = Puts(status, s, "exhausted")
            /\ UNCHANGED loadedCount
       ELSE stream' = Puts(stream, s, "loaded") /\ loadedCount' = Puts(loadedCount, s, streamCount)
            /\ UNCHANGED status
    /\ UNCHANGED <<streamTime, streamCount, lastActive, ctxCancelled, clientGone, watchdog, handlerEnd>>

\* Fault model of Swaps: a store of the loaded value plus one.
SwapsBlindly(s) == TRUE

\* CompareAndSwap succeeds while the counter is the loaded one.
Swaps(s) == streamCount = loadedCount[s]

\* The swap; then the stream is wrapped, the watchdog starts and the handler is
\* called.  Some handlers sit in RecvMsg, which waits on the stream's own context.
SwapCount(s) ==
    /\ stream[s] = "loaded"
    /\ IF Swaps(s)
       THEN /\ streamCount' = loadedCount[s] + 1
            /\ \E place \in {"handler", "handler parked"} : stream' = Puts(stream, s, place)
            /\ lastActive' = Puts(lastActive, s, streamTime)
            /\ watchdog' = Puts(watchdog, s, "ticking")
       ELSE stream' = Puts(stream, s, "new") /\ UNCHANGED <<streamCount, lastActive, watchdog>>
    /\ UNCHANGED <<streamTime, loadedCount, ctxCancelled, clientGone, handlerEnd, status>>

\* SendMsg and RecvMsg of the wrapped stream.
Message(s) ==
    /\ InHandler(s) /\ s \notin clientGone
    /\ lastActive' = Puts(lastActive, s, streamTime)
    /\ UNCHANGED <<streamTime, streamCount, stream, loadedCount, ctxCancelled, clientGone, watchdog,
                   handlerEnd, status>>

ClientLeaves(s) ==
    /\ InHandler(s) /\ clientGone' = clientGone \cup {s}
    /\ UNCHANGED <<streamTime, streamCount, stream, loadedCount, lastActive, ctxCancelled, watchdog,
                   handlerEnd, status>>

CtxOver(s) == s \in ctxCancelled \cup clientGone

\* Fault model of Looks: one look after the first message is the last.
LooksOnce(s) == IF streamTime - lastActive[s] >= IdleLimit THEN "fires" ELSE "gone"

\* The watchdog's tick: a stream that was silent for d is to be cancelled.
Looks(s) == IF streamTime - lastActive[s] >= IdleLimit THEN "fires" ELSE "ticking"

\* The watchdog sees done or the cancelled context and leaves, or looks.
WatchdogTick(s) ==
    /\ watchdog[s] = "ticking"
    /\ watchdog' = Puts(watchdog, s, IF ~InHandler(s) \/ CtxOver(s) THEN "gone" ELSE Looks(s))
    /\ UNCHANGED <<streamTime, streamCount, stream, loadedCount, lastActive, ctxCancelled, clientGone,
                   handlerEnd, status>>

WatchdogFires(s) ==
    /\ watchdog[s] = "fires" /\ watchdog' = Puts(watchdog, s, "gone")
    /\ ctxCancelled' = ctxCancelled \cup {s}
    /\ UNCHANGED <<streamTime, streamCount, stream, loadedCount, lastActive, clientGone, handlerEnd, status>>

EndHandler(s, result) ==
    /\ stream' = Puts(stream, s, "ended") /\ handlerEnd' = Puts(handlerEnd, s, result)
    /\ UNCHANGED <<streamTime, streamCount, loadedCount, lastActive, ctxCancelled, clientGone, watchdog, status>>

StreamHandlerReturns(s) == InHandler(s) /\ EndHandler(s, "ok")

\* A handler that selects on its context sees the watchdog's cancel; one that
\* is parked in RecvMsg only the end of the stream.
HandlerCancelled(s) ==
    /\ \/ stream[s] = "handler" /\ CtxOver(s)
       \/ stream[s] = "handler parked" /\ s \in clientGone
    /\ EndHandler(s, "cancelled")

\* Fault model of Remapped: every failure under a cancelled context is the
\* watchdog's.
RemappedAny(s) ==
    IF handlerEnd[s] = "cancelled" /\ CtxOver(s) THEN "idle timeout" ELSE handlerEnd[s]

\* The status after the handler (idleTimeoutRemap).
Remapped(s) ==
    IF handlerEnd[s] = "cancelled" /\ CtxOver(s) /\ s \notin clientGone
    THEN "idle timeout" ELSE handlerEnd[s]

\* The deferred close of done, cancel, and the limiter's release.
ReturnStream(s) ==
    /\ stream[s] = "ended" /\ stream' = Puts(stream, s, "done")
    /\ status' = Puts(status, s, Remapped(s)) /\ streamCount' = streamCount - 1
    /\ UNCHANGED <<streamTime, loadedCount, lastActive, ctxCancelled, clientGone, watchdog, handlerEnd>>

StreamTick ==
    /\ streamTime < MaxStreamTime /\ streamTime' = streamTime + 1
    /\ UNCHANGED <<streamCount, stream, loadedCount, lastActive, ctxCancelled, clientGone, watchdog,
                   handlerEnd, status>>

StreamStep(s) == LoadCount(s) \/ SwapCount(s) \/ HandlerCancelled(s) \/ ReturnStream(s)
WatchdogStep(s) == WatchdogTick(s) \/ WatchdogFires(s)

StreamNext ==
    \/ \E s \in Streams : StreamStep(s) \/ WatchdogStep(s)
    \/ \E s \in Streams : Message(s) \/ ClientLeaves(s) \/ StreamHandlerReturns(s)
    \/ StreamTick

StreamSpec ==
    /\ StreamInit /\ [][StreamNext]_streamState
    /\ \A s \in Streams : WF_streamState(StreamStep(s)) /\ WF_streamState(WatchdogStep(s))

StreamTypeOK ==
    /\ streamTime \in 0 .. MaxStreamTime /\ streamCount \in Nat
    /\ \A s \in Streams : lastActive[s] <= streamTime

\* The limiter admits no more than max streams at once and forgets none of
\* them, however the loads and the swaps of concurrent streams interleave.
StreamsAreCounted ==
    LET serving == {s \in Streams : InHandler(s) \/ stream[s] = "ended"}
    IN  Cardinality(serving) = streamCount /\ streamCount <= MaxStreams

\* A stream is reported as idle only if the watchdog ended it: it had fired,
\* the handler failed because of it, and the client was there.
IdleMeansIdle ==
    \A s \in Streams : status[s] = "idle timeout" => s \in ctxCancelled /\ handlerEnd[s] = "cancelled"

\* A silent stream whose handler watches its context is reaped, streams that
\* end are returned, and no watchdog outlives its stream.
StreamSettled ==
    \A s \in Streams :
        /\ stream[s] \in {"handler", "handler parked", "done"}
        /\ stream[s] = "handler" => streamTime - lastActive[s] < IdleLimit
        /\ stream[s] = "done" => watchdog[s] \in {"none", "gone"}

-------------------------------------------------------------------------------
(***************************************************************************)
(* httpx/mcp: the audit entries of tool calls.  In strict mode a call      *)
(* whose identity is not resolved does not run its tool, and the append is *)
(* part of the call.  In asynchronous mode the entry goes to a bounded     *)
(* queue that workers drain, and Stop drains it for good.                  *)
(***************************************************************************)

CONSTANTS ToolCalls, AuditWorkers,
          AuditQueueLen      \* WithAsyncAuditQueue

ASSUME McpAssumption == AuditQueueLen \in Nat \ {0}

VARIABLES
    auditMode,    \* "strict" (default), "loose", or "async": dispatch by the workers
    toolCall,     \* per call: its place
    toolRan,      \* per call: the tool was run
    auditQueue,   \* entries (calls) in the queue
    auditStopped, \* Stop has set the flag and closed auditDone
    auditWorker,  \* per worker: "idle", "gone" or the call whose entry it appends
    entryOf,      \* per call: "none", "skipped", "queued", "appended", "failed", "dropped"
    mcpStop       \* Stop: "no", "waiting", "expired", "returned"

mcpState == <<auditMode, toolCall, toolRan, auditQueue, auditStopped, auditWorker, entryOf, mcpStop>>
mcpVars == <<mcpState, faults>>

McpInit ==
    /\ auditMode \in {"strict", "loose", "async"}
    /\ toolCall = [c \in ToolCalls |-> "new"] /\ toolRan = [c \in ToolCalls |-> FALSE]
    /\ auditQueue = {} /\ auditStopped = FALSE
    /\ auditWorker = [w \in AuditWorkers |-> "idle"]
    /\ entryOf = [c \in ToolCalls |-> "none"] /\ mcpStop = "no" /\ faults = 0

CallGoes(c, place) == toolCall' = [toolCall EXCEPT ![c] = place]
Entry(c, result) == entryOf' = [entryOf EXCEPT ![c] = result]

\* auditPrecheck: without a tenant strict mode refuses the call before its tool
\* runs; the other modes run it and skip the entry.
AuditPrecheck(c) ==
    /\ toolCall[c] = "new"
    /\ \/ CallGoes(c, "arguments") /\ UNCHANGED <<entryOf, faults>>
       \/ /\ Fault
          /\ IF auditMode = "strict" THEN CallGoes(c, "refused") /\ UNCHANGED entryOf
             ELSE CallGoes(c, "arguments") /\ Entry(c, "skipped")
    /\ UNCHANGED <<auditMode, toolRan, auditQueue, auditStopped, auditWorker, mcpStop>>

\* recordActionLog begins: at once, or in the queue.
Records(c) ==
    CallGoes(c, IF entryOf[c] = "skipped" THEN "answered"
                ELSE IF auditMode = "async" THEN "enqueue" ELSE "append")

\* wrapToolHandler decodes and validates the arguments and asks the gate, then
\* runs the tool; a call that is rejected is recorded too.
RunTool(c) ==
    /\ toolCall[c] = "arguments" /\ Records(c)
    /\ \E ran \in BOOLEAN : toolRan' = [toolRan EXCEPT ![c] = ran]
    /\ UNCHANGED <<auditMode, auditQueue, auditStopped, auditWorker, entryOf, mcpStop, faults>>

\* Fault model of FailsCall: the result of the audit append is not looked at.
FailsNoCall(c) == FALSE

\* In strict mode a failed append fails the call whose tool has run.
FailsCall(c) == auditMode = "strict" /\ toolRan[c]

\* appendActionLog under a context detached from the request's.
AppendInCall(c) ==
    /\ toolCall[c] = "append"
    /\ \/ CallGoes(c, "answered") /\ Entry(c, "appended") /\ UNCHANGED faults
       \/ Fault /\ CallGoes(c, IF FailsCall(c) THEN "failed" ELSE "answered") /\ Entry(c, "failed")
    /\ UNCHANGED <<auditMode, toolRan, auditQueue, auditStopped, auditWorker, mcpStop>>

\* Fault model of StopLocks: Stop does not wait for the senders.
StopAtOnce == TRUE

\* The write lock of Stop excludes the senders, which hold the read lock from
\* the look at auditStopped to the send.
StopLocks == \A c \in ToolCalls : toolCall[c] # "sending"

\* enqueueAuditJob: the look at auditStopped, then the send without waiting.
CheckStopped(c) ==
    /\ toolCall[c] = "enqueue"
    /\ IF auditStopped
       THEN CallGoes(c, "answered") /\ Entry(c, "dropped")
       ELSE CallGoes(c, "sending") /\ UNCHANGED entryOf
    /\ UNCHANGED <<auditMode, toolRan, auditQueue, auditStopped, auditWorker, mcpStop, faults>>

SendEntry(c) ==
    /\ toolCall[c] = "sending" /\ CallGoes(c, "answered")
    /\ IF Cardinality(auditQueue) < AuditQueueLen
       THEN auditQueue' = auditQueue \cup {c} /\ Entry(c, "queued")
       ELSE Entry(c, "dropped") /\ UNCHANGED auditQueue
    /\ UNCHANGED <<auditMode, toolRan, auditStopped, auditWorker, mcpStop, faults>>

TakeEntry(w) ==
    \E c \in auditQueue :
        /\ auditWorker[w] = "idle" /\ auditWorker' = [auditWorker EXCEPT ![w] = c]
        /\ auditQueue' = auditQueue \ {c}
        /\ UNCHANGED <<auditMode, toolCall, toolRan, auditStopped, entryOf, mcpStop, faults>>

\* runAuditJob: an error or a panic of the append is logged.
RunAuditJob(w) ==
    LET c == auditWorker[w] IN
    /\ c \in ToolCalls /\ auditWorker' = [auditWorker EXCEPT ![w] = "idle"]
    /\ \/ Entry(c, "appended") /\ UNCHANGED faults
       \/ Fault /\ Entry(c, "failed")
    /\ UNCHANGED <<auditMode, toolCall, toolRan, auditQueue, auditStopped, mcpStop>>

\* Fault model of MayLeave: a worker leaves as soon as it sees auditDone.
LeavesAtOnce == auditStopped

\* auditWorker leaves once auditDone is closed and the queue is empty.
MayLeave == auditStopped /\ auditQueue = {}

WorkerLeaves(w) ==
    /\ auditMode = "async" /\ auditWorker[w] = "idle" /\ MayLeave
    /\ auditWorker' = [auditWorker EXCEPT ![w] = "gone"]
    /\ UNCHANGED <<auditMode, toolCall, toolRan, auditQueue, auditStopped, entryOf, mcpStop, faults>>

StopMcp ==
    /\ auditMode = "async" /\ mcpStop = "no" /\ StopLocks
    /\ auditStopped' = TRUE /\ mcpStop' = "waiting"
    /\ UNCHANGED <<auditMode, toolCall, toolRan, auditQueue, auditWorker, entryOf, faults>>

\* The deadline of Stop passes; a later Stop waits again.
StopMcpExpires ==
    /\ mcpStop = "waiting" /\ Fault /\ mcpStop' = "expired"
    /\ UNCHANGED <<auditMode, toolCall, toolRan, auditQueue, auditStopped, auditWorker, entryOf>>

StopMcpAgain ==
    /\ mcpStop = "expired" /\ mcpStop' = "waiting"
    /\ UNCHANGED <<auditMode, toolCall, toolRan, auditQueue, auditStopped, auditWorker, entryOf, faults>>

StopMcpReturns ==
    /\ mcpStop = "waiting" /\ \A w \in AuditWorkers : auditWorker[w] = "gone"
    /\ mcpStop' = "returned"
    /\ UNCHANGED <<auditMode, toolCall, toolRan, auditQueue, auditStopped, auditWorker, entryOf, faults>>

CallStep(c) == RunTool(c) \/ AppendInCall(c) \/ CheckStopped(c) \/ SendEntry(c)
AuditWorkerStep(w) == TakeEntry(w) \/ RunAuditJob(w) \/ WorkerLeaves(w)

McpNext ==
    \/ \E c \in ToolCalls : AuditPrecheck(c) \/ CallStep(c)
    \/ \E w \in AuditWorkers : AuditWorkerStep(w)
    \/ StopMcp \/ StopMcpExpires \/ StopMcpAgain \/ StopMcpReturns

McpSpec ==
    /\ McpInit /\ [][McpNext]_mcpVars
    /\ \A c \in ToolCalls : WF_mcpVars(CallStep(c))
    /\ \A w \in AuditWorkers : WF_mcpVars(AuditWorkerStep(w))
    /\ WF_mcpVars(StopMcpReturns)

McpTypeOK ==
    /\ auditQueue \subseteq ToolCalls /\ Cardinality(auditQueue) <= AuditQueueLen
    /\ \A w \in AuditWorkers : auditWorker[w] \in ToolCalls \cup {"idle", "gone"}
    /\ \A c \in ToolCalls : entryOf[c] \in {"none", "skipped", "queued", "appended", "failed", "dropped"}

\* Once Stop has returned without an error no entry is on its way: a sender
\* that saw the server running has sent before auditDone was closed, and the
\* workers drained the queue before they left.  Stop that is called again
\* after its deadline waits again.
StopDrainsEntries ==
    mcpStop = "returned" => \A c \in ToolCalls : entryOf[c] # "queued" /\ toolCall[c] # "sending"

\* In strict mode the result of a tool that ran is given only with its entry in
\* the log, whatever failed: the identity is resolved before the tool runs, and
\* the append is part of the call.
ResultImpliesEntry ==
    auditMode = "strict" =>
        \A c \in ToolCalls : toolCall[c] = "answered" /\ toolRan[c] => entryOf[c] = "appended"

\* Calls are answered and a Stop returns; a queued entry is appended.
McpSettled ==
    /\ \A c \in ToolCalls : toolCall[c] \in {"new", "answered", "refused", "failed"}
    /\ auditQueue = {} /\ mcpStop # "waiting"

-------------------------------------------------------------------------------
(***************************************************************************)
(* The realtime node: realtime/centrifuge.                                 *)
(***************************************************************************)

(***************************************************************************)
(* The node, and the publications written to one of its connections.       *)
(***************************************************************************)

CONSTANTS StartCalls, StopCalls,  \* concurrent calls of Node.Start and Node.Stop
          MaxWrites               \* bound on the publications written to the connection

ASSUME RealtimeAssumption == MaxWrites \in Nat

VARIABLES
    node,     \* started, stopped, ready, the backend's connections, and the native node
    calls,    \* where each Start and Stop call is
    link,     \* one accepted connection
    writer    \* its OnTransportWrite hook

nodeState == <<node, calls, link, writer>>
nodeVars == nodeState

NoLink == [at |-> "none", subscribed |-> FALSE, refused |-> FALSE, closing |-> FALSE,
           gone |-> FALSE, installs |-> 0, observed |-> 0]

NodeInit ==
    /\ \E configured \in BOOLEAN :
         node = [started |-> FALSE, stopped |-> FALSE, ready |-> FALSE, native |-> "new",
                 configured |-> configured, close |-> FALSE, opened |-> 0]
    /\ calls = [c \in StartCalls \cup StopCalls |-> "new"]
    /\ link = NoLink
    /\ writer = [at |-> "idle", late |-> FALSE, writes |-> 0]

NodeTypeOK ==
    /\ calls \in [StartCalls \cup StopCalls -> {"new", "blocked", "refused", "failed", "returned"}]
    /\ node.native \in {"new", "running", "down"} /\ node.opened \in Nat
    /\ {node.started, node.stopped, node.ready, node.close} \subseteq BOOLEAN
    /\ link.at \in {"none", "open", "observing", "closed"}
    /\ writer.at \in {"idle", "policy", "last"} /\ writer.writes \in 0 .. MaxWrites

-------------------------------------------------------------------------------
(***************************************************************************)
(* Start and Stop hold lifecycleMu for all but Start's wait.               *)
(***************************************************************************)

\* installBackend: a factory that fails has closed what it opened; one that returns
\* neither a broker nor a presence manager is closed here.
InstallBackend(n, outcome) ==
    IF n.configured /\ outcome = "ok" THEN [n EXCEPT !.close = TRUE, !.opened = @ + 1] ELSE n

\* Fault model of closeBackend: the released function is kept.
CloseBackendAgain(n) == IF n.close THEN [n EXCEPT !.opened = @ - 1] ELSE n

CloseBackend(n) == IF n.close THEN [n EXCEPT !.close = FALSE, !.opened = @ - 1] ELSE n

StartNode(c) ==
    /\ calls[c] = "new"
    /\ \E backend, run \in {"ok", "error"} :
         LET installed == InstallBackend(node, backend) IN
         IF node.stopped \/ node.started
         THEN calls' = [calls EXCEPT ![c] = "refused"] /\ UNCHANGED node
         ELSE IF node.configured /\ backend = "error"
         THEN calls' = [calls EXCEPT ![c] = "failed"] /\ UNCHANGED node
         ELSE IF run = "error"
         THEN calls' = [calls EXCEPT ![c] = "failed"] /\ node' = CloseBackend(installed)
         ELSE /\ calls' = [calls EXCEPT ![c] = "blocked"]
              /\ node' = [installed EXCEPT !.started = TRUE, !.ready = TRUE,
                                           !.native = "running"]
    /\ UNCHANGED <<link, writer>>

\* The context of Start is done: Start returns and the node is no longer ready.
NodeStartReturns(c) ==
    /\ calls[c] = "blocked"
    /\ calls' = [calls EXCEPT ![c] = "returned"] /\ node' = [node EXCEPT !.ready = FALSE]
    /\ UNCHANGED <<link, writer>>

\* Shutdown disconnects every client.
StopNode(c) ==
    /\ calls[c] = "new" /\ calls' = [calls EXCEPT ![c] = "returned"]
    /\ IF node.stopped THEN UNCHANGED <<node, link>>
       ELSE IF ~node.started THEN node' = [node EXCEPT !.stopped = TRUE] /\ UNCHANGED link
       ELSE /\ node' = CloseBackend([node EXCEPT !.stopped = TRUE, !.native = "down"])
            /\ link' = [link EXCEPT !.at = IF @ = "none" THEN @ ELSE "closed",
                                    !.subscribed = FALSE]
    /\ UNCHANGED writer

Ready == node.ready /\ ~node.stopped

-------------------------------------------------------------------------------
(***************************************************************************)
(* Subscriptions and the publications written to the connection.           *)
(***************************************************************************)

\* A client whose connecting callback accepted it.
AcceptClient ==
    /\ node.native = "running" /\ link.at = "none"
    /\ link' = [link EXCEPT !.at = "open"]
    /\ UNCHANGED <<node, calls, writer>>

\* The OnSubscribe hook: authorizeChannel, then the callback, which subscribes or fails and in
\* both cases closes SubscriptionReady.
OnSubscribe ==
    /\ link.at = "open" /\ link.installs < 2
    /\ \E authorized, installed \in BOOLEAN :
         LET took == authorized /\ installed /\ ~link.subscribed IN
         link' = [link EXCEPT !.subscribed = @ \/ took,
                              !.installs = @ + (IF took THEN 1 ELSE 0),
                              !.at = IF authorized /\ ~link.subscribed THEN "observing" ELSE @]
    /\ UNCHANGED <<node, calls, writer>>

\* Fault model of observeSubscriptionReady: the closed channel is taken for success.
ObserveClosedChannel ==
    /\ link.at = "observing"
    /\ link' = [link EXCEPT !.at = "open", !.observed = @ + 1]
    /\ UNCHANGED <<node, calls, writer>>

\* observeSubscriptionReady.
ObserveSubscriptionReady ==
    /\ link.at = "observing"
    /\ link' = [link EXCEPT !.at = "open", !.observed = @ + (IF link.subscribed THEN 1 ELSE 0)]
    /\ UNCHANGED <<node, calls, writer>>

\* The client or the server unsubscribes (external).
DropSubscription ==
    /\ link.at \in {"open", "observing"} /\ link.subscribed
    /\ link' = [link EXCEPT !.subscribed = FALSE]
    /\ UNCHANGED <<node, calls, writer>>

Usable == ~node.stopped /\ link.subscribed /\ link.at # "closed"

\* OnTransportWrite up to the call of the policy.  refuse latches and disconnects.
WriteBegins ==
    /\ writer.at = "idle" /\ writer.writes < MaxWrites /\ link.at # "none"
    /\ writer' = [writer EXCEPT !.writes = @ + 1,
                                !.at = IF link.refused \/ ~Usable THEN "idle" ELSE "policy"]
    /\ link' = IF link.refused \/ Usable THEN link
               ELSE [link EXCEPT !.refused = TRUE, !.closing = TRUE]
    /\ UNCHANGED <<node, calls>>

Refuse == link' = [link EXCEPT !.refused = TRUE, !.closing = TRUE]

\* The policy has answered: the state it was asked about is read again.
PolicyAnswers ==
    /\ writer.at = "policy"
    /\ \/ Usable /\ writer' = [writer EXCEPT !.at = "last"] /\ UNCHANGED link
       \/ writer' = [writer EXCEPT !.at = "idle"] /\ Refuse
    /\ UNCHANGED <<node, calls>>

\* The hook lets the publication through unless the latch is set.
WriteEnds ==
    /\ writer.at = "last"
    /\ writer' = [writer EXCEPT !.at = "idle", !.late = @ \/ (~link.refused /\ link.gone)]
    /\ UNCHANGED <<node, calls, link>>

\* The goroutine of refuse.
DisconnectSlow ==
    /\ link.closing
    /\ link' = [link EXCEPT !.at = "closed", !.subscribed = FALSE, !.closing = FALSE]
    /\ UNCHANGED <<node, calls, writer>>

\* Fault model of Connection.Disconnect: the close alone is to stop the publications.
DisconnectOnly ==
    /\ link.at \in {"open", "observing"} /\ ~link.closing
    /\ link' = [link EXCEPT !.closing = TRUE, !.gone = TRUE]
    /\ UNCHANGED <<node, calls, writer>>

\* Connection.Disconnect: the latch first, then the close, which flushes the queue before
\* it unsubscribes.
Disconnect ==
    /\ link.at \in {"open", "observing"} /\ ~link.closing
    /\ link' = [link EXCEPT !.refused = TRUE, !.closing = TRUE, !.gone = TRUE]
    /\ UNCHANGED <<node, calls, writer>>

NodeStep == \E c \in StartCalls : NodeStartReturns(c)

NodeNext ==
    \/ \E c \in StartCalls : StartNode(c) \/ NodeStartReturns(c)
    \/ \E c \in StopCalls : StopNode(c)
    \/ AcceptClient \/ OnSubscribe \/ ObserveSubscriptionReady \/ DropSubscription
    \/ WriteBegins \/ PolicyAnswers \/ WriteEnds \/ DisconnectSlow \/ Disconnect

-------------------------------------------------------------------------------
\* The backend's connections are open exactly while the native node runs: a failed Run
\* and a Stop release them, once, and a retried Start opens them again.
BackendFollowsNode ==
    node.opened = IF node.native = "running" /\ node.configured THEN 1 ELSE 0

\* A node that runs is one that Stop will shut down: after a Stop has returned nothing
\* runs, whatever Start it raced, and no Start succeeds later.
NodeStopIsFinal ==
    /\ node.stopped => node.native # "running"
    /\ Ready => node.native = "running"

\* No publication is let through by a hook that ends after Disconnect.
NoPublicationAfterClose == ~writer.late

\* The observer hears of a subscription only if it was installed, once each.
ObservedWasInstalled == link.observed <= link.installs

\* A Start returns when its context is done, and a refused connection is closed.
NodeSettled ==
    /\ \A c \in StartCalls : calls[c] # "blocked"
    /\ ~link.closing

-------------------------------------------------------------------------------
(***************************************************************************)
(* A connection: its credentials, and how long they last.                  *)
(***************************************************************************)

CONSTANTS Users,   \* subjects of verified tokens
          MaxUnix  \* bound on the clock

ASSUME PassAssumption == MaxUnix \in Nat

VARIABLES pass,    \* the credentials of the connection
          unix     \* the clock

passState == <<pass, unix>>
passVars == passState

PassInit ==
    /\ pass = [at |-> "none", user |-> "", expiry |-> 0, token |-> 0, refreshable |-> FALSE]
    /\ unix = 1

PassTypeOK ==
    /\ pass.at \in {"none", "open", "closed"} /\ pass.user \in Users \cup {""}
    /\ {pass.expiry, pass.token} \subseteq 0 .. MaxUnix + 1 /\ unix \in 1 .. MaxUnix

Smaller(a, b) == IF a = 0 \/ (b # 0 /\ b < a) THEN b ELSE a

\* Fault model of policyExpiry: what the policy asks for is taken.
PolicyExpiryTrusts(jwt, policy, now) ==
    LET expiry == IF policy > 0 THEN policy ELSE jwt
    IN IF expiry > 0 /\ expiry <= now THEN {} ELSE {expiry}

\* policyExpiry: a policy may shorten what the token allows, never extend it.  An error is
\* the empty set.
PolicyExpiry(jwt, policy, now) ==
    LET expiry == IF policy > 0 THEN policy ELSE jwt
    IN IF (jwt > 0 /\ policy > jwt) \/ (expiry > 0 /\ expiry <= now) THEN {} ELSE {expiry}

\* boundedPolicyExpiry: the deadline of the request and that of the policy's context
\* (0 is none) shorten it further.
BoundedPolicyExpiry(jwt, policy, deadlines, now) ==
    UNION {PolicyExpiry(jwt, Smaller(Smaller(e, deadlines[1]), deadlines[2]), now) :
             e \in PolicyExpiry(jwt, policy, now)}

\* What VerifyContext returns: claims that have not expired, or an error.
Verified == [subject : Users \cup {""}, expires : {0} \cup (unix + 1 .. MaxUnix + 1)]

\* OnConnecting, with a verifier: no token, a failed verification (connectVerifyFailure),
\* an empty subject, and a policy that refuses are disconnects; without a policy the
\* token's expiry stands.
Connecting ==
    /\ pass.at = "none"
    /\ \E claims \in Verified, refreshable \in BOOLEAN :
         /\ claims.subject # ""
         /\ \E hasPolicy \in BOOLEAN, policy \in 0 .. MaxUnix + 1,
               d1, d2 \in {0} \cup (unix .. MaxUnix) :
              LET expiries == IF ~hasPolicy THEN {claims.expires}
                              ELSE BoundedPolicyExpiry(claims.expires, policy, <<d1, d2>>, unix)
              IN \E e \in expiries :
                   pass' = [pass EXCEPT !.at = "open", !.user = claims.subject,
                                          !.token = claims.expires, !.expiry = e,
                                          !.refreshable = refreshable]
    /\ UNCHANGED unix

\* refresh: the token must be the same user's; an expiry that is over answers Expired,
\* and the other failures disconnect.
Refresh ==
    /\ pass.at = "open" /\ pass.refreshable
    /\ \E claims \in Verified, policy \in 0 .. MaxUnix + 1 :
         LET expiries == BoundedPolicyExpiry(claims.expires, policy, <<0, 0>>, unix) IN
         IF claims.subject # pass.user \/ expiries = {}
         THEN pass' = [pass EXCEPT !.at = "closed"]
         ELSE \E e \in expiries :
                pass' = [pass EXCEPT !.token = claims.expires, !.expiry = e]
    /\ UNCHANGED unix

\* The native node closes a connection whose credentials are over (external).
ExpireConnection ==
    /\ pass.at = "open" /\ pass.expiry > 0 /\ pass.expiry <= unix
    /\ pass' = [pass EXCEPT !.at = "closed"]
    /\ UNCHANGED unix

TickUnix ==
    /\ unix < MaxUnix /\ unix' = unix + 1
    /\ UNCHANGED pass

PassNext == Connecting \/ Refresh \/ ExpireConnection \/ TickUnix

\* A connection lasts no longer than the token that was last verified for it, whatever
\* the policies and the deadlines of connect and refresh said.
ExpiryWithinToken ==
    pass.at = "open" /\ pass.token > 0 => pass.expiry > 0 /\ pass.expiry <= pass.token
================================================================================
