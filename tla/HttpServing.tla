----------------------------- MODULE HttpServing -----------------------------
(***************************************************************************)
(* What an HTTP server keeps between requests or shares between            *)
(* goroutines: httpx/websocket, the timeout middleware and                 *)
(* observability/health.                                                   *)
(***************************************************************************)
EXTENDS FiniteSets, Faults, SequencesExt

-------------------------------------------------------------------------------
(***************************************************************************)
(* httpx/websocket: requests take a slot of the connection limiter and one *)
(* per key limit, are upgraded and tracked by the Hub; the handler, the    *)
(* heartbeat and Hub.Shutdown may each close the connection.               *)
(***************************************************************************)

CONSTANTS Conns, MaxConnections, MaxPerUser, MaxPerAddress

KeyLimits == {1, 2}    \* per user and per address; all requests of the model share the keys
MaxPerKey == <<MaxPerUser, MaxPerAddress>>

VARIABLES
    conn,       \* per request: its step in handleWithHooks, its context, its close
    slots,      \* connLimiter.current
    held,       \* per key limit: its counter
    hub,        \* Shutdown: "no", "closing", "ok" or "expired"
    covered,    \* connections that were tracked when Shutdown was called
    hubClosing  \* connections Shutdown started a Close for

hubState == <<conn, slots, held, hub, covered, hubClosing>>
hubVars == <<hubState, faults>>

Closers == {"handler", "heartbeat", "hub", "none"}
Upgraded == {"handling", "leaving", "untrack"}

HubTypeOK ==
    /\ conn \in [Conns -> [at: {"new", "slot", "key", "keys", "backout", "hold", "release", "end"}
                               \union Upgraded,
                           ctx: {"live", "done"}, close: {"open", "busy", "closed"},
                           by: Closers, code: Closers, closes: 0 .. 1,
                           ping: {"off", "on", "failed"}]]
    /\ slots \in 0 .. MaxConnections /\ \A k \in KeyLimits : held[k] \in 0 .. MaxPerKey[k]
    /\ hub \in {"no", "closing", "ok", "expired"}
    /\ covered \subseteq Conns /\ hubClosing \subseteq Conns /\ faults \in 0 .. MaxFaults

HubInit ==
    /\ conn = [c \in Conns |-> [at |-> "new", ctx |-> "live", close |-> "open", by |-> "none",
                                code |-> "none", closes |-> 0, ping |-> "off"]]
    /\ slots = 0 /\ held = [k \in KeyLimits |-> 0]
    /\ hub = "no" /\ covered = {} /\ hubClosing = {} /\ faults = 0

Tracked == {c \in Conns : conn[c].at \in Upgraded}
GoTo(c, step) == conn' = [conn EXCEPT ![c].at = step]

\* limiter.tryAcquire, or 503.
TakeSlot(c) ==
    /\ conn[c].at = "new"
    /\ IF slots < MaxConnections THEN GoTo(c, "slot") /\ slots' = slots + 1
                                 ELSE GoTo(c, "end") /\ UNCHANGED slots
    /\ UNCHANGED <<held, hub, covered, hubClosing, faults>>

\* acquireKeys takes one limit after the other, each under its own mutex; when one is full
\* it gives back those before it and the request gets 429.
TakeKey(c, k) ==
    /\ conn[c].at = (IF k = 1 THEN "slot" ELSE "key")
    /\ IF held[k] < MaxPerKey[k]
         THEN /\ GoTo(c, IF k = 1 THEN "key" ELSE "keys")
              /\ held' = [held EXCEPT ![k] = @ + 1]
         ELSE GoTo(c, IF k = 1 THEN "release" ELSE "backout") /\ UNCHANGED held
    /\ UNCHANGED <<slots, hub, covered, hubClosing, faults>>

\* Fault model of releaseFirst: the limit that was taken first is not given back.
KeepFirst == UNCHANGED held

\* releaseFirst(1): the second limit was full.
ReleaseFirst == held' = [held EXCEPT ![1] = @ - 1]

BackOut(c) ==
    /\ conn[c].at = "backout" /\ ReleaseFirst /\ GoTo(c, "release")
    /\ UNCHANGED <<slots, hub, covered, hubClosing, faults>>

\* The upgrade; on success the Hub tracks the connection and the heartbeat starts.
Accept(c) ==
    /\ conn[c].at = "keys"
    /\ \/ conn' = [conn EXCEPT ![c].at = "handling", ![c].ping = "on"] /\ UNCHANGED faults
       \/ Fault /\ GoTo(c, "hold")
    /\ UNCHANGED <<slots, held, hub, covered, hubClosing>>

\* The handler returns (an error, a panic or nil): because its context ended, because the
\* peer went away, or because it is finished.
HandlerReturns(c) ==
    /\ conn[c].at = "handling"
    /\ IF conn[c].ctx = "done" THEN UNCHANGED faults ELSE Fault
    /\ GoTo(c, "leaving")
    /\ UNCHANGED <<slots, held, hub, covered, hubClosing>>

\* A ping fails: the heartbeat records it unless the context ended meanwhile.
PingFails(c) ==
    /\ conn[c].ping = "on" /\ conn[c].ctx = "live" /\ Fault
    /\ conn' = [conn EXCEPT ![c].ping = "failed"]
    /\ UNCHANGED <<slots, held, hub, covered, hubClosing>>

Wants(c, who) ==
    \/ who = "handler" /\ conn[c].at = "leaving"
    \/ who = "heartbeat" /\ conn[c].ping = "failed"
    \/ who = "hub" /\ c \in hubClosing

\* Fault model of Conn.Close: it runs once per caller.
CloseByAnyone(c, who) == conn[c].close # "busy" /\ conn[c].closes < 2 /\ conn[c].code # who

\* closeOnce: the first caller closes; the others wait until it has.
MayClose(c, who) == conn[c].close = "open"

\* Conn.Close: record the first code, cancel the context, then close the transport.
BeginClose(c, who) ==
    /\ Wants(c, who) /\ MayClose(c, who)
    /\ conn' = [conn EXCEPT ![c].close = "busy", ![c].by = who, ![c].ctx = "done",
                            ![c].code = IF @ = "none" THEN who ELSE @]
    /\ UNCHANGED <<slots, held, hub, covered, hubClosing, faults>>

EndClose(c) ==
    /\ conn[c].close = "busy"
    /\ conn' = [conn EXCEPT ![c].close = "closed", ![c].closes = @ + 1]
    /\ UNCHANGED <<slots, held, hub, covered, hubClosing, faults>>

\* The deferred calls, last one first: the Hub forgets the connection, then the keys and
\* the slot are given back.
LeaveHandler(c) ==
    /\ conn[c].at = "leaving" /\ conn[c].close = "closed" /\ GoTo(c, "untrack")
    /\ UNCHANGED <<slots, held, hub, covered, hubClosing, faults>>

Untrack(c) ==
    /\ conn[c].at = "untrack"
    /\ conn' = [conn EXCEPT ![c].at = "hold", ![c].ctx = "done", ![c].ping = "off"]
    /\ UNCHANGED <<slots, held, hub, covered, hubClosing, faults>>

ReleaseKeys(c) ==
    /\ conn[c].at = "hold" /\ held' = [k \in KeyLimits |-> held[k] - 1]
    /\ GoTo(c, "release")
    /\ UNCHANGED <<slots, hub, covered, hubClosing, faults>>

ReleaseSlot(c) ==
    /\ conn[c].at = "release" /\ slots' = slots - 1 /\ GoTo(c, "end")
    /\ UNCHANGED <<held, hub, covered, hubClosing, faults>>

\* Hub.Shutdown; each pass closes the connections it has not seen and returns when none
\* is tracked.  Connections that open meanwhile are seen by the next pass.
BeginShutdown ==
    /\ hub = "no" /\ hub' = "closing" /\ covered' = Tracked
    /\ UNCHANGED <<conn, slots, held, hubClosing, faults>>

\* Fault model of Shutdown: it returns once a Close was started for every connection.
ShutdownNoWait == hub' = "ok"

ShutdownPass == hub' = IF Tracked = {} THEN "ok" ELSE hub

PassShutdown ==
    /\ hub = "closing"
    /\ ShutdownPass /\ hubClosing' = hubClosing \union Tracked
    /\ UNCHANGED <<conn, slots, held, covered, faults>>

ShutdownExpires ==
    /\ hub = "closing" /\ Fault /\ hub' = "expired"
    /\ UNCHANGED <<conn, slots, held, covered, hubClosing>>

RequestStep(c) ==
    \/ TakeSlot(c) \/ (\E k \in KeyLimits : TakeKey(c, k)) \/ BackOut(c) \/ Accept(c)
    \/ LeaveHandler(c) \/ Untrack(c) \/ ReleaseKeys(c) \/ ReleaseSlot(c)
CloseStep(c) == EndClose(c) \/ \E who \in Closers : BeginClose(c, who)
ObeyClose(c) == conn[c].ctx = "done" /\ HandlerReturns(c)

HubNext ==
    \/ \E c \in Conns : RequestStep(c) \/ HandlerReturns(c) \/ PingFails(c) \/ CloseStep(c)
    \/ BeginShutdown \/ PassShutdown \/ ShutdownExpires

\* Goroutines run; a handler returns once its context ended; closing has a timeout.
HubFairness ==
    /\ \A c \in Conns : /\ WF_hubVars(conn[c].at # "new" /\ RequestStep(c))
                        /\ WF_hubVars(CloseStep(c)) /\ WF_hubVars(ObeyClose(c))
    /\ WF_hubVars(PassShutdown)

HubSpec == HubInit /\ [][HubNext]_hubVars /\ HubFairness

-------------------------------------------------------------------------------
Holding == [k \in KeyLimits |-> {c \in Conns : conn[c].at \in
    {"keys", "hold"} \union Upgraded \union IF k = 1 THEN {"key", "backout"} ELSE {}}]

\* The limiter and the key limits count exactly the requests that hold them, on every way
\* out of the handler: a refused key, a failed upgrade, a close by any of three parties.
SlotsExact ==
    /\ slots = Cardinality({c \in Conns : conn[c].at \notin {"new", "end"}})
    /\ \A k \in KeyLimits : held[k] = Cardinality(Holding[k])

\* Every upgraded connection is closed, and counted as closed, exactly once.
ClosedOnce ==
    \A c \in Conns : /\ conn[c].closes <= 1
                     /\ conn[c].at = "untrack" => conn[c].closes = 1

\* When Shutdown returned nil, the handlers of all connections it was called for have left.
ShutdownWaits == hub = "ok" => covered \intersect Tracked = {}

\* Shutdown returns, and a connection whose context ended gives back what it holds.
HubSettled ==
    /\ hub # "closing"
    /\ \A c \in Conns : conn[c].at \in {"new", "handling", "end"}
    /\ \A c \in Conns : conn[c].at = "handling" => conn[c].ctx = "live"

-------------------------------------------------------------------------------
(***************************************************************************)
(* httpx/middleware/timeout: the handler runs in a goroutine of its own    *)
(* and writes into a buffer, while the serving goroutine waits for it, for *)
(* the deadline or for the client, and writes the one real response.       *)
(***************************************************************************)

CONSTANTS MaxChunks, BufferCap   \* chunks the handler writes at most, and the buffer holds

VARIABLES
    serve,      \* the serving goroutine
    handler,    \* the handler: "running", or its result in done: "ok", "panic"; then "taken"
    chunks,     \* how much the handler has written, and had accepted
    buffered,   \* tw.buf
    overflowed, written,
    reqCtx,     \* "live", "deadline" or "cancelled"
    sent,       \* responses on the real writer
    panicFate   \* "none", "raised" in the serving goroutine or "logged"

request == <<serve, handler, chunks, buffered, overflowed, written, reqCtx, sent, panicFate>>
requestVars == <<request, faults>>

RequestTypeOK ==
    /\ serve \in {"waiting", "late", "draining", "returned"}
    /\ handler \in {"running", "ok", "panic", "taken"}
    /\ chunks \in 0 .. MaxChunks /\ buffered \in 0 .. BufferCap
    /\ {overflowed, written} \subseteq BOOLEAN
    /\ reqCtx \in {"live", "deadline", "cancelled"}
    /\ sent \in Seq([kind: {"body", "timeout", "too large"}, chunks: 0 .. MaxChunks])
    /\ panicFate \in {"none", "raised", "logged"} /\ faults \in 0 .. MaxFaults

RequestInit ==
    /\ serve = "waiting" /\ handler = "running" /\ chunks = 0 /\ buffered = 0
    /\ overflowed = FALSE /\ written = FALSE /\ reqCtx = "live" /\ sent = <<>>
    /\ panicFate = "none" /\ faults = 0

\* timeoutWriter.Write: refused after the response, and after an overflow, which drops
\* the buffer; the handler may go on, stop or fail either way.
Write ==
    /\ handler = "running" /\ chunks < MaxChunks
    /\ chunks' = chunks + 1
    /\ IF written \/ overflowed THEN UNCHANGED <<buffered, overflowed>>
       ELSE IF buffered = BufferCap THEN overflowed' = TRUE /\ buffered' = 0
       ELSE buffered' = buffered + 1 /\ UNCHANGED overflowed
    /\ UNCHANGED <<serve, handler, written, reqCtx, sent, panicFate, faults>>

HandlerEnds ==
    /\ handler = "running"
    /\ \/ handler' = "ok" /\ UNCHANGED faults
       \/ handler' = "panic" /\ Fault
    /\ UNCHANGED <<serve, chunks, buffered, overflowed, written, reqCtx, sent, panicFate>>

\* The deadline passes, or the client goes away.
ContextEnds ==
    /\ reqCtx = "live" /\ reqCtx' \in {"deadline", "cancelled"}
    /\ UNCHANGED <<serve, handler, chunks, buffered, overflowed, written, sent, panicFate, faults>>

\* writeToReal and writeTimeout write at most once.
Respond(reply) ==
    /\ written' = TRUE
    /\ sent' = IF written THEN sent ELSE Append(sent, reply)

Reply(kind) == [kind |-> kind, chunks |-> IF kind = "body" THEN buffered ELSE 0]

\* Fault model of Timeout: at the deadline the buffer is sent as it is.
TimeoutSendsBuffer == Reply("body")

TimeoutReply == Reply("timeout")

HandlerReply == Reply(IF overflowed THEN "too large" ELSE "body")

\* The handler's result is in done.  A panic is raised again here; a result that comes
\* with the deadline is answered with the timeout, and one the client no longer waits
\* for is still written.
TakeResult ==
    /\ serve = "waiting" /\ handler \in {"ok", "panic"}
    /\ serve' = "returned" /\ handler' = "taken"
    /\ IF handler = "panic"
         THEN panicFate' = "raised" /\ UNCHANGED <<written, sent>>
         ELSE /\ Respond(IF reqCtx = "deadline" THEN TimeoutReply ELSE HandlerReply)
              /\ UNCHANGED panicFate
    /\ UNCHANGED <<chunks, buffered, overflowed, reqCtx, faults>>

\* The select takes ctx.Done, although the result may be there too.
Deadline ==
    /\ serve = "waiting" /\ reqCtx = "deadline"
    /\ Respond(TimeoutReply)
    /\ serve' \in {"late", "draining"}     \* with and without a postTimeoutWait
    /\ UNCHANGED <<handler, chunks, buffered, overflowed, reqCtx, panicFate, faults>>

ClientGone ==
    /\ serve = "waiting" /\ reqCtx = "cancelled" /\ handler = "running"
    /\ serve' = "draining"
    /\ UNCHANGED <<handler, chunks, buffered, overflowed, written, reqCtx, sent, panicFate, faults>>

\* After a timeout the request waits a while for its handler; a late panic is raised.
LateResult ==
    /\ serve = "late"
    /\ \/ /\ handler \in {"ok", "panic"} /\ serve' = "returned" /\ handler' = "taken"
          /\ panicFate' = IF handler = "panic" THEN "raised" ELSE panicFate
       \/ serve' = "draining" /\ UNCHANGED <<handler, panicFate>>
    /\ UNCHANGED <<chunks, buffered, overflowed, written, reqCtx, sent, faults>>

\* drainLateHandler: the request has returned, a panic of the handler is logged.
DrainLate ==
    /\ serve = "draining" /\ handler \in {"ok", "panic"}
    /\ serve' = "returned" /\ handler' = "taken"
    /\ panicFate' = IF handler = "panic" THEN "logged" ELSE panicFate
    /\ UNCHANGED <<chunks, buffered, overflowed, written, reqCtx, sent, faults>>

ServeStep == TakeResult \/ Deadline \/ ClientGone \/ LateResult \/ DrainLate

RequestNext == Write \/ HandlerEnds \/ ContextEnds \/ ServeStep

\* The deadline comes, the serving goroutine runs, and the handler returns.
RequestFairness == WF_requestVars(ServeStep) /\ WF_requestVars(ContextEnds)
                   /\ WF_requestVars(HandlerEnds)

RequestSpec == RequestInit /\ [][RequestNext]_requestVars /\ RequestFairness

-------------------------------------------------------------------------------
\* The client gets one response, and a body only when it is everything the handler
\* wrote; no response only when the handler panicked or the client went away.
OneWholeResponse ==
    /\ Len(sent) <= 1
    /\ \A i \in DOMAIN sent : sent[i].kind = "body" => sent[i].chunks = chunks /\ handler = "taken"
    /\ serve # "waiting" /\ sent = <<>> => panicFate = "raised" \/ reqCtx = "cancelled"

\* The request is answered, the handler's result is read by someone, and so is a panic.
RequestSettled == serve = "returned" /\ handler = "taken"

-------------------------------------------------------------------------------
(***************************************************************************)
(* observability/health: Evaluate serves a cached response, lets one       *)
(* caller run the checks and the others wait for it, and folds the checks  *)
(* into one status; Readiness turns it into 200 or 503.                    *)
(***************************************************************************)

CONSTANTS Probes,      \* concurrent callers of Evaluate
          NumChecks    \* checks of the Checker; check 1 is critical

Statuses == {"healthy", "degraded", "connecting", "unhealthy"}
Checks == 1 .. NumChecks
Critical(i) == i = 1

VARIABLES
    cached, fresh,   \* the status in hc.cached, and whether it is younger than the TTL
    verdict,         \* the status that the reports behind hc.cached stand for
    evaluating,      \* hc.evaluating
    probe,           \* per caller: its step in Evaluate
    answer,          \* per caller: the status it got
    reports          \* what the checks of the running evaluation report

health == <<cached, fresh, verdict, evaluating, probe, answer, reports>>
healthVars == <<health, faults>>

Pending == [i \in Checks |-> "pending"]

HealthTypeOK ==
    /\ fresh \in BOOLEAN /\ evaluating \in BOOLEAN
    /\ probe \in [Probes -> {"new", "running", "waiting", "woken", "done", "crashed"}]
    /\ answer \in [Probes -> Statuses \union {"none"}]
    /\ reports \in [Checks -> Statuses \union {"pending"}]
    /\ {cached, verdict} \subseteq Statuses \union {"none"} /\ faults \in 0 .. MaxFaults

HealthInit ==
    /\ cached = "none" /\ verdict = "none" /\ fresh = FALSE
    /\ evaluating = FALSE
    /\ probe = [p \in Probes |-> "new"] /\ answer = [p \in Probes |-> "none"]
    /\ reports = Pending /\ faults = 0

Cached == cached # "none"

\* The status a set of reports stands for, whatever the order of the checks.
Verdict(rs) ==
    LET bad == {i \in Checks : rs[i] # "healthy"}
    IN  CASE \E i \in bad : Critical(i) -> "unhealthy"
          [] bad = {} -> "healthy"
          [] OTHER -> IF \A i \in bad : rs[i] = "connecting" THEN "connecting" ELSE "degraded"

\* Fault model of Evaluate: a critical check that is still connecting is not unhealthy.
WorsenByStatus(overall, i, status) ==
    IF status = "healthy" THEN overall
    ELSE IF Critical(i) /\ status = "unhealthy" THEN "unhealthy"
    ELSE IF overall = "unhealthy" THEN overall
    ELSE IF status = "connecting" /\ overall # "degraded" THEN "connecting" ELSE "degraded"

\* One step of the loop over the results, in the order of registration.
Worsen(overall, i, status) ==
    IF status = "healthy" THEN overall
    ELSE IF Critical(i) THEN "unhealthy"
    ELSE IF overall = "unhealthy" THEN overall
    ELSE IF status = "connecting" /\ overall # "degraded" THEN "connecting" ELSE "degraded"

Overall(rs) ==
    FoldLeft(LAMBDA acc, i : Worsen(acc, i, rs[i]), "healthy", [i \in Checks |-> i])

\* The caller returns; an evaluator closes evalDone first, which wakes those who wait.
Answers(p, status) ==
    /\ probe' = [q \in Probes |-> IF q = p THEN "done"
                                  ELSE IF probe[p] = "running" /\ probe[q] = "waiting" THEN "woken"
                                  ELSE probe[q]]
    /\ answer' = [answer EXCEPT ![p] = status]

\* Evaluate up to the unlock: a fresh response, or a stale one while another caller
\* evaluates, is returned; without any the caller waits; else it runs the checks.
Evaluate(p) ==
    /\ probe[p] = "new"
    /\ IF Cached /\ (fresh \/ evaluating)
         THEN Answers(p, cached) /\ UNCHANGED <<evaluating, reports>>
       ELSE IF evaluating
         THEN probe' = [probe EXCEPT ![p] = "waiting"] /\ UNCHANGED <<answer, evaluating, reports>>
         ELSE /\ probe' = [probe EXCEPT ![p] = "running"] /\ evaluating' = TRUE
              /\ UNCHANGED <<answer, reports>>
    /\ UNCHANGED <<cached, fresh, verdict, faults>>

\* runCheck: a panic, a timeout and an unknown status count as unhealthy.
Report(i, status) ==
    /\ evaluating /\ reports[i] = "pending"
    /\ reports' = [reports EXCEPT ![i] = status]
    /\ UNCHANGED <<cached, fresh, verdict, evaluating, probe, answer, faults>>

\* The evaluator folds the results, caches the response and wakes the waiters.
Finish(p) ==
    /\ probe[p] = "running" /\ \A i \in Checks : reports[i] # "pending"
    /\ cached' = Overall(reports) /\ verdict' = Verdict(reports) /\ fresh' = TRUE
    /\ evaluating' = FALSE /\ reports' = Pending /\ Answers(p, Overall(reports))
    /\ UNCHANGED faults

\* Fault model of Evaluate: nothing is cached when the evaluation panics.
CacheNothing == UNCHANGED <<cached, fresh, verdict>>

\* The deferred function caches an unhealthy response unless there is an older one.
CacheFailure ==
    IF Cached THEN UNCHANGED <<cached, fresh, verdict>> ELSE cached' = "unhealthy" /\ verdict' = "unhealthy" /\ fresh' = TRUE

FinishPanics(p) ==
    /\ probe[p] = "running" /\ Fault
    /\ CacheFailure
    /\ evaluating' = FALSE /\ reports' = Pending /\ Answers(p, "none")

\* A waiter reads hc.cached without looking whether it is nil.
Woken(p) ==
    /\ probe[p] = "woken"
    /\ IF Cached THEN Answers(p, cached)
                 ELSE probe' = [probe EXCEPT ![p] = "crashed"] /\ UNCHANGED answer
    /\ UNCHANGED <<cached, fresh, verdict, evaluating, reports, faults>>

\* The waiter's context ends first.
WaiterGivesUp(p) ==
    /\ probe[p] = "waiting" /\ Fault /\ Answers(p, "unhealthy")
    /\ UNCHANGED <<cached, fresh, verdict, evaluating, reports>>

Expire == fresh /\ fresh' = FALSE /\ UNCHANGED <<cached, verdict, evaluating, probe, answer, reports, faults>>

\* The caller asks again: a probe is repeated for ever.
Again(p) ==
    /\ probe[p] = "done" /\ probe' = [probe EXCEPT ![p] = "new"]
    /\ answer' = [answer EXCEPT ![p] = "none"]
    /\ UNCHANGED <<cached, fresh, verdict, evaluating, reports, faults>>

ReportSome(i) == \E status \in Statuses : Report(i, status)
ProbeStep(p) == Finish(p) \/ Woken(p)

HealthNext ==
    \/ \E p \in Probes : \/ Evaluate(p) \/ ProbeStep(p) \/ Again(p)
                         \/ FinishPanics(p) \/ WaiterGivesUp(p)
    \/ \E i \in Checks : ReportSome(i)
    \/ Expire

\* Checks report, at the latest when their timeout passes; goroutines run.
HealthFairness ==
    /\ \A i \in Checks : WF_healthVars(ReportSome(i))
    /\ \A p \in Probes : WF_healthVars(ProbeStep(p))

HealthSpec == HealthInit /\ [][HealthNext]_healthVars /\ HealthFairness

------------------------------------------------------------------------------
\* What is cached, and so what probes are answered with, is the verdict on the checks of
\* one whole evaluation: unhealthy exactly when a critical check is not healthy, and
\* independent of the order in which the checks are registered.
CachedIsVerdict == cached = verdict

\* A caller that waited for another's evaluation finds a response, also when that
\* evaluation panicked.
WaiterFindsResponse == \A p \in Probes : probe[p] # "crashed"

\* No probe waits for ever.
HealthSettled == \A p \in Probes : probe[p] \notin {"waiting", "woken", "running"}
================================================================================
