---------------------------- MODULE HttpResponses ----------------------------
(***************************************************************************)
(* A response on its way through the middleware of a server, and the       *)
(* answer of a call through the resilient client: httpx/middleware         *)
(* (recover, metrics, tracing, logging, compress, auditlog,                *)
(* circuitbreaker) and httpx/resilient.go.                                 *)
(***************************************************************************)
EXTENDS Integers, Sequences, FiniteSets

-------------------------------------------------------------------------------
(***************************************************************************)
(* The writers of httpx/middleware/stack around one handler, from the      *)
(* server's own writer inwards: recover's recordingWriter, the recorders   *)
(* of metrics, tracing and logging (they see the same calls, and are one   *)
(* here), compress's writer, and the recorders of circuitbreaker and       *)
(* auditlog (also one).  The buffering timeout is a model of its own; this *)
(* is the stack of a path that bypasses it.                                *)
(***************************************************************************)

CONSTANTS MaxHandlerCalls,       \* bound on what the handler does with its writer
          MinSize, BufferLimits  \* compress: WithMinSize, and values of WithMaxBuffer

ASSUME CompressAssumption == MinSize \in Nat /\ BufferLimits \subseteq Nat

VARIABLE resp

respVars == <<resp>>

ResponseStatuses == {"none", "ok", "error", "recovered"}

\* The body is numbered: a write of n bytes appends the next n numbers.
RespInit ==
    \E eligible, allowed \in BOOLEAN, limit \in BufferLimits :
        resp = [calls |-> 0, at |-> "handler", written |-> 0, asked |-> "none", flushed |-> 0,
                eligible |-> eligible, allowed |-> allowed, size |-> [min |-> MinSize, max |-> limit],
                interim |-> FALSE, hijack |-> "no", panic |-> "no", touched |-> FALSE,
                wire |-> [status |-> "none", body |-> << >>, encoded |-> FALSE],
                rec |-> [wrote |-> FALSE, hijacked |-> FALSE],
                outer |-> [wrote |-> FALSE, status |-> "ok", hijacked |-> FALSE],
                cw |-> [mode |-> "undecided", status |-> "none", wrote |-> FALSE,
                        buf |-> << >>, hijacked |-> FALSE],
                enc |-> "none", pending |-> << >>,
                inner |-> [wrote |-> FALSE, status |-> "ok", hijacked |-> FALSE],
                access |-> "none", span |-> [status |-> "none", error |-> FALSE],
                counted |-> "none", audit |-> "none", verdict |-> "none"]

RespTypeOK ==
    /\ resp.calls \in 0 .. MaxHandlerCalls
    /\ resp.at \in {"handler", "ended"}
    /\ {resp.asked, resp.wire.status, resp.outer.status, resp.inner.status} \subseteq ResponseStatuses
    /\ resp.cw.mode \in {"undecided", "passthrough", "compressed"}
    /\ resp.enc \in {"none", "acquired", "released"}
    /\ resp.panic \in {"no", "panic", "abort"} /\ resp.hijack \in {"no", "failed", "done"}

Failed(status) == status \in {"error", "recovered"}

Numbers(from, n) == [k \in 1 .. n |-> from + k]

-------------------------------------------------------------------------------
\* The server's writer: the first final status is sent, a hijacked connection is the
\* handler's own.
ServerHeader(s, code) ==
    IF s.rec.hijacked THEN [s EXCEPT !.touched = TRUE]
    ELSE IF s.wire.status = "none" THEN [s EXCEPT !.wire.status = code] ELSE s

ServerWrite(s, bytes, encoded) ==
    IF s.rec.hijacked THEN [s EXCEPT !.touched = TRUE]
    ELSE [ServerHeader(s, "ok") EXCEPT !.wire.body = @ \o bytes, !.wire.encoded = encoded]

\* recordingWriter.WriteHeader and Write: an interim status counts as the start, too.
RecHeader(s, code) ==
    ServerHeader([s EXCEPT !.rec.wrote = TRUE], code)
RecInterim(s) == [s EXCEPT !.rec.wrote = TRUE, !.interim = TRUE]
RecWrite(s, bytes, encoded) == ServerWrite([s EXCEPT !.rec.wrote = TRUE], bytes, encoded)

\* ResponseRecorder.WriteHeader: the first final status counts; an interim one is passed
\* on and leaves the recorder open.
OuterHeader(s, code) ==
    IF s.outer.wrote THEN s
    ELSE RecHeader([s EXCEPT !.outer.wrote = TRUE, !.outer.status = code], code)
OuterInterim(s) == IF s.outer.wrote THEN s ELSE RecInterim(s)

\* ResponseRecorder.Write.
OuterWrite(s, bytes, encoded) ==
    RecWrite(OuterHeader(s, "ok"), bytes, encoded)

\* FlushError of both recorders, down to the server, whose flush sends the header.
OuterFlush(s) ==
    ServerHeader([s EXCEPT !.outer.wrote = TRUE, !.rec.wrote = TRUE], "ok")

-------------------------------------------------------------------------------
\* compressWriter.WriteHeader: the header is held until it is known whether to compress.
CwHeader(s, code) ==
    IF s.cw.wrote THEN s
    ELSE LET t == [s EXCEPT !.cw.wrote = TRUE, !.cw.status = code]
         IN IF s.allowed THEN t
            ELSE OuterHeader([t EXCEPT !.cw.mode = "passthrough"], code)

CwInterim(s) == IF s.cw.wrote THEN s ELSE OuterInterim(s)

CommitPassthrough(s) ==
    LET t == OuterHeader([s EXCEPT !.cw.mode = "passthrough"], s.cw.status)
    IN IF s.cw.buf = << >> THEN t
       ELSE [OuterWrite(t, s.cw.buf, FALSE) EXCEPT !.cw.buf = << >>]

\* commitCompressed: the header goes out, the encoder is acquired and takes the prefix.
CommitCompressed(s) ==
    [OuterHeader([s EXCEPT !.cw.mode = "compressed"], s.cw.status)
       EXCEPT !.enc = "acquired", !.pending = s.cw.buf, !.cw.buf = << >>]

\* What the encoder holds goes to the wire: Flush, and Close with the trailer.
EncoderFlush(s) ==
    IF s.enc # "acquired" \/ s.pending = << >> THEN s
    ELSE [OuterWrite(s, s.pending, TRUE) EXCEPT !.pending = << >>]
EncoderClose(s) ==
    IF s.enc # "acquired" THEN s
    ELSE [OuterWrite(s, s.pending, TRUE) EXCEPT !.pending = << >>, !.enc = "released"]

\* Fault model of Write: the bytes that cross the threshold are not buffered first.
CwWriteDropsCrossing(s, bytes) ==
    LET t == CwHeader(s, "ok")
        n == Len(t.cw.buf) + Len(bytes)
    IN IF t.cw.mode = "passthrough" THEN OuterWrite(t, bytes, FALSE)
       ELSE IF t.cw.mode = "compressed" THEN [t EXCEPT !.pending = @ \o bytes]
       ELSE IF n >= t.size.min THEN CommitCompressed(t)
       ELSE IF n > t.size.max THEN OuterWrite(CommitPassthrough(t), bytes, FALSE)
       ELSE [t EXCEPT !.cw.buf = @ \o bytes]

\* compressWriter.Write.
CwWrite(s, bytes) ==
    LET t == CwHeader(s, "ok")
        n == Len(t.cw.buf) + Len(bytes)
    IN IF t.cw.mode = "passthrough" THEN OuterWrite(t, bytes, FALSE)
       ELSE IF t.cw.mode = "compressed" THEN [t EXCEPT !.pending = @ \o bytes]
       ELSE IF n >= t.size.min THEN CommitCompressed([t EXCEPT !.cw.buf = @ \o bytes])
       ELSE IF n > t.size.max THEN OuterWrite(CommitPassthrough(t), bytes, FALSE)
       ELSE [t EXCEPT !.cw.buf = @ \o bytes]

\* compressWriter.Flush: decides, and pushes what the encoder has.
CwFlush(s) ==
    LET t == CwHeader(s, "ok")
        decided == IF t.cw.mode # "undecided" THEN t
                   ELSE IF Len(t.cw.buf) < t.size.min THEN CommitPassthrough(t)
                   ELSE CommitCompressed(t)
    IN IF s.cw.hijacked THEN s ELSE OuterFlush(EncoderFlush(decided))

\* compressWriter.Hijack marks the writer before it asks the one below; the encoder goes
\* back to its pool unclosed.
CwHijack(s) ==
    [s EXCEPT !.cw.hijacked = TRUE, !.cw.buf = << >>, !.pending = << >>,
              !.enc = IF @ = "acquired" THEN "released" ELSE @]

\* Fault model of finalize: it runs after a hijack, too.
FinalizeAlways(s) ==
    IF s.panic # "no" THEN [EncoderClose(s) EXCEPT !.cw.buf = << >>]
    ELSE LET t == CwHeader(s, "ok")
         IN IF t.cw.mode = "undecided" THEN CommitPassthrough(t) ELSE EncoderClose(t)

\* finalize: nothing after a hijack; after a panic an encoder is closed and what was
\* held is dropped; else what is held goes out.
Finalize(s) ==
    IF s.cw.hijacked THEN s
    ELSE IF s.panic # "no" THEN [EncoderClose(s) EXCEPT !.cw.buf = << >>]
    ELSE LET t == CwHeader(s, "ok")
         IN IF t.cw.mode = "undecided" THEN CommitPassthrough(t) ELSE EncoderClose(t)

-------------------------------------------------------------------------------
Below(s, passed, wrapped) == IF s.eligible THEN wrapped ELSE passed

\* The recorders next to the handler: auditlog's, and circuitbreaker's statusRecorder.
InnerHeader(s, code) ==
    IF s.inner.wrote THEN s
    ELSE LET t == [s EXCEPT !.inner.wrote = TRUE, !.inner.status = code]
         IN Below(t, OuterHeader(t, code), CwHeader(t, code))

\* A write is refused with ErrHijacked once compress has been asked to hijack.
InnerWrite(s, n) ==
    LET t == InnerHeader(s, "ok")
        bytes == Numbers(s.written, n)
        u == [t EXCEPT !.written = @ + n]
    IN IF s.eligible /\ s.cw.hijacked THEN t
       ELSE Below(u, OuterWrite(u, bytes, FALSE), CwWrite(u, bytes))

InnerFlush(s) ==
    LET t == [s EXCEPT !.inner.wrote = TRUE] IN Below(t, OuterFlush(t), CwFlush(t))

\* writeAuditEntry: a hijack is recorded as the upgrade it is, a panic as a failure.
WriteAuditEntry(s) ==
    [s EXCEPT !.audit = IF s.panic # "no" THEN "failure"
                        ELSE IF s.inner.hijacked \/ s.inner.status = "ok" THEN "success"
                        ELSE "failure"]

\* What the inbound breaker counts: Execute sees the panic and passes it on, and an error
\* status is errFailedStatus.
CountVerdict(s) ==
    [s EXCEPT !.verdict = IF s.panic # "no" \/ s.inner.status = "error" THEN "failure"
                          ELSE "success"]

\* Fault model of logAccessRequest: the recorder's status is logged as it is.
AccessAsRecorded(s) ==
    [s EXCEPT !.access = IF s.outer.hijacked THEN "upgrade" ELSE s.outer.status]

\* logAccessRequest.
LogAccess(s) ==
    [s EXCEPT !.access = IF s.outer.hijacked THEN "upgrade"
                         ELSE IF s.panic # "no" /\ ~s.outer.wrote THEN "recovered"
                         ELSE s.outer.status]

\* finishHTTPSpan: the status, and whether the span is an error.
FinishHTTPSpan(s) ==
    LET status == IF s.outer.hijacked THEN "upgrade"
                  ELSE IF s.panic # "no" /\ ~s.outer.wrote THEN "recovered" ELSE s.outer.status
    IN [s EXCEPT !.span = [status |-> status,
                           error |-> s.panic # "no" \/ Failed(status)]]

\* HTTPMetrics.Middleware counts the request, unless it was hijacked.
CountRequest(s) ==
    [s EXCEPT !.counted = IF s.outer.hijacked THEN "none"
                          ELSE IF s.panic # "no" /\ ~s.outer.wrote THEN "recovered"
                          ELSE s.outer.status]

\* handlePanic: only a response that has not started is answered. ErrAbortHandler is
\* raised again and ends the connection.
HandlePanic(s) ==
    IF s.panic # "panic" \/ s.rec.hijacked \/ s.rec.wrote THEN s
    ELSE RecWrite(RecHeader(s, "recovered"), <<0>>, FALSE)

\* The handler returns or panics, and every layer finishes on the same goroutine.
Unwind(s) ==
    LET counted == CountVerdict(WriteAuditEntry(s))
        compressed == IF s.eligible THEN Finalize(counted) ELSE counted
        recorded == CountRequest(FinishHTTPSpan(LogAccess(compressed)))
    IN [HandlePanic(recorded) EXCEPT !.at = "ended"]

-------------------------------------------------------------------------------
Asks(s, code) == [s EXCEPT !.asked = IF @ = "none" THEN code ELSE @]

MayCall == resp.at = "handler" /\ resp.hijack # "done"
Called(s) == resp.calls < MaxHandlerCalls /\ resp' = [s EXCEPT !.calls = @ + 1]

HandlerHeader(code) == MayCall /\ Called(InnerHeader(Asks(resp, code), code))

\* An interim status, such as 103: no recorder but recover's takes it for the answer.
HandlerInterim ==
    /\ MayCall /\ ~resp.inner.wrote
    /\ Called(Below(resp, OuterInterim(resp), CwInterim(resp)))

HandlerWrite(n) == MayCall /\ Called(InnerWrite(Asks(resp, "ok"), n))

HandlerFlush ==
    /\ MayCall
    /\ LET s == InnerFlush(Asks(resp, "ok")) IN Called([s EXCEPT !.flushed = s.written])

\* Hijack asks every layer; the server may refuse (HTTP/2), and each recorder marks the
\* connection only on success.
HandlerHijack(ok) ==
    /\ MayCall /\ resp.hijack = "no"
    /\ LET s == Below(resp, resp, CwHijack(resp))
       IN Called(IF ok THEN [s EXCEPT !.hijack = "done", !.inner.hijacked = TRUE,
                                      !.outer.hijacked = TRUE, !.rec.hijacked = TRUE]
                 ELSE [s EXCEPT !.hijack = "failed"])

HandlerDone == resp.at = "handler" /\ resp' = Unwind(resp)

HandlerPanics(kind) == resp.at = "handler" /\ resp' = Unwind([resp EXCEPT !.panic = kind])

RespNext ==
    \/ HandlerDone \/ HandlerFlush \/ HandlerInterim
    \/ \E code \in {"ok", "error"} : HandlerHeader(code)
    \/ \E n \in 1 .. 2 : HandlerWrite(n)
    \/ \E ok \in BOOLEAN : HandlerHijack(ok)
    \/ \E kind \in {"panic", "abort"} : HandlerPanics(kind)

RespSpec == RespInit /\ [][RespNext]_respVars /\ WF_respVars(HandlerDone)

-------------------------------------------------------------------------------
\* What the client has when the server is done: a response nobody started is an empty 200.
ClientStatus == IF resp.wire.status = "none" THEN "ok" ELSE resp.wire.status

\* A handler that returns has its whole answer with the client: its first status, every
\* byte it wrote in order, and an encoded body with its trailer, however compress decided
\* and whatever was flushed on the way. (A handler whose Hijack was refused is left out:
\* compress has by then given up the response.)
ResponseIsWhole ==
    resp.at = "ended" /\ resp.panic = "no" /\ resp.hijack = "no"
    => /\ ClientStatus = (IF resp.asked = "none" THEN "ok" ELSE resp.asked)
       /\ resp.wire.body = Numbers(0, resp.written)
       /\ resp.wire.encoded => resp.enc = "released"

\* A panic before anything final reached the client is answered by recover's 500, also when
\* compress was holding a header or a prefix; later the client has a prefix of the body
\* under the handler's status. (An interim status makes recover take the response for
\* started; that case is left out.)
PanicIsAnswered ==
    resp.at = "ended" /\ resp.panic = "panic" /\ resp.hijack = "no" /\ ~resp.interim
    => \/ resp.wire.status = "recovered" /\ resp.wire.body = <<0>>
       \/ resp.wire.status = resp.asked
          /\ \E n \in 0 .. resp.written : resp.wire.body = Numbers(0, n)

\* The access log, the span, the metrics, the audit entry and the inbound breaker agree
\* with what the client got, also when a panic was answered above them.
RecordsAreTrue ==
    resp.at = "ended" /\ resp.panic # "abort" /\ resp.hijack # "failed"
      /\ ~(resp.panic = "panic" /\ resp.interim)
    => /\ resp.access = (IF resp.hijack = "done" THEN "upgrade" ELSE ClientStatus)
       /\ resp.span.status = resp.access
       /\ resp.counted = (IF resp.hijack = "done" THEN "none" ELSE ClientStatus)
       /\ resp.hijack = "no" => resp.span.error = (resp.audit = "failure")
       /\ resp.hijack = "no" => (resp.audit = "failure") = (resp.panic # "no" \/ Failed(ClientStatus))
       /\ resp.hijack = "no" => resp.verdict = resp.audit

\* A flush puts everything written so far on the wire, through buffer and encoder.
FlushReachesClient == resp.hijack = "no" => Len(resp.wire.body) >= resp.flushed

\* No layer writes to a connection that was handed over, and no encoder is kept.
HijackedIsRaw == ~resp.touched /\ (resp.at = "ended" => resp.enc # "acquired")

RespSettled == resp.at = "ended"

-------------------------------------------------------------------------------
(***************************************************************************)
(* httpx/resilient.go and deadline_transport.go: requests of one client    *)
(* with WithHostCircuitBreakers and WithDeadlineBudget.  What a breaker    *)
(* does with an outcome is CircuitBreaker's subject; here it counts, and   *)
(* opens at TripAt.                                                        *)
(***************************************************************************)

CONSTANTS RoundTrips, Hosts, TripAt

ASSUME ResilientAssumption == TripAt \in Nat \ {0}

VARIABLES
    hostBreaker,   \* per host: no breaker yet, or the failures it counted and its state
    trip           \* per request: its place, host, result, bodies and derived context

tripState == <<hostBreaker, trip>>
tripVars == tripState

NoBreaker == [made |-> 0, failures |-> 0, open |-> FALSE]
NewTrip == [at |-> "new", host |-> "none", got |-> "none", reqBody |-> "open",
            respBody |-> "none", ctx |-> "none"]

TripTypeOK ==
    /\ hostBreaker \in [Hosts -> [made: 0 .. 2, failures: 0 .. TripAt, open: BOOLEAN]]
    /\ \A t \in RoundTrips :
         /\ trip[t].at \in {"new", "begun", "sent", "returned", "done"}
         /\ trip[t].got \in {"none", "response", "error", "open"}
         /\ trip[t].reqBody \in {"open", "closed"}
         /\ trip[t].respBody \in {"none", "open", "closed"}
         /\ trip[t].ctx \in {"none", "live", "cancelled"}

TripInit ==
    /\ hostBreaker = [h \in Hosts |-> NoBreaker]
    /\ trip = [t \in RoundTrips |-> NewTrip]

\* deadlineBudgetTransport.RoundTrip: a deadline gives the request a context of its own.
BeginTrip(t, h, deadline) ==
    /\ trip[t].at = "new"
    /\ trip' = [trip EXCEPT ![t].at = "begun", ![t].host = h,
                            ![t].ctx = IF deadline THEN "live" ELSE "none"]
    /\ UNCHANGED hostBreaker

\* Fault model of breakerFor: the map is not looked at under the mutex.
MakesBreaker(h) == TRUE

\* breakerFor: one breaker per host, looked up and made under t.mu.
NeedsBreaker(h) == hostBreaker[h].made = 0

Cancelled(r) == [r EXCEPT !.ctx = IF @ = "live" THEN "cancelled" ELSE @]

\* circuitBreakerTransport.RoundTrip: an open circuit closes the request's body itself,
\* since the transport below never sees it.
Admit(t) ==
    LET h == trip[t].host
        b == IF NeedsBreaker(h) THEN [NoBreaker EXCEPT !.made = hostBreaker[h].made + 1]
             ELSE hostBreaker[h]
    IN /\ trip[t].at = "begun" /\ b.made <= 2
       /\ hostBreaker' = [hostBreaker EXCEPT ![h] = b]
       /\ trip' = [trip EXCEPT ![t] =
            IF b.open THEN Cancelled([@ EXCEPT !.at = "done", !.got = "open",
                                               !.reqBody = "closed"])
            ELSE [@ EXCEPT !.at = "sent"]]

\* What the base transport may come back with; it closes the request's body.
Results == {"2xx", "5xx", "error", "canceled", "response and error"}

\* defaultShouldTrip: transport errors and 5xx count, the caller's own cancellation does
\* not: it neither trips the breaker nor resets its streak.
ShouldTrip(result) ==
    CASE result \in {"5xx", "error", "response and error"} -> "failure"
      [] result = "canceled" -> "excluded"
      [] OTHER -> "success"

\* The breaker of a host takes an outcome.
AfterResult(b, result) ==
    CASE ShouldTrip(result) = "failure" /\ ~b.open ->
           [b EXCEPT !.failures = @ + 1, !.open = b.failures + 1 >= TripAt]
      [] ShouldTrip(result) = "success" /\ ~b.open -> [b EXCEPT !.failures = 0]
      [] OTHER -> b

\* Fault model of RoundTrip: the context ends with the round trip.
ReturnedCancelled(r, result) ==
    LET u == [r EXCEPT !.reqBody = "closed"]
    IN Cancelled(IF result \in {"2xx", "5xx"}
                 THEN [u EXCEPT !.at = "returned", !.got = "response", !.respBody = "open"]
                 ELSE [u EXCEPT !.at = "done", !.got = "error"])

\* A 5xx is counted and still handed out as a response; a response that comes with an
\* error is closed. Only an error cancels the derived context at once.
Returned(r, result) ==
    IF result \in {"2xx", "5xx"}
    THEN [r EXCEPT !.at = "returned", !.got = "response", !.reqBody = "closed",
                   !.respBody = "open"]
    ELSE Cancelled([r EXCEPT !.at = "done", !.got = "error", !.reqBody = "closed",
                             !.respBody = IF result = "response and error" THEN "closed"
                                          ELSE @])

Answer(t, result) ==
    /\ trip[t].at = "sent"
    /\ hostBreaker' = [hostBreaker EXCEPT ![trip[t].host] = AfterResult(@, result)]
    /\ trip' = [trip EXCEPT ![t] = Returned(@, result)]

\* cancelOnCloseBody.Close.
CloseBody(t) ==
    /\ trip[t].at = "returned"
    /\ trip' = [trip EXCEPT ![t] = Cancelled([@ EXCEPT !.at = "done", !.respBody = "closed"])]
    /\ UNCHANGED hostBreaker

TripStep(t) == Admit(t) \/ (\E result \in Results : Answer(t, result)) \/ CloseBody(t)

TripNext ==
    \E t \in RoundTrips :
        TripStep(t) \/ \E h \in Hosts, deadline \in BOOLEAN : BeginTrip(t, h, deadline)

TripSpec == TripInit /\ [][TripNext]_tripVars /\ \A t \in RoundTrips : WF_tripVars(TripStep(t))

-------------------------------------------------------------------------------
\* The derived context outlives the round trip as long as the caller can read the body, and
\* not a step longer; no body is left open by the transports.
ContextLastsForBody ==
    \A t \in RoundTrips :
        /\ trip[t].respBody = "open" => trip[t].ctx # "cancelled"
        /\ trip[t].at = "done" => trip[t].ctx # "live" /\ trip[t].reqBody = "closed"
                                  /\ trip[t].respBody # "open"

\* Requests that race to a new host share its breaker, so that no failure is forgotten, and
\* only failures of requests to a host open it.
HostsAreIsolated ==
    \A h \in Hosts :
        /\ hostBreaker[h].made <= 1
        /\ hostBreaker[h].open
           => Cardinality({t \in RoundTrips : trip[t].host = h /\ trip[t].at \in {"returned", "done"}
                                         /\ trip[t].got # "open"}) >= TripAt

TripSettled == \A t \in RoundTrips : trip[t].at \in {"new", "done"}
=============================================================================
