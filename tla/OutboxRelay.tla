------------------------------ MODULE OutboxRelay ------------------------------
(***************************************************************************)
(* Relays (infra/outbox/relay.go) polling one outbox table, each a process *)
(* of its own.  A poll recovers stale rows every StaleRecoveryMultiplier   *)
(* polls, claims a batch, publishes it with at most MaxConcurrentPublish   *)
(* publishes in flight while a heartbeat keeps the claims alive, and       *)
(* records each outcome.  A relay may be stopped, crash and be restarted,  *)
(* and a statement may report an error whether or not it committed.        *)
(***************************************************************************)
EXTENDS OutboxStore

CONSTANTS
    MaxAttempts, MaxConcurrentPublish, StaleRecoveryMultiplier,
    HeartbeatTicks,    \* staleDuration / 3, in ticks
    Timely,            \* TRUE: time does not pass a due heartbeat
    FaultKinds,        \* which of "crash", "stop", "db" happen
    MaxFaults,         \* bound: how many faults happen
    DeliveryCap        \* bound: where the count of deliveries saturates

ASSUME RelayAssumption ==
    /\ MaxAttempts \in Nat \ {0} /\ MaxConcurrentPublish \in Nat \ {0}
    /\ StaleRecoveryMultiplier \in Nat \ {0} /\ HeartbeatTicks \in Nat \ {0}
    /\ Timely \in BOOLEAN /\ MaxFaults \in Nat /\ DeliveryCap \in Nat \ {0}

VARIABLES
    phase,       \* where each relay's goroutine is
    cancelled,   \* the run context is cancelled
    pollCount,   \* modulo StaleRecoveryMultiplier
    job,         \* what the batch of r still has to do for e
    seen,        \* entry.Attempts as read by FetchPending
    claimed,     \* Relay.claimed
    sinceBeat,   \* ticks since the heartbeat ticker of r last fired
    deliveries,  \* how often the broker has accepted e
    errors,      \* how many publishes of e returned an error
    faults

procVars == <<phase, cancelled, pollCount, job, seen, claimed, sinceBeat>>
brokerVars == <<deliveries, errors>>
vars == <<storeVars, procVars, brokerVars, faults>>

Phases == {"down", "idle", "recover", "fetch", "publish"}

Jobs == {"none", "queued", "publishing", "sent", "errored"}

NoJobs == [e \in Entries |-> "none"]

TypeOK ==
    /\ row \in [Entries -> Row]
    /\ \A e \in Entries : row[e].attempts < MaxAttempts
    /\ remembered \in [Relays -> [Entries -> Tokens \cup {NoToken}]]
    /\ phase \in [Relays -> Phases]
    /\ cancelled \in [Relays -> BOOLEAN]
    /\ pollCount \in [Relays -> 0 .. StaleRecoveryMultiplier - 1]
    /\ job \in [Relays -> [Entries -> Jobs]]
    /\ seen \in [Relays -> [Entries -> Nat]]
    /\ claimed \in [Relays -> SUBSET Entries]
    /\ sinceBeat \in [Relays -> Nat]
    /\ deliveries \in [Entries -> 0 .. DeliveryCap]
    /\ errors \in [Entries -> 0 .. MaxAttempts]
    /\ faults \in Nat

Init ==
    /\ StoreInit
    /\ phase = [r \in Relays |-> "down"]
    /\ cancelled = [r \in Relays |-> FALSE]
    /\ pollCount = [r \in Relays |-> 0]
    /\ job = [r \in Relays |-> NoJobs]
    /\ seen = [r \in Relays |-> [e \in Entries |-> 0]]
    /\ claimed = [r \in Relays |-> {}]
    /\ sinceBeat = [r \in Relays |-> 0]
    /\ deliveries = [e \in Entries |-> 0]
    /\ errors = [e \in Entries |-> 0]
    /\ faults = 0

Fault(kind) ==
    /\ kind \in FaultKinds
    /\ faults < MaxFaults
    /\ faults' = faults + 1

InState(r, state) == {e \in Entries : job[r][e] = state}

InFlight(r) == InState(r, "publishing") \cup InState(r, "sent") \cup InState(r, "errored")

\* Fault model of the heartbeat: it lists the entries being published, not the
\* ones queued behind them.
OnlyInFlight(r) == InFlight(r)

\* The ids the batch heartbeat still lists: done(id) is deferred to the end of
\* publishEntry.
Unfinished(r) == InState(r, "queued") \cup InFlight(r)

Write(e) == Insert(e) /\ UNCHANGED <<procVars, brokerVars, faults>>

\* Fault model of poll: stale rows are never recovered.
PollWithoutRecovery(r, count) ==
    /\ pollCount' = [pollCount EXCEPT ![r] = count % StaleRecoveryMultiplier]
    /\ phase' = [phase EXCEPT ![r] = "fetch"]

\* poll: pollCount++, and recoverStale first when the count is a multiple.
Poll(r, count) ==
    /\ pollCount' = [pollCount EXCEPT ![r] = count % StaleRecoveryMultiplier]
    /\ phase' = [phase EXCEPT ![r] =
                   IF count % StaleRecoveryMultiplier = 0 THEN "recover" ELSE "fetch"]

\* A new process: a new Relay over a new Store, Relay.Start, its initial poll.
Start(r) ==
    /\ phase[r] = "down"
    /\ Poll(r, 1)
    /\ UNCHANGED <<storeVars, cancelled, job, seen, claimed, sinceBeat, brokerVars, faults>>

\* The select loop of Start takes a poll tick or a wake-up.
BeginPoll(r) ==
    /\ phase[r] = "idle" /\ ~cancelled[r]
    /\ Poll(r, pollCount[r] + 1)
    /\ UNCHANGED <<storeVars, cancelled, job, seen, claimed, sinceBeat, brokerVars, faults>>

RecoverStale(r) ==
    /\ phase[r] = "recover"
    /\ phase' = [phase EXCEPT ![r] = "fetch"]
    /\ \/ ~cancelled[r] /\ ResetStaleProcessing(r) /\ UNCHANGED faults
       \/ cancelled[r] /\ UNCHANGED <<storeVars, faults>>
       \/ Fault("db") /\ UNCHANGED storeVars
    /\ UNCHANGED <<cancelled, pollCount, job, seen, claimed, sinceBeat, brokerVars>>

\* FetchPending, trackClaimed, startBatchHeartbeat.
Fetch(r) ==
    /\ phase[r] = "fetch" /\ ~cancelled[r]
    /\ \E B \in SUBSET Entries :
         /\ FetchPending(r, B, TRUE)
         /\ phase' = [phase EXCEPT ![r] = IF B = {} THEN "idle" ELSE "publish"]
         /\ job' = [job EXCEPT ![r] = [e \in Entries |-> IF e \in B THEN "queued" ELSE "none"]]
         /\ seen' = [seen EXCEPT ![r] = [e \in Entries |-> IF e \in B THEN row[e].attempts ELSE 0]]
         /\ claimed' = [claimed EXCEPT ![r] = @ \cup B]
    /\ sinceBeat' = [sinceBeat EXCEPT ![r] = 0]
    /\ UNCHANGED <<cancelled, pollCount, brokerVars, faults>>

\* FetchPending returns an error: the context is cancelled, or the statement
\* failed before or after it committed.
FetchError(r) ==
    /\ phase[r] = "fetch"
    /\ phase' = [phase EXCEPT ![r] = "idle"]
    /\ \/ cancelled[r] /\ UNCHANGED <<storeVars, faults>>
       \/ Fault("db") /\ UNCHANGED storeVars
       \/ Fault("db") /\ \E B \in SUBSET Entries : FetchPending(r, B, FALSE)
    /\ UNCHANGED <<cancelled, pollCount, job, seen, claimed, sinceBeat, brokerVars>>

\* poll hands the oldest queued entry to publishEntry while the semaphore has a
\* free slot and the context is live.
PublishStart(r, e) ==
    /\ phase[r] = "publish" /\ ~cancelled[r]
    /\ e \in InState(r, "queued")
    /\ \A x \in InState(r, "queued") : e <= x
    /\ Cardinality(InFlight(r)) < MaxConcurrentPublish
    /\ job' = [job EXCEPT ![r][e] = "publishing"]
    /\ UNCHANGED <<storeVars, phase, cancelled, pollCount, seen, claimed, sinceBeat,
                   brokerVars, faults>>

\* Publisher.Publish returns.  An error (a timeout, a panic) may hide a message
\* that the broker did accept; success means that it did.
PublishReturn(r, e) ==
    /\ job[r][e] = "publishing"
    /\ \E accepted, ok \in BOOLEAN :
         /\ ok => accepted
         /\ job' = [job EXCEPT ![r][e] = IF ok THEN "sent" ELSE "errored"]
         /\ deliveries' = [deliveries EXCEPT ![e] =
                IF accepted /\ @ < DeliveryCap THEN @ + 1 ELSE @]
         /\ errors' = [errors EXCEPT ![e] = IF ~ok /\ @ < MaxAttempts THEN @ + 1 ELSE @]
    /\ UNCHANGED <<storeVars, phase, cancelled, pollCount, seen, claimed, sinceBeat, faults>>

\* Fault model of handlePublishError: the limit is off by one.
OutcomeRowOneMore(r, e) ==
    IF job[r][e] = "sent" THEN MarkPublished(e)
    ELSE IF seen[r][e] + 1 > MaxAttempts THEN MarkFailed(e)
    ELSE IncrementAttempts(e)

\* The update publishEntry and handlePublishError choose, from the attempts read
\* at the claim.
OutcomeRow(r, e) ==
    IF job[r][e] = "sent" THEN MarkPublished(e)
    ELSE IF seen[r][e] + 1 >= MaxAttempts THEN MarkFailed(e)
    ELSE IncrementAttempts(e)

\* The rest of publishEntry: record the outcome, drop the id from the claimed set
\* unless the store reported anything but success, ErrStaleState or ErrNotFound,
\* and leave the heartbeat.
Outcome(r, e) ==
    /\ job[r][e] \in {"sent", "errored"}
    /\ \/ /\ ~cancelled[r]
          /\ Transition(r, e, OutcomeRow(r, e))
          /\ claimed' = [claimed EXCEPT ![r] = @ \ {e}]
          /\ UNCHANGED faults
       \/ cancelled[r] /\ UNCHANGED <<storeVars, claimed, faults>>
       \/ Fault("db") /\ TransitionError(r, e, OutcomeRow(r, e)) /\ UNCHANGED claimed
    /\ job' = [job EXCEPT ![r][e] = "none"]
    /\ UNCHANGED <<phase, cancelled, pollCount, seen, sinceBeat, brokerVars>>

\* The ticker of the batch heartbeat fires.
Beat(r) ==
    /\ phase[r] = "publish" /\ ~cancelled[r] /\ Unfinished(r) # {}
    /\ sinceBeat[r] > 0 \/ ~Timely
    /\ \/ Heartbeat(r, Unfinished(r)) /\ UNCHANGED faults
       \/ Fault("db") /\ UNCHANGED storeVars
    /\ sinceBeat' = [sinceBeat EXCEPT ![r] = 0]
    /\ UNCHANGED <<phase, cancelled, pollCount, job, seen, claimed, brokerVars>>

\* Fault model of poll: it returns while entries are still queued.
PollEndEarly(r) ==
    /\ phase[r] = "publish" /\ InFlight(r) = {}
    /\ phase' = [phase EXCEPT ![r] = "idle"]
    /\ job' = [job EXCEPT ![r] = NoJobs]
    /\ UNCHANGED <<storeVars, cancelled, pollCount, seen, claimed, sinceBeat,
                   brokerVars, faults>>

\* The batch is done, or the context is cancelled and what was in flight has
\* returned; the entries still queued are abandoned, claimed.
PollEnd(r) ==
    /\ phase[r] = "publish" /\ InFlight(r) = {}
    /\ cancelled[r] \/ InState(r, "queued") = {}
    /\ phase' = [phase EXCEPT ![r] = "idle"]
    /\ job' = [job EXCEPT ![r] = NoJobs]
    /\ UNCHANGED <<storeVars, cancelled, pollCount, seen, claimed, sinceBeat,
                   brokerVars, faults>>

Cleanup(r) ==
    /\ phase[r] = "idle" /\ ~cancelled[r]
    /\ \E D \in SUBSET Entries : D # {} /\ DeleteBefore(r, D)
    /\ UNCHANGED <<procVars, brokerVars, faults>>

\* Relay.Stop, or the caller's context: the run context is cancelled.
Stop(r) ==
    /\ phase[r] # "down" /\ ~cancelled[r]
    /\ Fault("stop")
    /\ cancelled' = [cancelled EXCEPT ![r] = TRUE]
    /\ UNCHANGED <<storeVars, phase, pollCount, job, seen, claimed, sinceBeat, brokerVars>>

\* What ends with a process: its Relay and its Store.
ProcessEnds(r) ==
    /\ phase' = [phase EXCEPT ![r] = "down"]
    /\ cancelled' = [cancelled EXCEPT ![r] = FALSE]
    /\ pollCount' = [pollCount EXCEPT ![r] = 0]
    /\ job' = [job EXCEPT ![r] = NoJobs]
    /\ seen' = [seen EXCEPT ![r] = [e \in Entries |-> 0]]
    /\ claimed' = [claimed EXCEPT ![r] = {}]
    /\ sinceBeat' = [sinceBeat EXCEPT ![r] = 0]
    /\ remembered' = [remembered EXCEPT ![r] = [e \in Entries |-> NoToken]]

\* Start returns: the deferred resetClaimedOnShutdown, then the process exits.
Shutdown(r) ==
    /\ phase[r] = "idle" /\ cancelled[r]
    /\ ResetPending(r, claimed[r])
    /\ ProcessEnds(r)
    /\ UNCHANGED <<brokerVars, faults>>

\* The process dies: everything but the table is lost.
Crash(r) ==
    /\ phase[r] # "down"
    /\ Fault("crash")
    /\ ProcessEnds(r)
    /\ UNCHANGED <<row, brokerVars>>

Beating(r) == phase[r] = "publish" /\ ~cancelled[r]

\* Time passes, but, when Timely, not past a heartbeat that is due.
Tick ==
    /\ Timely => \A r \in Relays : Beating(r) => sinceBeat[r] < HeartbeatTicks
    /\ row' = Aged
    /\ sinceBeat' = [r \in Relays |-> IF Timely /\ Beating(r) THEN sinceBeat[r] + 1 ELSE 0]
    /\ row' # row
    /\ UNCHANGED <<remembered, phase, cancelled, pollCount, job, seen, claimed,
                   brokerVars, faults>>

Backoff(e) == BackoffElapses(e) /\ UNCHANGED <<procVars, brokerVars, faults>>

RelayStep(r) ==
    \/ Start(r) \/ BeginPoll(r) \/ RecoverStale(r) \/ Fetch(r) \/ FetchError(r)
    \/ \E e \in Entries : PublishStart(r, e) \/ PublishReturn(r, e) \/ Outcome(r, e)
    \/ Beat(r) \/ PollEnd(r) \/ Shutdown(r)

Next ==
    \/ \E e \in Entries : Write(e) \/ Backoff(e)
    \/ \E r \in Relays : RelayStep(r) \/ Cleanup(r) \/ Stop(r) \/ Crash(r)
    \/ Tick

Spec == Init /\ [][Next]_vars

--------------------------------------------------------------------------------
\* The refinement mapping: a claim, a retry and a stale sweep are invisible.
Fate == [e \in Entries |->
    IF row[e].status \in {"pending", "processing"} THEN "owed" ELSE row[e].status]

Accepted == [e \in Entries |-> deliveries[e] > 0]

Delivery == INSTANCE OutboxDelivery WITH
    fate <- Fate, accepted <- Accepted, failures <- errors

\* The relays and the store keep the promise of OutboxDelivery: whatever stale
\* sweeps, late outcomes, crashes and ambiguous commits do, a row is marked
\* published only once the broker has the message, failed only after MaxAttempts
\* publishes of it failed, and a settled row is never brought back.
KeepsPromise == Delivery!Spec

\* The claim token fences: of all processes that still remember a token for a
\* row, at most one can update it, and the attempts that process read at its
\* claim, from which it decides between MarkFailed and IncrementAttempts, are
\* still the row's.
OwnerIsSoleAndCurrent ==
    \A e \in Entries, r \in Relays : Owns(r, e) =>
        /\ \A q \in Relays \ {r} : ~Owns(q, e)
        /\ job[r][e] # "none" => seen[r][e] = row[e].attempts

\* As long as nothing has failed, a row in processing belongs to a relay that is
\* still working on it: claims are lost to faults only (trackClaimed, the outcome
\* updates and the stale sweep leave none behind).
ProcessingIsOwned ==
    faults = 0 => \A e \in Entries : row[e].status = "processing" =>
        \E r \in Relays : Owns(r, e) /\ e \in Unfinished(r)

\* With a heartbeat every third of the stale window, no row of a live batch, the
\* ones queued behind a slow publish included, is swept and published by a
\* second relay at the same time, even when one heartbeat fails (the comment on
\* startBatchHeartbeat).
ExclusivePublish ==
    \A e \in Entries, r, q \in Relays :
        r # q /\ ~cancelled[r] /\ ~cancelled[q] =>
            ~(job[r][e] = "publishing" /\ job[q][e] = "publishing")

\* With timely heartbeats a row is in the hands of one live relay: no two publish it at
\* once, and while nothing failed a row in processing has an owner at work on it.
PublishIsOwned == ExclusivePublish /\ ProcessingIsOwned

\* Under timely heartbeats the broker sees a message again only because a publish
\* returned an error or a fault happened, once for each.
DuplicatesAreExplained ==
    \A e \in Entries : deliveries[e] <= 1 + errors[e] + faults

\* A relay that is stopped hands the rows it still owns back at once
\* (resetClaimedOnShutdown: "so a freshly started replica can re-claim them
\* immediately instead of waiting out the stale window").
ShutdownReleasesClaims ==
    [][\A r \in Relays : Shutdown(r) =>
         \A e \in claimed[r] : Owns(r, e) => row'[e].status = "pending"]_vars
================================================================================
