------------------------------ MODULE Consumers ------------------------------
(***************************************************************************)
(* The receiving ends of the brokers: the AMQP, Kafka and NATS consumers   *)
(* and the inbox that makes their redeliveries harmless. Each has its own  *)
(* variables and specification; MCMessaging checks them.                   *)
(***************************************************************************)
EXTENDS Faults, FiniteSets

-------------------------------------------------------------------------------
(***************************************************************************)
(* amqpbackend.Consumer: consumers of one queue with the retry topology of *)
(* DeclareAll: a nacked message waits in the retry queue and comes back    *)
(* with a higher x-death count, and one that is out of retries goes to the *)
(* dead exchange by a publish and an ack.  RabbitMQ is external.           *)
(*                                                                         *)
(* A consumer handles its prefetched deliveries one after the other; the   *)
(* ones that wait are as good as in the queue, since a lost channel gives  *)
(* them back.                                                              *)
(***************************************************************************)

CONSTANTS AmqpConsumers, AmqpMessages,
          MaxRetries,                \* Binding.Retry.MaxRetries
          MaxDLQConsecutiveFail,
          MaxDeaths                  \* bound: x-death counts above it are not told apart

ASSUME AmqpConsumerAssumption ==
    {MaxRetries, MaxDLQConsecutiveFail, MaxDeaths} \subseteq Nat \ {0}

VARIABLES
    binding,      \* retry: the binding has a policy; broken: nothing reaches the dead exchange
    invalid,      \* the messages that do not decode or validate
    queueOf,      \* "queue", "retry", "gone", or the consumer whose channel holds the message
    deaths,       \* xDeathCount of each message
    deadCopies,   \* copies in the dead queue, counted up to 2
    processed,    \* the messages whose handler returned nil
    work,         \* what each consumer does: message, step, and whether its channel is open
    dlqFails      \* dlqFailCounter of each consumer

amqpVars == <<binding, invalid, queueOf, deaths, deadCopies, processed, work, dlqFails, faults>>

SafetyMaxBounceMultiplier == 3
Steps == {"idle", "handle", "ack", "nack", "deadletter"}

AmqpTypeOK ==
    /\ binding \in [retry : BOOLEAN, broken : BOOLEAN] /\ invalid \subseteq AmqpMessages
    /\ queueOf \in [AmqpMessages -> {"queue", "retry", "gone"} \cup AmqpConsumers]
    /\ deaths \in [AmqpMessages -> 0 .. MaxDeaths] /\ deadCopies \in [AmqpMessages -> 0 .. 2]
    /\ processed \subseteq AmqpMessages
    /\ \A c \in AmqpConsumers : work[c].step \in Steps /\ work[c].open \in BOOLEAN
    /\ dlqFails \in [AmqpConsumers -> 0 .. MaxDLQConsecutiveFail + 1]
    /\ faults \in 0 .. MaxFaults

AmqpInit ==
    /\ binding \in [retry : BOOLEAN, broken : BOOLEAN] /\ (binding.broken => binding.retry)
    /\ invalid \in {{}, {CHOOSE m \in AmqpMessages : TRUE}}
    /\ queueOf = [m \in AmqpMessages |-> "queue"]
    /\ deaths = [m \in AmqpMessages |-> 0] /\ deadCopies = [m \in AmqpMessages |-> 0]
    /\ processed = {}
    /\ work = [c \in AmqpConsumers |-> [step |-> "idle", open |-> TRUE]]
    /\ dlqFails = [c \in AmqpConsumers |-> 0]
    /\ faults = 0

\* The delivery loop of ConsumeOnce takes a message; one that does not decode or
\* validate is acked without a handler.
Receive(c, m) ==
    /\ work[c].step = "idle" /\ work[c].open /\ queueOf[m] = "queue"
    /\ queueOf' = [queueOf EXCEPT ![m] = c]
    /\ work' = [work EXCEPT ![c] = [step |-> IF m \in invalid THEN "ack" ELSE "handle",
                                    open |-> TRUE, msg |-> m]]
    /\ UNCHANGED <<binding, invalid, deaths, deadCopies, processed, dlqFails, faults>>

\* resolveFailure: discard and force-discard are an ack.
ResolveFailure(m) ==
    IF ~binding.retry \/ deaths[m] >= MaxRetries * SafetyMaxBounceMultiplier THEN "ack"
    ELSE IF deaths[m] >= MaxRetries THEN "deadletter"
    ELSE "nack"

\* invokeHandler and handleFailure: a panic is a permanent error.
HandleDelivery(c) ==
    /\ work[c].step = "handle"
    /\ LET m == work[c].msg
       IN \/ /\ processed' = processed \cup {m}
             /\ work' = [work EXCEPT ![c].step = "ack"]
          \/ /\ work' = [work EXCEPT ![c].step = ResolveFailure(m)]
             /\ UNCHANGED processed
          \/ /\ work' = [work EXCEPT ![c].step = IF binding.retry THEN "deadletter" ELSE "ack"]
             /\ UNCHANGED processed
    /\ UNCHANGED <<binding, invalid, queueOf, deaths, deadCopies, dlqFails, faults>>

DeadCopy(m) == deadCopies' = [deadCopies EXCEPT ![m] = IF @ < 2 THEN @ + 1 ELSE 2]

\* Fault model of routeToDeadExchange: the limit of consecutive failures is off by one.
CappedEarly(c) == dlqFails[c] + 1 >= MaxDLQConsecutiveFail

\* Fault model of routeToDeadExchange: failures in a row have no limit.
CappedNever(c) == FALSE

Capped(c) == dlqFails[c] + 1 > MaxDLQConsecutiveFail

\* routeToDeadExchange: a confirmed publish, or a failure (the copy may be there), which
\* is nacked until the failures in a row reach their limit.
RouteToDeadExchange(c) ==
    /\ work[c].step = "deadletter"
    /\ LET m == work[c].msg
       IN \/ /\ ~binding.broken /\ DeadCopy(m)
             /\ dlqFails' = [dlqFails EXCEPT ![c] = 0]
             /\ work' = [work EXCEPT ![c].step = "ack"] /\ UNCHANGED faults
          \/ /\ \/ binding.broken /\ UNCHANGED <<deadCopies, faults>>
                \/ ~binding.broken /\ Fault /\ (DeadCopy(m) \/ UNCHANGED deadCopies)
             /\ dlqFails' = [dlqFails EXCEPT ![c] = IF @ <= MaxDLQConsecutiveFail THEN @ + 1 ELSE @]
             /\ work' = [work EXCEPT ![c].step = IF Capped(c) THEN "ack" ELSE "nack"]
    /\ UNCHANGED <<binding, invalid, queueOf, deaths, processed>>

\* Ack and Nack reach the broker if the channel is still open; after that ConsumeOnce
\* goes on, or Consume opens a new channel.
Settle(c) ==
    /\ work[c].step \in {"ack", "nack"}
    /\ work' = [work EXCEPT ![c] = [step |-> "idle", open |-> TRUE]]
    /\ LET m == work[c].msg
       IN IF ~work[c].open THEN UNCHANGED <<queueOf, deaths>>
          ELSE IF work[c].step = "ack"
          THEN queueOf' = [queueOf EXCEPT ![m] = "gone"] /\ UNCHANGED deaths
          ELSE /\ queueOf' = [queueOf EXCEPT ![m] = "retry"]
               /\ deaths' = [deaths EXCEPT ![m] = IF @ < MaxDeaths THEN @ + 1 ELSE @]
    /\ UNCHANGED <<binding, invalid, deadCopies, processed, dlqFails, faults>>

\* The retry queue's TTL sends the message back to the queue.
RetryExpires(m) ==
    /\ queueOf[m] = "retry" /\ queueOf' = [queueOf EXCEPT ![m] = "queue"]
    /\ UNCHANGED <<binding, invalid, deaths, deadCopies, processed, work, dlqFails, faults>>

\* The channel or the process of a consumer is lost: its delivery is in the queue again,
\* while the handler may still run.
ChannelLost(c) ==
    /\ work[c].open /\ work[c].step # "idle" /\ Fault
    /\ queueOf' = [queueOf EXCEPT ![work[c].msg] = "queue"]
    /\ work' = [work EXCEPT ![c].open = FALSE]
    /\ UNCHANGED <<binding, invalid, deaths, deadCopies, processed, dlqFails>>

ConsumerStep(c) == HandleDelivery(c) \/ RouteToDeadExchange(c) \/ Settle(c)
BrokerStep(m) == RetryExpires(m) \/ \E c \in AmqpConsumers : Receive(c, m)

AmqpNext ==
    \/ \E c \in AmqpConsumers : ConsumerStep(c) \/ ChannelLost(c)
    \/ \E m \in AmqpMessages : BrokerStep(m)

\* Consumers run and the broker delivers and expires.
AmqpFairness ==
    /\ \A c \in AmqpConsumers : WF_amqpVars(ConsumerStep(c))
    /\ \A m \in AmqpMessages : WF_amqpVars(BrokerStep(m))

AmqpSpec == AmqpInit /\ [][AmqpNext]_amqpVars /\ AmqpFairness

--------------------------------------------------------------------------------
\* With a retry policy and a dead exchange that works, no valid message leaves the queue
\* unprocessed and uncopied, unless more publishes to the dead exchange failed than
\* WithMaxDLQConsecutiveFailures allows: lost channels, redeliveries to another consumer
\* and single failures never add up to a discard.
AmqpKeepsMessages ==
    binding.retry /\ ~binding.broken /\ faults <= MaxDLQConsecutiveFail =>
        \A m \in AmqpMessages \ invalid :
            queueOf[m] = "gone" => m \in processed \/ deadCopies[m] > 0

\* Every message eventually leaves the queue, whatever its handler returns, also when the dead
\* exchange is broken for good ("rather than thrashing forever").
AmqpSettled == \A m \in AmqpMessages : queueOf[m] = "gone"

-------------------------------------------------------------------------------
(***************************************************************************)
(* kafkabackend.Subscriber.Consume on one partition: group members that    *)
(* fetch, dispatch and commit, the reset of the reader after a transient   *)
(* handler error, and rebalances.  Kafka and its reader are external: the  *)
(* commit of a member that lost the partition fails.                       *)
(***************************************************************************)

CONSTANTS Members, LastOffset   \* bound: the messages have the offsets 1 .. LastOffset

ASSUME KafkaAssumption == LastOffset \in Nat \ {0}

VARIABLES
    assigned,    \* the member that has the partition
    committed,   \* the group's offset: everything up to it is done
    reader,      \* per member: the last offset fetched, and the step of dispatch
    finished,    \* offsets whose handler succeeded or that were skipped for good
    started      \* offsets whose handler has run

kafkaVars == <<assigned, committed, reader, finished, started, faults>>

Offsets == 1 .. LastOffset

KafkaTypeOK ==
    /\ assigned \in Members /\ committed \in 0 .. LastOffset
    /\ reader \in [Members -> [pos : 0 .. LastOffset, step : {"fetch", "handle", "commit", "reset"}]]
    /\ finished \subseteq Offsets /\ started \subseteq Offsets /\ faults \in 0 .. MaxFaults

KafkaInit ==
    /\ assigned \in Members /\ committed = 0
    /\ reader = [r \in Members |-> [pos |-> 0, step |-> "fetch"]]
    /\ finished = {} /\ started = {} /\ faults = 0

\* FetchMessage returns to the member that has the partition.
Fetch(r) ==
    /\ assigned = r /\ reader[r].step = "fetch" /\ reader[r].pos < LastOffset
    /\ reader' = [reader EXCEPT ![r] = [pos |-> @.pos + 1, step |-> "handle"]]
    /\ UNCHANGED <<assigned, committed, finished, started, faults>>

\* dispatch up to the commit: a message that is malformed, invalid, panics or fails for
\* good is committed like one that succeeded; a transient error asks for a reset.
Dispatch(r) ==
    /\ reader[r].step = "handle"
    /\ started' = started \cup {reader[r].pos}
    /\ \/ /\ reader' = [reader EXCEPT ![r].step = "commit"]
          /\ finished' = finished \cup {reader[r].pos} /\ UNCHANGED faults
       \/ /\ Fault /\ reader' = [reader EXCEPT ![r].step = "reset"] /\ UNCHANGED finished
    /\ UNCHANGED <<assigned, committed>>

\* commitWithOutcome: a failed commit is logged, and a later one covers it.
Commit(r) ==
    /\ reader[r].step = "commit"
    /\ reader' = [reader EXCEPT ![r].step = "fetch"]
    /\ \/ /\ assigned = r /\ committed' = reader[r].pos /\ UNCHANGED faults
       \/ assigned # r /\ UNCHANGED <<committed, faults>>
       \/ Fault /\ UNCHANGED committed
    /\ UNCHANGED <<assigned, finished, started>>

\* Fault model of Consume: after a transient error the same reader goes on.
NoReset(r) ==
    /\ reader[r].step = "reset"
    /\ reader' = [reader EXCEPT ![r].step = "fetch"]
    /\ UNCHANGED <<assigned, committed, finished, started, faults>>

\* Fault model of resetReader: the new reader starts at the end of the log.
ResetToEnd(r) ==
    /\ reader[r].step = "reset"
    /\ reader' = [reader EXCEPT ![r] = [pos |-> LastOffset, step |-> "fetch"]]
    /\ UNCHANGED <<assigned, committed, finished, started, faults>>

\* resetReader: the old reader is closed and a new one starts after the committed offset.
ResetReader(r) ==
    /\ reader[r].step = "reset"
    /\ reader' = [reader EXCEPT ![r] = [pos |-> committed, step |-> "fetch"]]
    /\ UNCHANGED <<assigned, committed, finished, started, faults>>

\* The group moves the partition; a member that is fetching starts at the committed
\* offset, one that is in a handler does so when it fetches next.
Rebalance(r) ==
    /\ assigned # r /\ Fault /\ assigned' = r
    /\ reader[r].step = "fetch"
    /\ reader' = [reader EXCEPT ![r].pos = committed]
    /\ UNCHANGED <<committed, finished, started>>

MemberStep(r) == Fetch(r) \/ Dispatch(r) \/ Commit(r) \/ ResetReader(r)

KafkaNext == \E r \in Members : MemberStep(r) \/ Rebalance(r)

KafkaFairness == \A r \in Members : WF_kafkaVars(MemberStep(r))

KafkaSpec == KafkaInit /\ [][KafkaNext]_kafkaVars /\ KafkaFairness

--------------------------------------------------------------------------------
\* A message that failed for now is neither passed by a commit nor overtaken: all the
\* messages up to the committed offset are done, and a handler starts on an offset only
\* when all the ones before are ("leaving offset uncommitted for redelivery").
KafkaKeepsOrder ==
    /\ \A k \in 1 .. committed : k \in finished
    /\ \A k \in started : \A j \in 1 .. k - 1 : j \in finished

\* The log is eventually worked off: transient errors and rebalances only delay it.
KafkaSettled == finished = Offsets

-------------------------------------------------------------------------------
(***************************************************************************)
(* natsbackend.Consumer over a JetStream durable: Consume, dispatch and    *)
(* the shutdown in which the callback drops what is still delivered.       *)
(* JetStream is external: it redelivers after AckWait or a nak, and stops  *)
(* after MaxDeliver deliveries.                                            *)
(***************************************************************************)

CONSTANTS NatsReplicas, NatsMessages, MaxDeliver

ASSUME NatsAssumption == MaxDeliver \in Nat \ {0}

VARIABLES
    place,          \* "stream", "pending" (delivered, not settled), "done" or "exhausted"
    numDelivered,   \* deliveries of each message
    attempts,       \* handler runs of each message that failed
    accepted,       \* messages whose handler returned nil
    refused,        \* messages whose handler returned a permanent error
    dispatching,    \* per replica: the message in its handler and what it will answer
    stopped         \* replicas whose Consume was cancelled

natsVars == <<place, numDelivered, attempts, accepted, refused, dispatching, stopped, faults>>

NoDispatch == [answer |-> "none"]

NatsTypeOK ==
    /\ place \in [NatsMessages -> {"stream", "pending", "done", "exhausted"}]
    /\ numDelivered \in [NatsMessages -> 0 .. MaxDeliver]
    /\ attempts \in [NatsMessages -> 0 .. MaxDeliver] /\ accepted \subseteq NatsMessages
    /\ refused \subseteq NatsMessages
    /\ \A r \in NatsReplicas : dispatching[r].answer \in {"none", "run", "ack", "nak", "term"}
    /\ stopped \subseteq NatsReplicas /\ faults \in 0 .. MaxFaults

NatsInit ==
    /\ place = [m \in NatsMessages |-> "stream"]
    /\ numDelivered = [m \in NatsMessages |-> 0] /\ attempts = [m \in NatsMessages |-> 0]
    /\ accepted = {} /\ refused = {} /\ dispatching = [r \in NatsReplicas |-> NoDispatch]
    /\ stopped = {} /\ faults = 0

\* Fault model of Consume: the callback may drop a delivery before it is stopped.
NatsDeliverDrops(r, m) ==
    /\ place[m] = "stream" /\ dispatching[r] = NoDispatch
    /\ place' = [place EXCEPT ![m] = "pending"]
    /\ numDelivered' = [numDelivered EXCEPT ![m] = @ + 1]
    /\ UNCHANGED <<attempts, accepted, refused, stopped, dispatching, faults>>

\* JetStream delivers to a replica; a stopped one returns at once and the delivery stays
\* unanswered until AckWait.
NatsDeliver(r, m) ==
    /\ place[m] = "stream" /\ dispatching[r] = NoDispatch
    /\ place' = [place EXCEPT ![m] = "pending"]
    /\ numDelivered' = [numDelivered EXCEPT ![m] = @ + 1]
    /\ IF r \in stopped
       THEN Fault /\ UNCHANGED dispatching
       ELSE dispatching' = [dispatching EXCEPT ![r] = [answer |-> "run", msg |-> m]] /\ UNCHANGED faults
    /\ UNCHANGED <<attempts, accepted, refused, stopped>>

\* Fault model of dispatch: a panic of the handler ends the callback for good.
NatsHandlePanics(r) ==
    /\ dispatching[r].answer = "run"
    /\ dispatching' = [dispatching EXCEPT ![r].answer = "none"]
    /\ UNCHANGED <<place, numDelivered, attempts, accepted, refused, stopped, faults>>

\* dispatch: the handler returns nil, an error, or a permanent error; malformed,
\* oversized and invalid messages and panics end like a permanent error.
NatsHandle(r) ==
    /\ dispatching[r].answer = "run"
    /\ LET m == dispatching[r].msg
       IN \/ /\ accepted' = accepted \cup {m} /\ UNCHANGED <<attempts, refused>>
             /\ dispatching' = [dispatching EXCEPT ![r].answer = "ack"]
          \/ /\ attempts' = [attempts EXCEPT ![m] = IF @ < MaxDeliver THEN @ + 1 ELSE @]
             /\ UNCHANGED accepted
             /\ \/ dispatching' = [dispatching EXCEPT ![r].answer = "nak"] /\ UNCHANGED refused
                \/ /\ dispatching' = [dispatching EXCEPT ![r].answer = "term"]
                   /\ refused' = refused \cup {m}
    /\ UNCHANGED <<place, numDelivered, stopped, faults>>

\* Fault model of dispatch's answers: the redelivery limit is not looked at.
RequeuedForever(m) == "stream"

\* Where an unanswered or nacked message goes.
Requeued(m) == IF numDelivered[m] < MaxDeliver THEN "stream" ELSE "exhausted"

\* Fault model of dispatch: a permanent error is nacked like any other.
AnswerNeverTerminates(r) ==
    /\ dispatching[r].answer \in {"ack", "nak", "term"}
    /\ dispatching' = [dispatching EXCEPT ![r] = NoDispatch]
    /\ LET m == dispatching[r].msg
       IN place' = [place EXCEPT ![m] = IF dispatching[r].answer = "ack" THEN "done" ELSE Requeued(m)]
    /\ UNCHANGED <<numDelivered, attempts, accepted, refused, stopped, faults>>

\* Ack, NakWithDelay or Term arrives, also when AckWait made the message available again,
\* or is lost.
NatsAnswer(r) ==
    /\ dispatching[r].answer \in {"ack", "nak", "term"}
    /\ dispatching' = [dispatching EXCEPT ![r] = NoDispatch]
    /\ LET m == dispatching[r].msg
       IN \/ /\ dispatching[r].answer \in {"ack", "term"}
             /\ place' = [place EXCEPT ![m] = IF @ = "exhausted" THEN @ ELSE "done"]
             /\ UNCHANGED faults
          \/ /\ dispatching[r].answer = "nak"
             /\ place' = [place EXCEPT ![m] = IF @ = "pending" THEN Requeued(m) ELSE @]
             /\ UNCHANGED faults
          \/ Fault /\ UNCHANGED place
    /\ UNCHANGED <<numDelivered, attempts, accepted, refused, stopped>>

\* AckWait passes without an answer.  While the handler still runs this is a fault: the
\* default AckWait is the handler's timeout.
AckWaitPasses(m) ==
    /\ place[m] = "pending"
    /\ IF \E r \in NatsReplicas : dispatching[r] # NoDispatch /\ dispatching[r].msg = m
       THEN Fault ELSE UNCHANGED faults
    /\ place' = [place EXCEPT ![m] = Requeued(m)]
    /\ UNCHANGED <<numDelivered, attempts, accepted, refused, dispatching, stopped>>

\* The context of Consume is cancelled: stopped is set first, the running handler
\* finishes.  One replica stays.
NatsStop(r) ==
    /\ r \notin stopped /\ stopped' = stopped \cup {r} /\ stopped' # NatsReplicas
    /\ UNCHANGED <<place, numDelivered, attempts, accepted, refused, dispatching, faults>>

DispatchStep(r) == NatsHandle(r) \/ NatsAnswer(r)
DeliverySome(m) == \E r \in NatsReplicas : NatsDeliver(r, m)

NatsNext ==
    \/ \E r \in NatsReplicas : DispatchStep(r) \/ NatsStop(r)
    \/ \E m \in NatsMessages : DeliverySome(m) \/ AckWaitPasses(m)

NatsFairness ==
    /\ \A r \in NatsReplicas : WF_natsVars(DispatchStep(r))
    /\ \A m \in NatsMessages : WF_natsVars(AckWaitPasses(m)) /\ WF_natsVars(DeliverySome(m))

NatsSpec == NatsInit /\ [][NatsNext]_natsVars /\ NatsFairness

--------------------------------------------------------------------------------
\* There is no dead-letter queue behind MaxDeliver: a message that JetStream gives up was
\* tried that often, except for the deliveries that a lost answer, a slow handler or a
\* stopping replica used up; and one that left the stream otherwise was handled or was
\* refused for good.
NatsAccountsForDeliveries ==
    \A m \in NatsMessages :
        /\ place[m] = "exhausted" /\ m \notin accepted => attempts[m] + faults >= MaxDeliver
        /\ place[m] = "done" => m \in accepted \/ attempts[m] > 0

\* A message that was accepted or refused for good is not handled again, unless an
\* answer was lost or came after AckWait.
NatsHandledOnce ==
    faults = 0 =>
        \A r \in NatsReplicas :
            dispatching[r].answer = "run" => dispatching[r].msg \notin accepted \cup refused

\* Every message is eventually settled.
NatsSettled == \A m \in NatsMessages : place[m] \in {"done", "exhausted"}

-------------------------------------------------------------------------------
(***************************************************************************)
(* outbox/postgres.Inbox: Process claims a receipt, runs the handler and   *)
(* commits in one transaction, under a broker that delivers at least once  *)
(* to several workers.  PostgreSQL is external: an insert waits for a      *)
(* transaction that has inserted the same key.                             *)
(***************************************************************************)

CONSTANTS Workers, Deliverables

VARIABLES
    receipt,     \* committed rows of inbox_entries
    queued,      \* messages the broker still delivers
    tx,          \* per worker: the step of Process and its message
    effects,     \* how often the handler's writes were committed, counted up to 2
    pruned       \* messages whose receipt PruneBefore deleted

inboxVars == <<receipt, queued, tx, effects, pruned, faults>>

Idle == [step |-> "idle"]

InboxTypeOK ==
    /\ receipt \subseteq Deliverables /\ queued \subseteq Deliverables /\ pruned \subseteq Deliverables
    /\ \A w \in Workers : tx[w] = Idle \/ tx[w].msg \in Deliverables
    /\ \A w \in Workers : tx[w].step \in {"idle", "begin", "claimed", "commit", "ack"}
    /\ effects \in [Deliverables -> 0 .. 2] /\ faults \in 0 .. MaxFaults

InboxInit ==
    /\ receipt = {} /\ queued = Deliverables /\ pruned = {}
    /\ tx = [w \in Workers |-> Idle] /\ effects = [m \in Deliverables |-> 0] /\ faults = 0

To(w, step) == tx' = [tx EXCEPT ![w].step = step]
Abandon(w) == tx' = [tx EXCEPT ![w] = Idle]
HoldsKey(m) == \E w \in Workers : tx[w].step \in {"claimed", "commit"} /\ tx[w].msg = m

\* The broker delivers, also what another worker has not acknowledged yet.
Begin(w, m) ==
    /\ tx[w] = Idle /\ m \in queued
    /\ IF \E v \in Workers : tx[v] # Idle /\ tx[v].msg = m THEN Fault ELSE UNCHANGED faults
    /\ tx' = [tx EXCEPT ![w] = [step |-> "begin", msg |-> m]]
    /\ UNCHANGED <<receipt, queued, effects, pruned>>

\* Fault model of processInTx: the receipt is looked up instead of inserted.
ClaimByLookup(w) ==
    /\ tx[w].step = "begin"
    /\ To(w, IF tx[w].msg \in receipt THEN "ack" ELSE "claimed")
    /\ UNCHANGED <<receipt, queued, effects, pruned, faults>>

\* Fault model of processInTx: a duplicate is an error.
ClaimRejectsDuplicate(w) ==
    /\ tx[w].step = "begin" /\ ~HoldsKey(tx[w].msg)
    /\ IF tx[w].msg \in receipt THEN Abandon(w) ELSE To(w, "claimed")
    /\ UNCHANGED <<receipt, queued, effects, pruned, faults>>

\* INSERT ... ON CONFLICT DO NOTHING; no row means a duplicate, which is acknowledged.
Claim(w) ==
    /\ tx[w].step = "begin" /\ ~HoldsKey(tx[w].msg)
    /\ To(w, IF tx[w].msg \in receipt THEN "ack" ELSE "claimed")
    /\ UNCHANGED <<receipt, queued, effects, pruned, faults>>

\* The handler writes inside the transaction, or fails and everything is rolled back.
RunHandler(w) ==
    /\ tx[w].step = "claimed"
    /\ \/ To(w, "commit") /\ UNCHANGED faults
       \/ Abandon(w) /\ Fault
    /\ UNCHANGED <<receipt, queued, effects, pruned>>

\* Receipt and writes become visible together; an error may hide a commit.
CommitTx(w) ==
    /\ tx[w].step = "commit"
    /\ LET m == tx[w].msg
       IN \/ /\ receipt' = receipt \cup {m}
             /\ effects' = [effects EXCEPT ![m] = IF @ < 2 THEN @ + 1 ELSE 2]
             /\ \/ To(w, "ack") /\ UNCHANGED faults
                \/ Abandon(w) /\ Fault
          \/ Abandon(w) /\ Fault /\ UNCHANGED <<receipt, effects>>
    /\ UNCHANGED <<queued, pruned>>

\* The acknowledgement reaches the broker or is lost.
AckDelivery(w) ==
    /\ tx[w].step = "ack" /\ Abandon(w)
    /\ \/ queued' = queued \ {tx[w].msg} /\ UNCHANGED faults
       \/ Fault /\ UNCHANGED queued
    /\ UNCHANGED <<receipt, effects, pruned>>

WorkerCrash(w) ==
    /\ tx[w] # Idle /\ Fault /\ Abandon(w)
    /\ UNCHANGED <<receipt, queued, effects, pruned>>

\* PruneBefore with a cut-off after the receipt.
PruneBefore(m) ==
    /\ m \in receipt /\ Fault
    /\ receipt' = receipt \ {m} /\ pruned' = pruned \cup {m}
    /\ UNCHANGED <<queued, tx, effects>>

ProcessStep(w) == Claim(w) \/ RunHandler(w) \/ CommitTx(w) \/ AckDelivery(w)
BeginSome(m) == \E w \in Workers : Begin(w, m)

InboxNext ==
    \/ \E w \in Workers : ProcessStep(w) \/ WorkerCrash(w)
    \/ \E m \in Deliverables : BeginSome(m) \/ PruneBefore(m)

InboxFairness ==
    /\ \A w \in Workers : WF_inboxVars(ProcessStep(w))
    /\ \A m \in Deliverables : WF_inboxVars(BeginSome(m))

InboxSpec == InboxInit /\ [][InboxNext]_inboxVars /\ InboxFairness

--------------------------------------------------------------------------------
\* The handler's writes are committed once however often the broker delivers and
\* whatever is lost on the way, as long as the receipt is kept; and a message is off
\* the queue only when they are.
ProcessedOnce ==
    \A m \in Deliverables :
        /\ m \notin pruned => effects[m] <= 1
        /\ m \notin queued => effects[m] > 0

\* Every message is eventually processed and leaves the queue.
InboxSettled == queued = {}
================================================================================
