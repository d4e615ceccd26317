----------------------------- MODULE MCMessaging -----------------------------
(***************************************************************************)
(* The messaging components in one model.  They have no state in common:   *)
(* a behaviour picks its subject and leaves the others in an initial state.*)
(***************************************************************************)
EXTENDS MessageFlow, AmqpConnection, Consumers, RedisStream

\* Bounds: the faults of a behaviour about the AMQP or stream consumers, the broker.
CONSTANTS AmqpFaults, StreamFaults, BrokerFaults

\* The relays of the outbox, their claim tokens, and no token.
CONSTANTS Relays, ClaimTokens, NoToken

VARIABLES
    subject,
    outboxRow, remembered, relayPhase, relayCancelled, pollCount, relayJob, seenAttempts,
    claimedRows, sinceBeat, deliveries, publishErrors, relayFaults

pub == <<pending, directInFlight, journalReady, file, call, batch, sent, draining, healthy,
         copies, before>>
link == <<conn, open, watcher, reconnecting, reconnectSignal, loop, dead, stop>>
amqp == <<binding, invalid, queueOf, deaths, deadCopies, processed, work, dlqFails>>
kafka == <<assigned, committed, reader, finished, started>>
nats == <<place, numDelivered, attempts, accepted, refused, dispatching, stopped>>
inbox == <<receipt, queued, tx, effects, pruned>>
outbox == <<outboxRow, remembered, relayPhase, relayCancelled, pollCount, relayJob, seenAttempts,
            claimedRows, sinceBeat, deliveries, publishErrors, relayFaults>>
stream == <<entry, thread, session, local, handled, deadLettered>>
vars == <<subject, pub, link, amqp, kafka, nats, inbox, stream, groupState, brokerState, topicState,
          outbox, faults>>

\* One entry, with timely heartbeats.
Relayed == INSTANCE OutboxRelay WITH
    Entries <- {1}, Tokens <- ClaimTokens, Routes <- [r \in Relays |-> {1}], BatchSize <- 1,
    StaleTicks <- 1, MaxAttempts <- 2, MaxConcurrentPublish <- 1, StaleRecoveryMultiplier <- 2,
    HeartbeatTicks <- 1, Timely <- TRUE, FaultKinds <- {"crash", "stop", "db"}, MaxFaults <- 1,
    DeliveryCap <- 1,
    row <- outboxRow, phase <- relayPhase, cancelled <- relayCancelled, job <- relayJob,
    seen <- seenAttempts, claimed <- claimedRows, errors <- publishErrors, faults <- relayFaults

Init ==
    /\ subject \in {"publisher", "link", "amqp", "kafka", "nats", "inbox", "stream", "group",
                    "broker", "topic", "outbox"}
    /\ PubInit /\ (subject # "publisher" => healthy)
    /\ ConnInit /\ (subject # "link" => conn # 0)
    /\ AmqpInit
    /\ subject # "amqp" => binding = [retry |-> TRUE, broken |-> FALSE] /\ invalid = {}
    /\ KafkaInit /\ (subject # "kafka" => assigned = CHOOSE r \in Members : TRUE)
    /\ NatsInit /\ InboxInit /\ StreamInit /\ GroupInit /\ BrokerInit /\ Relayed!Init
    /\ TopicInit /\ (subject # "topic" => topic.pattern = <<"#">> /\ topic.key = <<>>)

\* Only the subject moves.
Only(chosen) ==
    /\ chosen # "publisher" => UNCHANGED pub
    /\ chosen # "link" => UNCHANGED link
    /\ chosen # "amqp" => UNCHANGED amqp
    /\ chosen # "kafka" => UNCHANGED kafka
    /\ chosen # "nats" => UNCHANGED nats
    /\ chosen # "inbox" => UNCHANGED inbox
    /\ chosen # "stream" => UNCHANGED stream
    /\ chosen # "group" => UNCHANGED groupState
    /\ chosen # "broker" => UNCHANGED brokerState
    /\ chosen # "topic" => UNCHANGED topicState
    /\ chosen # "outbox" => UNCHANGED outbox

Next ==
    /\ UNCHANGED subject /\ Only(subject)
    /\ \/ subject = "publisher" /\ PubNext
       \/ subject = "link" /\ ConnNext
       \/ subject = "amqp" /\ AmqpNext /\ faults' <= AmqpFaults
       \/ subject = "kafka" /\ KafkaNext
       \/ subject = "nats" /\ NatsNext
       \/ subject = "inbox" /\ InboxNext
       \/ subject = "stream" /\ StreamNext /\ faults' <= StreamFaults
       \/ subject = "group" /\ GroupNext
       \/ subject = "broker" /\ BrokerNext /\ faults' <= BrokerFaults
       \/ subject = "topic" /\ TopicNext /\ UNCHANGED faults
       \/ subject = "outbox" /\ Relayed!Next /\ UNCHANGED faults

\* The goroutines of a relay: the polling loop, which ends with the process and is
\* started again, and the publish of the entry, whose context has a deadline.
RelayLoop(r) ==
    \/ Relayed!Start(r) \/ Relayed!BeginPoll(r) \/ Relayed!RecoverStale(r)
    \/ Relayed!Fetch(r) \/ Relayed!FetchError(r) \/ Relayed!PollEnd(r) \/ Relayed!Shutdown(r)

RelayPublish(r) ==
    Relayed!PublishStart(r, 1) \/ Relayed!PublishReturn(r, 1) \/ Relayed!Outcome(r, 1)

\* The fairness of each component's specification, for the one that moves.
Fairness ==
    /\ WF_pubVars(subject = "publisher" /\ DrainStep) /\ WF_pubVars(subject = "publisher" /\ BrokerUp)
    /\ \A m \in Messages : WF_pubVars(subject = "publisher" /\ DirectStep(m))
    /\ \A s \in Slots : WF_connVars(subject = "link" /\ WatcherStep(s))
    /\ \A g \in Loops : WF_connVars(subject = "link" /\ LoopStep(g))
    /\ WF_connVars(subject = "link" /\ StopClose)
    /\ \A c \in AmqpConsumers : WF_amqpVars(subject = "amqp" /\ ConsumerStep(c))
    /\ \A m \in AmqpMessages : WF_amqpVars(subject = "amqp" /\ BrokerStep(m))
    /\ \A r \in Members : WF_kafkaVars(subject = "kafka" /\ MemberStep(r))
    /\ \A r \in NatsReplicas : WF_natsVars(subject = "nats" /\ DispatchStep(r))
    /\ \A m \in NatsMessages : /\ WF_natsVars(subject = "nats" /\ AckWaitPasses(m))
                               /\ WF_natsVars(subject = "nats" /\ DeliverySome(m))
    /\ \A w \in Workers : WF_inboxVars(subject = "inbox" /\ ProcessStep(w))
    /\ \A m \in Deliverables : WF_inboxVars(subject = "inbox" /\ BeginSome(m))
    /\ \A t \in Threads : WF_streamVars(subject = "stream" /\ HandleStep(t))
    /\ \A c \in StreamConsumers : /\ WF_streamVars(subject = "stream" /\ SessionStep(c))
                                  /\ WF_streamVars(subject = "stream" /\ ReadNew(c))
                                  /\ WF_streamVars(subject = "stream" /\ ClaimStaleMessages(c))
    /\ WF_streamVars(subject = "stream" /\ Tick)
    /\ WF_groupVars(subject = "group" /\ GroupStep)
    /\ \A s \in Subs : WF_groupVars(subject = "group" /\ SubStops(s))
    /\ \A c \in Stoppers : WF_groupVars(subject = "group" /\ StopStep(c))
    /\ \A r \in Relays : /\ WF_outbox(subject = "outbox" /\ RelayLoop(r))
                         /\ WF_outbox(subject = "outbox" /\ Relayed!Beat(r))
                         /\ WF_outbox(subject = "outbox" /\ RelayPublish(r))
    /\ WF_outbox(subject = "outbox" /\ Relayed!Backoff(1))
    /\ WF_outbox(subject = "outbox" /\ Relayed!Tick)

Spec == Init /\ [][Next]_vars /\ Fairness

\* Every component's variables keep their types.
MessagingTypeOK ==
    CASE subject = "publisher" -> PubTypeOK
      [] subject = "link" -> ConnTypeOK
      [] subject = "amqp" -> AmqpTypeOK
      [] subject = "kafka" -> KafkaTypeOK
      [] subject = "nats" -> NatsTypeOK
      [] subject = "inbox" -> InboxTypeOK
      [] subject = "stream" -> StreamTypeOK
      [] subject = "group" -> GroupTypeOK
      [] subject = "broker" -> BrokerTypeOK
      [] subject = "topic" -> TopicTypeOK
      [] subject = "outbox" -> Relayed!TypeOK

\* No message is lost: what was acknowledged to a publisher is with the broker or in a state
\* file that loads, and what left a queue, a stream or a list was handled, was refused for
\* good or has a copy, whatever crashes, lost answers and failed saves fall in between.
NoMessageIsLost ==
    /\ AckedIsDurable /\ StateFileLoads /\ AmqpKeepsMessages /\ NatsAccountsForDeliveries
    /\ StreamKeepsEntries /\ LeavesWhenHeard

\* Messages arrive in the order in which they were published, past failures, resets,
\* restarts and concurrent drains, at the subscriptions whose pattern matches, and at none
\* that a Stop has ended.
DeliveredAsPublished ==
    PublishOrder /\ KafkaKeepsOrder /\ HeardInOrder /\ TopicsMatch /\ StopJoinsSubs

\* A message takes effect once, except where an answer was lost or came too late: the
\* buffer sends it once, no claim takes it from its handler, the receipt stands.
HandledOnce == BufferExact /\ NatsHandledOnce /\ ProcessedOnce /\ FirstOfBatchIsNotClaimed

Settled ==
    CASE subject = "publisher" -> PubSettled
      [] subject = "link" -> ConnSettled
      [] subject = "amqp" -> AmqpSettled
      [] subject = "kafka" -> KafkaSettled
      [] subject = "nats" -> NatsSettled
      [] subject = "inbox" -> InboxSettled
      [] subject = "stream" -> StreamSettled
      [] subject = "group" -> GroupSettled
      [] subject \in {"broker", "topic"} -> TRUE
      [] subject = "outbox" -> outboxRow[1].status \notin {"pending", "processing"}

\* Whatever is the subject comes to rest: accepted messages reach the broker, a dropped
\* connection is replaced, every delivery, log, inbox and stream is worked off, a stopped
\* group of consumers is joined, an outbox entry is published or given up on, although
\* messages fail, answers are lost and processes die on the way.
MessagingSettles == []<>Settled
================================================================================
