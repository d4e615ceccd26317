----------------------------- MODULE MessageFlow -----------------------------
(***************************************************************************)
(* infra/messaging on both sides of a broker: the buffered publisher, the  *)
(* group that runs a service's subscriptions, and the in-memory broker     *)
(* with its topic patterns.                                                *)
(***************************************************************************)
EXTENDS Faults, Sequences, SequencesExt, FiniteSets, Integers

-------------------------------------------------------------------------------
(***************************************************************************)
(* infra/messaging.BufferedPublisher with a state file, in its default     *)
(* strict mode: concurrent Publish calls that go to the broker directly or *)
(* into the buffer, the drain loop, the journal on disk, and a process     *)
(* that crashes and loads the journal again.                               *)
(*                                                                         *)
(* Each message is the argument of one Publish call.  The mutex makes the  *)
(* code between two calls of the broker one step.  Run's shutdown is one   *)
(* more drain and the end of the process, which Crash covers at that point.*)
(***************************************************************************)

CONSTANTS Messages, MaxSize,
          DrainBatchLimit,     \* bufferedDrainBatchLimit
          CompactMinEntries,   \* bufferedJournalCompactMinEntries
          Torn                 \* a journal line that was written in part

ASSUME PublisherAssumption ==
    /\ Torn \notin Messages
    /\ {MaxSize, DrainBatchLimit, CompactMinEntries} \subseteq Nat \ {0}

VARIABLES
    pending, directInFlight,
    journalReady,   \* the file may be appended to
    file,           \* the snapshot line and the lines appended to it
    call,           \* where each Publish call is
    batch,          \* what the drain loop took, published in order
    sent,           \* how many of them the broker took
    draining,       \* "idle", "publishing" or "stopped" (it broke out of the batch)
    healthy,        \* the broker is reachable
    copies,         \* deliveries of each message, counted up to 2
    before          \* the calls that had returned nil when each call began

pubVars == <<pending, directInFlight, journalReady, file, call, batch, sent, draining,
             healthy, copies, before, faults>>
bufferVars == <<pending, journalReady, file>>
drainVars == <<batch, sent, draining>>

Acked == {m \in Messages : call[m] = "acked"}
Delivered == {m \in Messages : copies[m] > 0}

PubTypeOK ==
    /\ pending \in Seq(Messages) /\ batch \in Seq(Messages)
    /\ directInFlight \in BOOLEAN /\ journalReady \in BOOLEAN /\ healthy \in BOOLEAN
    /\ file.base \in Seq(Messages) /\ file.tail \in Seq(Messages \cup {Torn})
    /\ call \in [Messages -> {"new", "direct", "ok", "failed", "acked", "refused"}]
    /\ sent \in 0 .. Len(batch) /\ draining \in {"idle", "publishing", "stopped"}
    /\ copies \in [Messages -> 0 .. 2] /\ before \in [Messages -> SUBSET Messages]
    /\ faults \in 0 .. MaxFaults

PubInit ==
    /\ pending = <<>> /\ directInFlight = FALSE /\ journalReady = FALSE
    /\ file = [base |-> <<>>, tail |-> <<>>]
    /\ call = [m \in Messages |-> "new"]
    /\ batch = <<>> /\ sent = 0 /\ draining = "idle"
    /\ healthy \in BOOLEAN
    /\ copies = [m \in Messages |-> 0] /\ before = [m \in Messages |-> {}]
    /\ faults = 0

--------------------------------------------------------------------------------
(* The state file. *)

\* loadJournal: the snapshot and the appended entries; a torn last line is dropped.
Replay == file.base \o SelectSeq(file.tail, LAMBDA m : m # Torn)

\* A torn line that is not the last one is fatal.
Loadable == \A k \in 1 .. Len(file.tail) - 1 : file.tail[k] # Torn

\* saveLocked: written to a temporary file that replaces the old one, or not at all.
Save(p) ==
    /\ pending' = p
    /\ file' = [base |-> p, tail |-> <<>>] /\ journalReady' = TRUE

SaveError == journalReady' = FALSE /\ UNCHANGED file

\* Fault model of persistAppendLocked: the journal stays open after a failed append.
AppendErrorStaysReady(m) ==
    /\ journalReady' = TRUE
    /\ file' \in {file, [file EXCEPT !.tail = Append(@, Torn)]}

\* A failed append wrote nothing, a part of the line, or all of it before the fsync
\* failed.
AppendError(m) ==
    /\ journalReady' = FALSE
    /\ \E line \in {<<>>, <<Torn>>, <<m>>} : file' = [file EXCEPT !.tail = @ \o line]

CompactionDue ==
    /\ Len(file.tail) >= CompactMinEntries
    /\ Len(file.tail) >= Len(file.base)

\* addPendingLocked and persistAppendLocked; an error rolls the message back.
Buffer(m) ==
    IF ~journalReady \/ CompactionDue
    THEN \/ /\ Save(Append(pending, m))
            /\ call' = [call EXCEPT ![m] = "acked"] /\ UNCHANGED faults
         \/ /\ Fault /\ SaveError /\ UNCHANGED pending
            /\ call' = [call EXCEPT ![m] = "refused"]
    ELSE \/ /\ pending' = Append(pending, m)
            /\ file' = [file EXCEPT !.tail = Append(@, m)]
            /\ call' = [call EXCEPT ![m] = "acked"] /\ UNCHANGED <<journalReady, faults>>
         \/ /\ Fault /\ AppendError(m) /\ UNCHANGED pending
            /\ call' = [call EXCEPT ![m] = "refused"]

\* ErrBufferFull.
Drop(m) == call' = [call EXCEPT ![m] = "refused"] /\ UNCHANGED <<bufferVars, faults>>

--------------------------------------------------------------------------------
(* Publish. *)

\* Fault model of Publish: the buffer is not looked at before a direct publish.
GoesDirectIfHealthy == ~directInFlight /\ healthy

GoesDirect == pending = <<>> /\ ~directInFlight /\ healthy

\* A slot is kept for a direct publish that may fail.
EffectiveMax == IF directInFlight /\ MaxSize > 1 THEN MaxSize - 1 ELSE MaxSize

\* Publish up to its first unlock: the direct path, the buffer, or ErrBufferFull.
Publish(m) ==
    /\ call[m] = "new"
    /\ before' = [before EXCEPT ![m] = Acked]
    /\ IF GoesDirect
       THEN /\ directInFlight' = TRUE
            /\ call' = [call EXCEPT ![m] = "direct"]
            /\ UNCHANGED <<bufferVars, faults>>
       ELSE /\ IF Len(pending) >= EffectiveMax THEN Drop(m) ELSE Buffer(m)
            /\ UNCHANGED directInFlight
    /\ UNCHANGED <<drainVars, healthy, copies>>

\* The broker has m.
Deliver(m) == copies' = [copies EXCEPT ![m] = IF @ < 2 THEN @ + 1 ELSE 2]

\* publishFn of the direct path returns: nil, or an error whether or not the
\* broker took the message.
DirectReturn(m) ==
    /\ call[m] = "direct"
    /\ \/ healthy /\ Deliver(m) /\ call' = [call EXCEPT ![m] = "ok"] /\ UNCHANGED faults
       \/ /\ Fault /\ (Deliver(m) \/ UNCHANGED copies)
          /\ call' = [call EXCEPT ![m] = "failed"]
       \/ ~healthy /\ call' = [call EXCEPT ![m] = "failed"] /\ UNCHANGED <<copies, faults>>
    /\ UNCHANGED <<bufferVars, directInFlight, drainVars, healthy, before>>

\* The rest of the direct path under the lock: done, given up with the caller's
\* context or with a panic, or buffered after all.
DirectDone(m) ==
    /\ directInFlight' = FALSE
    /\ \/ /\ call[m] = "ok"
          /\ call' = [call EXCEPT ![m] = "acked"] /\ UNCHANGED <<bufferVars, faults>>
       \/ /\ call[m] = "failed"
          /\ call' = [call EXCEPT ![m] = "refused"] /\ Fault /\ UNCHANGED bufferVars
       \/ /\ call[m] = "failed"
          /\ IF Len(pending) >= MaxSize THEN Drop(m) ELSE Buffer(m)
    /\ UNCHANGED <<drainVars, healthy, copies, before>>

--------------------------------------------------------------------------------
(* The drain loop. *)

\* drainBatch up to its unlock; it is skipped while a direct publish is on.
DrainTake ==
    /\ draining = "idle" /\ healthy /\ pending # <<>> /\ ~directInFlight
    /\ directInFlight' = TRUE
    /\ batch' = SubSeq(pending, 1, IF Len(pending) < DrainBatchLimit THEN Len(pending)
                                   ELSE DrainBatchLimit)
    /\ sent' = 0 /\ draining' = "publishing"
    /\ UNCHANGED <<bufferVars, call, healthy, copies, before, faults>>

\* One message of the batch: published, or a reason to stop: an unhealthy broker,
\* an error (the broker may have the message), a cancelled context.
DrainPublish ==
    /\ draining = "publishing" /\ sent < Len(batch)
    /\ \/ /\ healthy /\ Deliver(batch[sent + 1])
          /\ sent' = sent + 1 /\ UNCHANGED <<draining, faults>>
       \/ ~healthy /\ draining' = "stopped" /\ UNCHANGED <<sent, copies, faults>>
       \/ /\ Fault /\ (Deliver(batch[sent + 1]) \/ UNCHANGED copies)
          /\ draining' = "stopped" /\ UNCHANGED sent
    /\ UNCHANGED <<bufferVars, directInFlight, call, batch, healthy, before>>

\* Fault model of drainBatch: the whole batch is removed after a failed publish.
DrainedAll == SubSeq(pending, Len(batch) + 1, Len(pending))

\* Fault model of drainBatch: the last published message stays.
DrainedButOne == SubSeq(pending, sent, Len(pending))

Drained == SubSeq(pending, sent + 1, Len(pending))

\* Fault model of drainBatch: a batch without a published message returns early and keeps
\* the slot.
DrainKeepsSlot ==
    /\ \/ draining = "stopped"
       \/ draining = "publishing" /\ sent = Len(batch)
    /\ directInFlight' = (sent = 0) /\ draining' = "idle" /\ batch' = <<>> /\ sent' = 0
    /\ \/ sent = 0 /\ UNCHANGED bufferVars
       \/ sent > 0 /\ Save(Drained)
    /\ UNCHANGED <<call, healthy, copies, before, faults>>

\* The end of drainBatch under the lock: the published messages go, and the file is
\* rewritten.  After a failed save the file still has them.
DrainCommit ==
    /\ \/ draining = "stopped"
       \/ draining = "publishing" /\ sent = Len(batch)
    /\ directInFlight' = FALSE /\ draining' = "idle" /\ batch' = <<>> /\ sent' = 0
    /\ \/ sent = 0 /\ UNCHANGED <<bufferVars, faults>>
       \/ sent > 0 /\ Save(Drained) /\ UNCHANGED faults
       \/ sent > 0 /\ Fault /\ SaveError /\ pending' = Drained
    /\ UNCHANGED <<call, healthy, copies, before>>

--------------------------------------------------------------------------------
(* The environment. *)

\* The process dies and a new one loads the file.
PubCrash ==
    /\ Fault /\ Loadable
    /\ pending' = Replay /\ journalReady' = FALSE /\ directInFlight' = FALSE
    /\ batch' = <<>> /\ sent' = 0 /\ draining' = "idle"
    /\ call' = [m \in Messages |-> IF call[m] \in {"direct", "ok", "failed"} THEN "refused"
                                   ELSE call[m]]
    /\ UNCHANGED <<file, healthy, copies, before>>

BrokerDown ==
    /\ healthy /\ Fault /\ healthy' = FALSE
    /\ UNCHANGED <<bufferVars, directInFlight, call, drainVars, copies, before>>

BrokerUp ==
    /\ ~healthy /\ healthy' = TRUE
    /\ UNCHANGED <<bufferVars, directInFlight, call, drainVars, copies, before, faults>>

DrainStep == DrainTake \/ DrainPublish \/ DrainCommit
DirectStep(m) == DirectReturn(m) \/ DirectDone(m)

PubNext ==
    \/ \E m \in Messages : Publish(m) \/ DirectStep(m)
    \/ DrainStep
    \/ PubCrash \/ BrokerDown \/ BrokerUp

\* The drain loop ticks, calls of the broker return, and it comes back.
PubFairness ==
    /\ WF_pubVars(DrainStep) /\ WF_pubVars(BrokerUp)
    /\ \A m \in Messages : WF_pubVars(DirectStep(m))

PubSpec == PubInit /\ [][PubNext]_pubVars /\ PubFairness

--------------------------------------------------------------------------------
\* "A successful return means the message was either published or accepted into the
\* buffer", and the buffer survives: a message whose Publish returned nil is with
\* the broker or would be replayed if the process died now, whichever saves and
\* appends failed before.
AckedIsDurable == Acked \ Delivered \subseteq ToSet(Replay)

\* The file a crash leaves can be loaded: no torn line is ever followed by another
\* (persistAppendLocked rewrites the snapshot after a failed append).
StateFileLoads == Loadable

\* "FIFO ordering guarantees": no message overtakes one whose Publish had returned
\* before its own call began, over direct publishes, drains, failures and restarts.
PublishOrder == \A m \in Delivered : before[m] \cap Acked \subseteq Delivered

\* Without a fault the broker sees each message once, and the buffer keeps its bound
\* in any case: the slot reserved for the direct publish is not overbooked.
BufferExact == Len(pending) <= MaxSize /\ (faults = 0 => \A m \in Messages : copies[m] <= 1)

\* What was accepted has been delivered; it eventually is, once the broker is back.
PubSettled == Acked \subseteq Delivered

-------------------------------------------------------------------------------
(***************************************************************************)
(* infra/messaging: a SubscriptionGroup runs its subscriptions as one      *)
(* component.  Start publishes the cancel function after it has set the    *)
(* started flag; a Stop that falls between the two waits for it, and takes *)
(* it so that it is called once.  A subscription that fails cancels the    *)
(* others.                                                                 *)
(***************************************************************************)

CONSTANTS Subs,        \* the subscriptions added before Start
          Stoppers     \* callers of Stop

VARIABLES
    group,       \* Start's goroutine: its place
    cancelFn,    \* the published cancel function: "none", "published", "taken"
    groupCtx,    \* runCtx: "none", "live", "cancelled"
    sub,         \* per subscription: "idle", "running", "failed", "stopped"
    stopper,     \* per caller of Stop: its place
    parent       \* the context Start was called with: "live", "cancelled"

groupState == <<group, cancelFn, groupCtx, sub, stopper, parent>>
groupVars == <<groupState, faults>>

GroupInit ==
    /\ group = "new" /\ cancelFn = "none" /\ groupCtx = "none" /\ parent = "live"
    /\ sub = [s \in Subs |-> "idle"] /\ stopper = [c \in Stoppers |-> "none"] /\ faults = 0

CtxOver == groupCtx = "cancelled" \/ parent = "cancelled"
Running == {s \in Subs : sub[s] = "running"}

\* Start: the flag, the published cancel function, then the subscriptions.
StartGroup ==
    /\ group = "new" /\ group' = "started"
    /\ UNCHANGED <<cancelFn, groupCtx, sub, stopper, parent, faults>>

PublishCancel ==
    /\ group = "started" /\ group' = "publishing"
    /\ cancelFn' = "published" /\ groupCtx' = "live"
    /\ UNCHANGED <<sub, stopper, parent, faults>>

StartSubs ==
    /\ group = "publishing" /\ group' = "waiting"
    /\ sub' = [s \in Subs |-> "running"]
    /\ UNCHANGED <<cancelFn, groupCtx, stopper, parent, faults>>

\* Fault model of FailSub: the others are left running.
FailSubAlone(s) == sub' = [sub EXCEPT ![s] = "failed"] /\ UNCHANGED groupCtx

FailSub(s) == sub' = [sub EXCEPT ![s] = "failed"] /\ groupCtx' = "cancelled"

\* Consume of one subscription returns: with an error, which cancels the
\* group, or because its context is over.
SubFails(s) ==
    /\ sub[s] = "running" /\ Fault /\ FailSub(s)
    /\ UNCHANGED <<group, cancelFn, stopper, parent>>

SubStops(s) ==
    /\ sub[s] = "running" /\ CtxOver /\ sub' = [sub EXCEPT ![s] = "stopped"]
    /\ UNCHANGED <<group, cancelFn, groupCtx, stopper, parent, faults>>

\* Fault model of SubsDrained: Start returns at the first subscription that ends.
DrainedOne == \E s \in Subs : sub[s] # "running"

SubsDrained == Running = {}

\* wg.Wait, then the deferred cancel and close of done.  An empty group waits
\* for its context.
EndGroup ==
    /\ group = "waiting" /\ SubsDrained /\ (Subs = {} => CtxOver)
    /\ group' = "done" /\ groupCtx' = "cancelled"
    /\ UNCHANGED <<cancelFn, sub, stopper, parent, faults>>

CancelParent ==
    /\ parent = "live" /\ Fault /\ parent' = "cancelled"
    /\ UNCHANGED <<group, cancelFn, groupCtx, sub, stopper>>

\* Stop before Start has nothing to stop.
CallStop(c) ==
    /\ stopper[c] = "none"
    /\ stopper' = [stopper EXCEPT ![c] = IF group = "new" THEN "returned early" ELSE "awaiting"]
    /\ UNCHANGED <<group, cancelFn, groupCtx, sub, parent, faults>>

\* Fault model of AwaitCancel: one look for the cancel function.
LookOnce(c) ==
    /\ stopper[c] = "awaiting" /\ stopper' = [stopper EXCEPT ![c] = "waiting"]
    /\ cancelFn' = (IF cancelFn = "published" THEN "taken" ELSE cancelFn)
    /\ groupCtx' = (IF cancelFn = "published" THEN "cancelled" ELSE groupCtx)

\* awaitCancel takes the cancel function as soon as it is there; it gives up
\* when Start has returned.
AwaitCancel(c) ==
    /\ stopper[c] = "awaiting" /\ stopper' = [stopper EXCEPT ![c] = "waiting"]
    /\ \/ cancelFn = "published" /\ cancelFn' = "taken" /\ groupCtx' = "cancelled"
       \/ cancelFn # "published" /\ group = "done" /\ UNCHANGED <<cancelFn, groupCtx>>

TakeCancel(c) == AwaitCancel(c) /\ UNCHANGED <<group, sub, parent, faults>>

StopReturns(c) ==
    /\ stopper[c] = "waiting" /\ group = "done"
    /\ stopper' = [stopper EXCEPT ![c] = "returned"]
    /\ UNCHANGED <<group, cancelFn, groupCtx, sub, parent, faults>>

\* The deadline of a Stop passes.
StopGivesUp(c) ==
    /\ stopper[c] \in {"awaiting", "waiting"} /\ Fault
    /\ stopper' = [stopper EXCEPT ![c] = "expired"]
    /\ UNCHANGED <<group, cancelFn, groupCtx, sub, parent>>

GroupStep == PublishCancel \/ StartSubs \/ EndGroup
StopStep(c) == TakeCancel(c) \/ StopReturns(c)

GroupNext ==
    \/ StartGroup \/ GroupStep \/ CancelParent
    \/ \E s \in Subs : SubFails(s) \/ SubStops(s)
    \/ \E c \in Stoppers : CallStop(c) \/ StopStep(c) \/ StopGivesUp(c)

GroupSpec ==
    /\ GroupInit /\ [][GroupNext]_groupVars
    /\ WF_groupVars(GroupStep) /\ \A s \in Subs : WF_groupVars(SubStops(s))
    /\ \A c \in Stoppers : WF_groupVars(StopStep(c))

GroupTypeOK ==
    /\ group \in {"new", "started", "publishing", "waiting", "done"}
    /\ cancelFn \in {"none", "published", "taken"} /\ groupCtx \in {"none", "live", "cancelled"}
    /\ \A s \in Subs : sub[s] \in {"idle", "running", "failed", "stopped"}
    /\ \A c \in Stoppers : stopper[c] \in
         {"none", "returned early", "awaiting", "waiting", "returned", "expired"}

\* When a Stop returns without an error, or Start returns, no subscription
\* consumes any more (wg.Wait before done is closed).
StopJoinsSubs ==
    group = "done" \/ (\E c \in Stoppers : stopper[c] = "returned") => Running = {}

\* A Stop that began after Start, even before the cancel function was
\* published, and the failure of one subscription both end the group; every
\* Stop returns.
GroupSettled ==
    /\ \A c \in Stoppers : stopper[c] \notin {"awaiting", "waiting"}
    /\ (\E s \in Subs : sub[s] = "failed") \/ (\E c \in Stoppers : stopper[c] = "returned")
         => group = "done"

-------------------------------------------------------------------------------
(***************************************************************************)
(* infra/messaging/membroker: the in-memory broker.  Publish appends to a  *)
(* list, Drain dispatches its head to the subscriptions and only then      *)
(* removes it, with the list unlocked while handlers run.                  *)
(***************************************************************************)

CONSTANTS Drainers,      \* callers of Drain
          Listeners,     \* subscriptions (called in order; no property tells the order apart)
          MaxPublished   \* bound on the messages published

VARIABLES
    nextPublishID, published,   \* Broker.nextPublishID, the ids in Broker.published
    listening,     \* Broker.subscriptions
    drain,         \* per drainer: [at, pm, subs]: place, head taken, subscriptions left
    drainMu,       \* who holds drainMu
    heard,         \* per subscription: the ids its handler saw
    redelivered,   \* ids whose dispatch ended before their removal
    wiped,         \* ids that Reset removed
    dispatched     \* ids whose handlers were all called

brokerState == <<nextPublishID, published, listening, drain, drainMu, heard, redelivered, wiped, dispatched>>
brokerVars == <<brokerState, faults>>

NoDrainer == "none"
DrainRest == [at |-> "rest", pm |-> 0, subs |-> {}]

BrokerInit ==
    /\ nextPublishID = 0 /\ published = <<>> /\ listening = Listeners
    /\ drain = [d \in Drainers |-> DrainRest] /\ drainMu = NoDrainer
    /\ heard = [l \in Listeners |-> <<>>] /\ redelivered = {} /\ wiped = {} /\ dispatched = {} /\ faults = 0

DrainGoes(d, place) == drain' = [drain EXCEPT ![d].at = place]

\* Publish, also by a handler that Drain runs.
PublishMessage ==
    /\ nextPublishID < MaxPublished /\ nextPublishID' = nextPublishID + 1
    /\ published' = Append(published, nextPublishID')
    /\ UNCHANGED <<listening, drain, drainMu, heard, redelivered, wiped, dispatched, faults>>

Unsubscribe(l) ==
    /\ l \in listening /\ listening' = listening \ {l}
    /\ UNCHANGED <<nextPublishID, published, drain, drainMu, heard, redelivered, wiped, dispatched, faults>>

\* Reset drops the messages and the subscriptions; the test subscribes anew.
ResetBroker ==
    /\ published # <<>> /\ published' = <<>> /\ wiped' = wiped \cup ToSet(published)
    /\ listening' = Listeners
    /\ UNCHANGED <<nextPublishID, drain, drainMu, heard, redelivered, dispatched, faults>>

\* Fault model of MayDrain: Drain without drainMu.
DrainsAnyway(d) == TRUE

MayDrain(d) == drainMu = NoDrainer

BeginDrain(d) ==
    /\ drain[d].at = "rest" /\ MayDrain(d) /\ drainMu' = d /\ DrainGoes(d, "head")
    /\ UNCHANGED <<nextPublishID, published, listening, heard, redelivered, wiped, dispatched, faults>>

\* The head and a copy of the subscriptions under mu; an empty list ends Drain.
PeekHead(d) ==
    /\ drain[d].at = "head"
    /\ IF published = <<>>
       THEN DrainGoes(d, "rest") /\ drainMu' = NoDrainer
       ELSE /\ drain' = [drain EXCEPT ![d] = [at |-> "dispatch", pm |-> Head(published), subs |-> listening]]
            /\ UNCHANGED drainMu
    /\ UNCHANGED <<nextPublishID, published, listening, heard, redelivered, wiped, dispatched, faults>>

\* One handler; an error of it, or a context that is over, ends Drain with the
\* message still at the head.
CallListener(d, l) ==
    /\ drain[d].at = "dispatch" /\ l \in drain[d].subs
    /\ heard' = [heard EXCEPT ![l] = Append(@, drain[d].pm)]
    /\ \/ drain' = [drain EXCEPT ![d].subs = @ \ {l}] /\ UNCHANGED <<drainMu, redelivered, faults>>
       \/ /\ Fault /\ drain' = [drain EXCEPT ![d] = DrainRest] /\ drainMu' = NoDrainer
          /\ redelivered' = redelivered \cup {drain[d].pm}
    /\ UNCHANGED <<nextPublishID, published, listening, wiped, dispatched>>

\* Fault model of RemovedFrom: the head is removed, whichever message it is.
RemovesHead(list, id) == IF list = <<>> THEN list ELSE Tail(list)

\* The message that was dispatched leaves the list, wherever it is
\* (removePublishedLocked); after a Reset it may be gone.
RemovedFrom(list, id) == SelectSeq(list, LAMBDA m : m # id)

RemoveHead(d) ==
    /\ drain[d].at = "dispatch" /\ drain[d].subs = {} /\ DrainGoes(d, "head")
    /\ published' = RemovedFrom(published, drain[d].pm) /\ dispatched' = dispatched \cup {drain[d].pm}
    /\ UNCHANGED <<nextPublishID, listening, drainMu, heard, redelivered, wiped, faults>>

BrokerNext ==
    \/ PublishMessage \/ ResetBroker
    \/ \E l \in Listeners : Unsubscribe(l)
    \/ \E d \in Drainers :
          BeginDrain(d) \/ PeekHead(d) \/ RemoveHead(d) \/ \E l \in Listeners : CallListener(d, l)

BrokerSpec == BrokerInit /\ [][BrokerNext]_brokerVars

BrokerTypeOK ==
    /\ ToSet(published) \subseteq 1 .. nextPublishID
    /\ drainMu \in Drainers \cup {NoDrainer}
    /\ \A d \in Drainers : drain[d].at \in {"rest", "head", "dispatch"}

\* A subscription hears the messages in the order in which they were
\* published, and a message twice only if a Drain failed while it was at the
\* head, whichever callers drain at the same time.
HeardInOrder ==
    \A l \in Listeners : \A i, j \in DOMAIN heard[l] :
        i < j => \/ heard[l][i] < heard[l][j]
                 \/ heard[l][i] = heard[l][j] /\ heard[l][i] \in redelivered

\* A message leaves the list only after its handlers were called, or by Reset,
\* also if a Reset and new messages come while the handlers run.
LeavesWhenHeard == 1 .. nextPublishID \subseteq ToSet(published) \cup wiped \cup dispatched

-------------------------------------------------------------------------------
(***************************************************************************)
(* infra/messaging/membroker: matchTopic, the matching of a subscription's *)
(* pattern with a routing key, as sequences of their dot-separated words,  *)
(* against what the patterns of a topic exchange stand for.                *)
(***************************************************************************)

CONSTANTS PatternWords, KeyWords, MaxWords   \* the topics that are matched

VARIABLE topic   \* [pattern, key, verdict]: one call of matchTopic

topicState == <<topic>>

TopicInit ==
    \E p \in SeqOf(PatternWords, MaxWords) \ {<<>>}, k \in SeqOf(KeyWords, MaxWords) :
        topic = [pattern |-> p, key |-> k, verdict |-> "none"]

RECURSIVE MatchParts(_, _)

\* Fault model of HashMatches: "#" stands for at least one word.
HashTakesOne(pattern, key) == \E skip \in 1 .. Len(key) : MatchParts(Tail(pattern), SubSeq(key, skip + 1, Len(key)))

\* "#" against 0..N words of the key.
HashMatches(pattern, key) == \E skip \in 0 .. Len(key) : MatchParts(Tail(pattern), SubSeq(key, skip + 1, Len(key)))

\* matchParts; once the key is used up only "#" may be left of the pattern.
MatchParts(pattern, key) ==
    IF pattern = <<>> \/ key = <<>> THEN ToSet(pattern) \subseteq {"#"} /\ key = <<>>
    ELSE IF Head(pattern) = "#" THEN Len(pattern) = 1 \/ HashMatches(pattern, key)
    ELSE Head(pattern) \in {"*", Head(key)} /\ MatchParts(Tail(pattern), Tail(key))

\* matchTopic: an empty key is no word, and only "#" matches it.
MatchTopic(pattern, key) ==
    IF key = <<>> THEN pattern = <<"#">>
    ELSE pattern = <<"#">> \/ (pattern = <<"*">> /\ Len(key) = 1) \/ pattern = key \/ MatchParts(pattern, key)

TopicNext ==
    /\ topic.verdict = "none"
    /\ topic' = [topic EXCEPT !.verdict = IF MatchTopic(topic.pattern, topic.key) THEN "yes" ELSE "no"]

TopicSpec == TopicInit /\ [][TopicNext]_topicState

TopicTypeOK == topic.verdict \in {"none", "yes", "no"}

\* What matchTopic stands for: the pattern cuts the key into one piece per
\* part; a piece of "*" is one word, of "#" any words, of a word that word.
CutsInto(pattern, key) ==
    \E cut \in [0 .. Len(pattern) -> 0 .. Len(key)] :
        /\ cut[0] = 0 /\ cut[Len(pattern)] = Len(key)
        /\ \A i \in 1 .. Len(pattern) :
               IF pattern[i] = "#" THEN cut[i - 1] <= cut[i]
               ELSE cut[i] = cut[i - 1] + 1 /\ pattern[i] \in {"*", key[cut[i]]}

\* matchTopic answers as the topic exchange does: "*" is exactly one word and
\* "#" any number of words, for every key with a word in it and every pattern,
\* several "#" included; an empty key is matched by "#" alone.
TopicsMatch ==
    (topic.verdict # "none" /\ (topic.key # <<>> \/ Len(topic.pattern) = 1))
        => (topic.verdict = "yes" <=> CutsInto(topic.pattern, topic.key))
================================================================================
