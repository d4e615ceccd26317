----------------------------- MODULE RedisStream -----------------------------
(***************************************************************************)
(* data/stream/redisstream.Consumer: consumers of one group, each with the *)
(* loop that reads new entries in batches and the loop that claims entries *)
(* which have been idle for claimMinIdle, the history pass at the start of *)
(* a session, the dead-letter stream, and the removal of a consumer.       *)
(* Redis is external: its pending entries list has an owner, a delivery    *)
(* count and an idle time for each entry.                                  *)
(*                                                                         *)
(* Time: NewConsumer makes claimMinIdle larger than the time one handler   *)
(* and its ack may take, so a handler ends within HandlerTicks ticks and   *)
(* ClaimMinIdle > HandlerTicks.                                            *)
(***************************************************************************)
EXTENDS Faults, FiniteSets, Sequences, SequencesExt

CONSTANTS StreamConsumers,
          LastEntry,    \* bound: the stream has the entries 1 .. LastEntry
          BatchSize, StreamMaxRetries, HandlerTicks, ClaimMinIdle

ASSUME StreamAssumption ==
    /\ {LastEntry, BatchSize, StreamMaxRetries, HandlerTicks} \subseteq Nat \ {0}
    /\ ClaimMinIdle \in Nat /\ ClaimMinIdle > HandlerTicks

VARIABLES
    entry,     \* per entry: "new", "pending", "acked" or "lost"; its owner, count and idle time
    thread,    \* per consumer and loop: the rest of its batch, the step of handleMessage
    session,   \* per consumer: "start", "history", "on", "ending", "checked" or "gone"
    local,     \* localDelivery of each consumer
    handled, deadLettered

streamVars == <<entry, thread, session, local, handled, deadLettered, faults>>

Entries == 1 .. LastEntry
Threads == StreamConsumers \X {"read", "claim"}
MaxCount == StreamMaxRetries + 1   \* bound: counts above it are not told apart
Bump(n) == IF n < MaxCount THEN n + 1 ELSE n
Larger(a, b) == IF a > b THEN a ELSE b
NoBatch == [todo |-> <<>>, step |-> "idle", ticks |-> 0, first |-> TRUE, ask |-> FALSE,
            known |-> [e \in Entries |-> 0]]

StreamTypeOK ==
    /\ \A e \in Entries :
          /\ entry[e].state \in {"new", "pending", "acked", "lost"}
          /\ entry[e].owner \in StreamConsumers /\ entry[e].count \in 0 .. MaxCount
          /\ entry[e].idle \in 0 .. ClaimMinIdle
    /\ \A t \in Threads :
          /\ thread[t].step \in {"idle", "handle", "ack", "xadd", "xack"}
          /\ thread[t].todo \in Seq(Entries) /\ thread[t].ticks \in 0 .. HandlerTicks
    /\ session \in [StreamConsumers -> {"start", "history", "on", "ending", "checked", "gone"}]
    /\ local \in [StreamConsumers -> [Entries -> 0 .. MaxCount]]
    /\ handled \subseteq Entries /\ deadLettered \subseteq Entries /\ faults \in 0 .. MaxFaults

StreamInit ==
    /\ LET c == CHOOSE d \in StreamConsumers : TRUE IN
          entry = [e \in Entries |-> [state |-> "new", owner |-> c, count |-> 0, idle |-> 0]]
    /\ thread = [t \in Threads |-> NoBatch]
    /\ session = [c \in StreamConsumers |-> "start"]
    /\ local = [c \in StreamConsumers |-> [e \in Entries |-> 0]]
    /\ handled = {} /\ deadLettered = {} /\ faults = 0

--------------------------------------------------------------------------------
(* Taking entries. *)

Pending(c) == {e \in Entries : entry[e].state = "pending" /\ entry[e].owner = c}

\* The entries es go to c: the count goes up by one and the idle time starts again.
DeliverTo(c, es) ==
    entry' = [e \in Entries |-> IF e \in es THEN [state |-> "pending", owner |-> c, idle |-> 0,
                                                  count |-> Bump(entry[e].count)]
                                ELSE entry[e]]

\* A loop begins a batch; the counts it knows are those of batchDeliveryCounts, 0 when
\* XPENDING failed.  readNew asks for the count of each entry later.
TakeBatch(t, es, ask) ==
    \/ /\ thread' = [thread EXCEPT ![t] =
            [todo |-> SetToSortSeq(es, <), step |-> "handle", ticks |-> 0, first |-> TRUE,
             ask |-> ask, known |-> [e \in Entries |-> IF e \in es THEN entry'[e].count ELSE 0]]]
       /\ UNCHANGED faults
    \/ /\ ~ask /\ Fault
       /\ thread' = [thread EXCEPT ![t] =
            [NoBatch EXCEPT !.todo = SetToSortSeq(es, <), !.step = "handle"]]

\* processPending: the consumer's own list, claimed again so that the delivery counts.
ProcessPending(c) ==
    /\ session[c] = "start"
    /\ IF Pending(c) = {}
       THEN session' = [session EXCEPT ![c] = "on"] /\ UNCHANGED <<entry, thread, faults>>
       ELSE /\ session' = [session EXCEPT ![c] = "history"]
            /\ DeliverTo(c, Pending(c)) /\ TakeBatch(<<c, "read">>, Pending(c), FALSE)
    /\ UNCHANGED <<local, handled, deadLettered>>

\* ... after which the claim loop starts.
HistoryDone(c) ==
    /\ session[c] = "history" /\ thread[<<c, "read">>].step = "idle"
    /\ session' = [session EXCEPT ![c] = "on"]
    /\ UNCHANGED <<entry, thread, local, handled, deadLettered, faults>>

New == {e \in Entries : entry[e].state = "new"}

\* readNew: up to batchSize entries, in order.
ReadNew(c) ==
    /\ session[c] = "on" /\ thread[<<c, "read">>].step = "idle"
    /\ \E n \in 1 .. BatchSize :
          /\ n <= Cardinality(New)
          /\ LET es == ToSet(SubSeq(SetToSortSeq(New, <), 1, n))
             IN DeliverTo(c, es) /\ TakeBatch(<<c, "read">>, es, TRUE)
    /\ UNCHANGED <<session, local, handled, deadLettered>>

\* Fault model of claimStaleMessages: entries are claimed as soon as a handler may be over.
StaleEarly == {e \in Entries : entry[e].state = "pending" /\ entry[e].idle >= HandlerTicks}

\* Fault model of claimStaleMessages: entries that are out of retries are left alone.
StaleRetryable ==
    {e \in Entries : /\ entry[e].state = "pending" /\ entry[e].idle >= ClaimMinIdle
                     /\ entry[e].count <= StreamMaxRetries}

Stale == {e \in Entries : entry[e].state = "pending" /\ entry[e].idle >= ClaimMinIdle}

\* claimStaleMessages: XAUTOCLAIM of all that is idle long enough, whoever owns it.
ClaimStaleMessages(c) ==
    /\ session[c] = "on" /\ thread[<<c, "claim">>].step = "idle" /\ Stale # {}
    /\ DeliverTo(c, Stale) /\ TakeBatch(<<c, "claim">>, Stale, FALSE)
    /\ UNCHANGED <<session, local, handled, deadLettered>>

--------------------------------------------------------------------------------
(* handleMessage. *)

Now(t) == Head(thread[t].todo)
Step(t, step) == thread' = [thread EXCEPT ![t].step = step]

\* On to the next entry of the batch.
Finish(t) ==
    thread' = [thread EXCEPT ![t] =
        IF Len(@.todo) = 1 THEN NoBatch
        ELSE [@ EXCEPT !.todo = Tail(@), !.step = "handle", !.ticks = 0, !.first = FALSE]]

XAck(e) == entry' = [entry EXCEPT ![e].state = IF @ = "pending" THEN "acked" ELSE @]
ClearLocal(c, e) == local' = [local EXCEPT ![c][e] = 0]

\* The delivery count of a transient failure: known from the claim, or asked for (1 when
\* the entry is pending no more), or 0 when it cannot be had.
CountOf(t) ==
    IF ~thread[t].ask THEN thread[t].known[Now(t)]
    ELSE IF entry[Now(t)].state = "pending" THEN entry[Now(t)].count ELSE 1

\* Retry later, or dead-letter an entry whose count is above maxRetries; an unknown
\* count is replaced by one that the consumer keeps.
RetryOrDeadLetter(t, count) ==
    LET c == t[1]
        n == IF count = 0 THEN Bump(local[c][Now(t)]) ELSE Larger(local[c][Now(t)], count)
        used == IF count = 0 THEN n ELSE count
    IN /\ local' = [local EXCEPT ![c][Now(t)] = n]
       /\ IF used > StreamMaxRetries THEN Step(t, "xadd") ELSE Finish(t)

\* The handler returns: nil, an error, or a permanent error, which is also what an
\* invalid entry gets.
HandleMessage(t) ==
    /\ thread[t].step = "handle"
    /\ \/ handled' = handled \cup {Now(t)} /\ Step(t, "ack") /\ UNCHANGED <<local, faults>>
       \/ RetryOrDeadLetter(t, CountOf(t)) /\ UNCHANGED <<handled, faults>>
       \/ thread[t].ask /\ Fault /\ RetryOrDeadLetter(t, 0) /\ UNCHANGED handled
       \/ Step(t, "xadd") /\ UNCHANGED <<local, handled, faults>>
    /\ UNCHANGED <<entry, session, deadLettered>>

\* XACK after success.
AckHandled(t) ==
    /\ thread[t].step = "ack" /\ Finish(t)
    /\ \/ XAck(Now(t)) /\ ClearLocal(t[1], Now(t)) /\ UNCHANGED faults
       \/ Fault /\ UNCHANGED <<entry, local>>
    /\ UNCHANGED <<session, handled, deadLettered>>

\* Fault model of deadLetter: XADD and XACK go out together, and only XADD fails.
DeadLetterPipelined(t) ==
    /\ thread[t].step = "xadd"
    /\ \/ /\ deadLettered' = deadLettered \cup {Now(t)} /\ Step(t, "xack")
          /\ UNCHANGED <<entry, local, faults>>
       \/ Fault /\ Finish(t) /\ ClearLocal(t[1], Now(t)) /\ XAck(Now(t)) /\ UNCHANGED deadLettered
    /\ UNCHANGED <<session, handled>>

\* deadLetter: XADD, and only after it XACK.
DeadLetterAdd(t) ==
    /\ thread[t].step = "xadd"
    /\ \/ /\ deadLettered' = deadLettered \cup {Now(t)} /\ Step(t, "xack")
          /\ UNCHANGED <<local, faults>>
       \/ Fault /\ Finish(t) /\ ClearLocal(t[1], Now(t)) /\ UNCHANGED deadLettered
    /\ UNCHANGED <<entry, session, handled>>

DeadLetterAck(t) ==
    /\ thread[t].step = "xack" /\ Finish(t) /\ ClearLocal(t[1], Now(t))
    /\ \/ XAck(Now(t)) /\ UNCHANGED faults
       \/ Fault /\ UNCHANGED entry
    /\ UNCHANGED <<session, handled, deadLettered>>

--------------------------------------------------------------------------------
(* Sessions. *)

\* The read loop fails (what Redis delivered last may never have arrived) or the context
\* is cancelled: both loops stop after the entry they are at.
EndSession(c) ==
    /\ session[c] \in {"history", "on"} /\ Fault
    /\ session' = [session EXCEPT ![c] = "ending"]
    /\ thread' = [t \in Threads |-> IF t[1] = c /\ thread[t].step # "idle"
                                    THEN [thread[t] EXCEPT !.todo = <<Head(@)>>] ELSE thread[t]]
    /\ \/ UNCHANGED entry
       \/ /\ thread[<<c, "read">>].step = "idle" /\ session[c] = "on" /\ New # {}
          /\ DeliverTo(c, {CHOOSE e \in New : \A f \in New : e <= f})
    /\ UNCHANGED <<local, handled, deadLettered>>

\* A new session of the same consumer, or none as long as another consumer is there.
Afterwards(c) ==
    \/ session' = [session EXCEPT ![c] = "start"]
    \/ /\ session' = [session EXCEPT ![c] = "gone"]
       /\ \E d \in StreamConsumers \ {c} : session[d] # "gone"

\* Fault model of removeConsumer: the consumer is deleted without a look at its list.
CheckNothing(c) ==
    /\ session[c] = "ending" /\ \A l \in {"read", "claim"} : thread[<<c, l>>].step = "idle"
    /\ session' = [session EXCEPT ![c] = "checked"]
    /\ UNCHANGED <<entry, thread, local, handled, deadLettered, faults>>

\* removeConsumer: once both loops are through, XPENDING decides ...
CheckPending(c) ==
    /\ session[c] = "ending" /\ \A l \in {"read", "claim"} : thread[<<c, l>>].step = "idle"
    /\ IF Pending(c) = {} THEN session' = [session EXCEPT ![c] = "checked"] ELSE Afterwards(c)
    /\ UNCHANGED <<entry, thread, local, handled, deadLettered, faults>>

\* ... whether XGROUP DELCONSUMER deletes the consumer with what is in its list then.
DelConsumer(c) ==
    /\ session[c] = "checked" /\ Afterwards(c)
    /\ entry' = [e \in Entries |-> IF e \in Pending(c) THEN [entry[e] EXCEPT !.state = "lost"]
                                   ELSE entry[e]]
    /\ UNCHANGED <<thread, local, handled, deadLettered, faults>>

\* The process dies; another consumer is there.
StreamCrash(c) ==
    /\ session[c] # "gone" /\ Fault /\ \E d \in StreamConsumers \ {c} : session[d] # "gone"
    /\ session' = [session EXCEPT ![c] = "gone"]
    /\ thread' = [t \in Threads |-> IF t[1] = c THEN NoBatch ELSE thread[t]]
    /\ UNCHANGED <<entry, local, handled, deadLettered>>

Tick ==
    /\ \A t \in Threads : thread[t].step = "idle" \/ thread[t].ticks < HandlerTicks
    /\ entry' = [e \in Entries |-> IF entry[e].state = "pending" /\ entry[e].idle < ClaimMinIdle
                                   THEN [entry[e] EXCEPT !.idle = @ + 1] ELSE entry[e]]
    /\ thread' = [t \in Threads |-> IF thread[t].step = "idle" THEN thread[t]
                                    ELSE [thread[t] EXCEPT !.ticks = @ + 1]]
    /\ UNCHANGED <<session, local, handled, deadLettered, faults>>

HandleStep(t) == HandleMessage(t) \/ AckHandled(t) \/ DeadLetterAdd(t) \/ DeadLetterAck(t)
SessionStep(c) == ProcessPending(c) \/ HistoryDone(c) \/ CheckPending(c) \/ DelConsumer(c)

StreamNext ==
    \/ \E t \in Threads : HandleStep(t)
    \/ \E c \in StreamConsumers :
          SessionStep(c) \/ ReadNew(c) \/ ClaimStaleMessages(c) \/ EndSession(c) \/ StreamCrash(c)
    \/ Tick

\* Loops run, the claim loop has a ticker, and time passes.
StreamFairness ==
    /\ \A t \in Threads : WF_streamVars(HandleStep(t))
    /\ \A c \in StreamConsumers :
          /\ WF_streamVars(SessionStep(c)) /\ WF_streamVars(ReadNew(c))
          /\ WF_streamVars(ClaimStaleMessages(c))
    /\ WF_streamVars(Tick)

StreamSpec == StreamInit /\ [][StreamNext]_streamVars /\ StreamFairness

--------------------------------------------------------------------------------
\* "Accept the extra RTT to keep at-least-once semantics", and removeConsumer must not
\* delete what is pending: no entry is dropped from the group, and what is acknowledged
\* was handled or is in the dead-letter stream.
StreamKeepsEntries ==
    \A e \in Entries :
        /\ entry[e].state # "lost"
        /\ entry[e].state = "acked" => e \in handled \cup deadLettered

\* The check of NewConsumer protects the first entry of a batch: while its handler runs
\* no claim takes it away.
FirstOfBatchIsNotClaimed ==
    \A t \in Threads :
        thread[t].step = "handle" /\ thread[t].first /\ entry[Now(t)].state = "pending"
            => entry[Now(t)].owner = t[1]

\* "so XAUTOCLAIM cannot transfer a still-running handler's message to another consumer".
RunningIsNotClaimed ==
    \A t \in Threads :
        thread[t].step = "handle" /\ entry[Now(t)].state = "pending" => entry[Now(t)].owner = t[1]

\* Every entry is eventually handled or dead-lettered, and acknowledged.
StreamSettled == \A e \in Entries : entry[e].state = "acked"
================================================================================
