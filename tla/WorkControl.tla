----------------------------- MODULE WorkControl -----------------------------
(***************************************************************************)
(* Work that is queued, approved or locked in the database: data/queue,    *)
(* data/approval with the cursor pages over it and the logs, and           *)
(* data/lock/pgadvisory.                                                   *)
(***************************************************************************)
EXTENDS Naturals, FiniteSets, Faults, SequencesExt

-------------------------------------------------------------------------------
(***************************************************************************)
(* data/queue: a caller that enqueues a batch of messages with ids and     *)
(* retries it, and workers that handle, retry and archive them.  redisqueue*)
(* sits on asynq, riverqueue on River; what the two brokers do with a task *)
(* is external and modelled from how the backends configure them.          *)
(***************************************************************************)

CONSTANTS BatchSize, MaxRetry

Msgs == 1 .. BatchSize

VARIABLES
    broker,     \* "asynq" or "river"
    caller,     \* the caller's place in its batch
    task,       \* per message: where the broker keeps it
    retried,    \* per message: the broker's retry count
    runs,       \* per message: handler calls of the task that is stored
    answered,   \* per message: the last answer of its handler
    accepted    \* the messages that were ever stored

queueState == <<broker, caller, task, retried, runs, answered, accepted>>
queueVars == <<queueState, faults>>

Answers == {"ok", "error", "permanent"}

QueueTypeOK ==
    /\ broker \in {"asynq", "river"}
    /\ caller \in [step : {"send", "again", "one", "done"}, at : 1 .. BatchSize + 1]
    /\ task \in [Msgs -> {"none", "pending", "active", "handled", "archived", "done"}]
    /\ retried \in [Msgs -> 0 .. MaxRetry] /\ runs \in [Msgs -> 0 .. MaxRetry + 1 + MaxFaults]
    /\ answered \in [Msgs -> Answers \cup {"none", "lost"}] /\ accepted \subseteq Msgs /\ faults \in 0 .. MaxFaults

QueueInit ==
    /\ broker \in {"asynq", "river"} /\ caller = [step |-> "send", at |-> 1]
    /\ task = [i \in Msgs |-> "none"] /\ retried = [i \in Msgs |-> 0] /\ runs = [i \in Msgs |-> 0]
    /\ answered = [i \in Msgs |-> "none"] /\ accepted = {} /\ faults = 0

\* asynq's task id conflicts while the task exists; River's unique job while it is not
\* cancelled or discarded.
Conflicts(i) == task[i] # "none" /\ (broker = "river" => task[i] # "archived")

\* enqueueOne writes the task, or finds its id taken.  In both cases the answer may be
\* lost: the caller then has an error and starts the batch again.
EnqueueOne(i, stored, duplicate) ==
    /\ IF Conflicts(i)
       THEN UNCHANGED <<task, retried, runs, answered, accepted>>
       ELSE /\ task' = [task EXCEPT ![i] = "pending"] /\ retried' = [retried EXCEPT ![i] = 0]
            /\ runs' = [runs EXCEPT ![i] = 0] /\ answered' = [answered EXCEPT ![i] = "none"]
            /\ accepted' = accepted \cup {i}
    /\ \/ caller' = (IF Conflicts(i) THEN duplicate ELSE stored) /\ UNCHANGED faults
       \/ Fault /\ caller' = [step |-> IF caller.step = "one" THEN "one" ELSE "again", at |-> caller.at]
    /\ UNCHANGED broker

Sent(i) == [caller EXCEPT !.at = i + 1]

\* Fault model of EnqueueBatch: a duplicate ends the batch without an error.
BatchEndsAtDuplicate ==
    /\ caller.step = "send" /\ caller.at \in Msgs
    /\ EnqueueOne(caller.at, Sent(caller.at), [step |-> "done", at |-> caller.at])

\* EnqueueBatch: one message after the other.  The redis backend stops at the first
\* duplicate with an ErrDuplicateMessage that does not name its index, upon which this
\* caller goes through the batch one by one; River answers nil for a duplicate.
EnqueueBatch ==
    /\ caller.step = "send" /\ caller.at \in Msgs
    /\ EnqueueOne(caller.at, Sent(caller.at),
                  IF broker = "river" THEN Sent(caller.at) ELSE [step |-> "one", at |-> 1])

\* Enqueue of a single message; a duplicate counts as success.
Enqueue ==
    /\ caller.step = "one" /\ caller.at \in Msgs
    /\ EnqueueOne(caller.at, Sent(caller.at), Sent(caller.at))

StartBatchAgain ==
    /\ caller.step = "again" /\ caller' = [step |-> "send", at |-> 1]
    /\ UNCHANGED <<broker, task, retried, runs, answered, accepted, faults>>

CallerDone ==
    /\ caller.step \in {"send", "one"} /\ caller.at = BatchSize + 1
    /\ caller' = [caller EXCEPT !.step = "done"]
    /\ UNCHANGED <<broker, task, retried, runs, answered, accepted, faults>>

TakeTask(i) ==
    /\ task[i] = "pending" /\ task' = [task EXCEPT ![i] = "active"]
    /\ UNCHANGED <<broker, caller, retried, runs, answered, accepted, faults>>

\* handlerForQueue and EnvelopeWorker.Work call the handler; a panic is an error.
HandleTask(i) ==
    /\ task[i] = "active" /\ task' = [task EXCEPT ![i] = "handled"]
    /\ runs' = [runs EXCEPT ![i] = @ + 1]
    /\ \E answer \in Answers : answered' = [answered EXCEPT ![i] = answer]
    /\ UNCHANGED <<broker, caller, retried, accepted, faults>>

\* Fault model of handlerForQueue: a permanent error is returned as any other.
RetriesPermanent(i) == answered[i] \in {"error", "permanent"} /\ retried[i] < MaxRetry

\* SkipRetry and JobCancel end a task whose error is permanent, MaxRetry the others.
RetriesTask(i) == answered[i] = "error" /\ retried[i] < MaxRetry

FinishTask(i) ==
    /\ task[i] = "handled"
    /\ IF RetriesTask(i)
       THEN task' = [task EXCEPT ![i] = "pending"] /\ retried' = [retried EXCEPT ![i] = @ + 1]
       ELSE /\ task' = [task EXCEPT ![i] = IF answered[i] = "ok" THEN "done" ELSE "archived"]
            /\ UNCHANGED retried
    /\ UNCHANGED <<broker, caller, runs, answered, accepted, faults>>

\* The worker dies or is shut down before the broker has its answer: asynq's recoverer and
\* River's rescuer count a retry, a shutdown gives the task back as it was.
WorkerLost(i) ==
    /\ task[i] \in {"active", "handled"} /\ Fault
    /\ \/ task' = [task EXCEPT ![i] = "pending"] /\ UNCHANGED retried
       \/ IF retried[i] < MaxRetry
          THEN task' = [task EXCEPT ![i] = "pending"] /\ retried' = [retried EXCEPT ![i] = @ + 1]
          ELSE task' = [task EXCEPT ![i] = "archived"] /\ UNCHANGED retried
    /\ answered' = [answered EXCEPT ![i] = "lost"]
    /\ UNCHANGED <<broker, caller, runs, accepted>>

\* A completed task is deleted when its retention is over, and its id is free again.
ExpireTask(i) ==
    /\ task[i] = "done" /\ task' = [task EXCEPT ![i] = "none"]
    /\ UNCHANGED <<broker, caller, retried, runs, answered, accepted, faults>>

QueueNext ==
    \/ EnqueueBatch \/ Enqueue \/ StartBatchAgain \/ CallerDone
    \/ \E i \in Msgs : TakeTask(i) \/ HandleTask(i) \/ FinishTask(i) \/ WorkerLost(i) \/ ExpireTask(i)

QueueFairness ==
    /\ WF_queueVars(EnqueueBatch \/ Enqueue \/ StartBatchAgain \/ CallerDone)
    /\ \A i \in Msgs : WF_queueVars(TakeTask(i) \/ HandleTask(i) \/ FinishTask(i))

QueueSpec == QueueInit /\ [][QueueNext]_queueVars /\ QueueFairness

-------------------------------------------------------------------------------
\* A message is handled as often as its retries and lost workers allow and no more, and its
\* task ends only for a reason: the handler succeeded, gave up for good, or used its retries.
TasksEndForAReason ==
    \A i \in Msgs :
        /\ runs[i] <= retried[i] + 1 + faults
        /\ task[i] \in {"pending", "active"} => answered[i] \in {"none", "error", "lost"}
        /\ task[i] = "done" => answered[i] = "ok"
        /\ task[i] = "archived" => answered[i] = "permanent" \/ retried[i] = MaxRetry

\* A caller that is done has had every message of its batch accepted.
BatchIsAccepted == caller.step = "done" => accepted = Msgs

QueueSettled == caller.step = "done" /\ \A i \in Msgs : task[i] \in {"none", "archived", "done"}

-------------------------------------------------------------------------------
(***************************************************************************)
(* data/approval: the states of a request and the store's operations, in   *)
(* memory and in Postgres, where one row lock covers a transaction whose   *)
(* commit may fail on either side of the write.  List is below.            *)
(***************************************************************************)

CONSTANTS NumRequests, MaxClock, Approvers, Tenants

RequestIds == 1 .. NumRequests

VARIABLES
    requests,   \* per id: the stored row, if any
    approvalClock, \* the store's clock
    told        \* the decisions some caller was told are recorded

approvalState == <<requests, approvalClock, told>>
approvalVars == <<approvalState, faults>>

ApprovalStates == {"pending", "approved", "rejected", "executed", "expired"}
NoApprover == "nobody"
NoTenant == "none"
NoRequest == [state |-> "absent", tenant |-> NoTenant, by |-> NoApprover, expires |-> 0]

ApprovalTypeOK ==
    /\ requests \in [RequestIds -> [state : ApprovalStates \cup {"absent"}, tenant : Tenants \cup {NoTenant},
                                    by : Approvers \cup {NoApprover},
                                    expires : 0 .. MaxClock + 1]]
    /\ approvalClock \in 0 .. MaxClock
    /\ told \subseteq [id : RequestIds, verdict : {"approved", "rejected"}, by : Approvers]
    /\ faults \in 0 .. MaxFaults

ApprovalInit ==
    /\ requests = [i \in RequestIds |-> NoRequest] /\ approvalClock = 0 /\ told = {} /\ faults = 0

\* A transaction that changes row i: the caller is told, or the commit fails and the row
\* was or was not written.
CommitRow(i, row, answer) ==
    \/ requests' = [requests EXCEPT ![i] = row] /\ told' = told \cup answer /\ UNCHANGED faults
    \/ requests' = [requests EXCEPT ![i] = row] /\ Fault /\ UNCHANGED told
    \/ Fault /\ UNCHANGED <<requests, told>>

\* The middleware's Create; a duplicate id, also the one of a lost answer, is refused.
CreateRequest(i, t) ==
    /\ requests[i] = NoRequest
    /\ CommitRow(i, [state |-> "pending", tenant |-> t, by |-> NoApprover,
                     expires |-> approvalClock + 1], {})
    /\ UNCHANGED approvalClock

\* Fault model of decide: a decision that was recorded can be changed.
Overwritable(state) == state \in {"pending", "approved", "rejected"}

\* decide writes a pending request only.
Decidable(state) == state = "pending"

\* decide: an expired request becomes so; the same decision again is confirmed and
\* leaves the row alone; everything else is ErrInvalidTransition or ErrNotFound.
Decide(i, t, who, verdict) ==
    LET r == requests[i]
        answer(by) == {[id |-> i, verdict |-> verdict, by |-> by]}
    IN  /\ r.tenant = t
        /\ \/ /\ r.state = "pending" /\ approvalClock >= r.expires
              /\ CommitRow(i, [r EXCEPT !.state = "expired"], {})
           \/ r.state = verdict /\ CommitRow(i, r, answer(r.by))
           \/ /\ Decidable(r.state) /\ r.state # verdict /\ approvalClock < r.expires
              /\ CommitRow(i, [r EXCEPT !.state = verdict, !.by = who], answer(who))
        /\ UNCHANGED approvalClock

\* markExecuted of an approved request; of an executed one it is a no-op.
MarkExecuted(i, t) ==
    /\ requests[i].tenant = t /\ requests[i].state = "approved"
    /\ CommitRow(i, [requests[i] EXCEPT !.state = "executed"], {})
    /\ UNCHANGED approvalClock

ApprovalTick ==
    /\ approvalClock < MaxClock /\ approvalClock' = approvalClock + 1
    /\ UNCHANGED <<requests, told, faults>>

ApprovalNext ==
    \/ \E i \in RequestIds, t \in Tenants :
           \/ CreateRequest(i, t) \/ MarkExecuted(i, t)
           \/ \E who \in Approvers, v \in {"approved", "rejected"} : Decide(i, t, who, v)
    \/ ApprovalTick

ApprovalSpec == ApprovalInit /\ [][ApprovalNext]_approvalVars

-------------------------------------------------------------------------------
\* Every decision a caller was told of stands: no two callers are told opposite verdicts
\* or different deciders, and the row keeps both, executed included, whatever commits failed.
DecisionsStand ==
    \A d \in told :
        /\ requests[d.id].state \in IF d.verdict = "approved" THEN {"approved", "executed"}
                                                              ELSE {"rejected"}
        /\ requests[d.id].by = d.by

-------------------------------------------------------------------------------
(***************************************************************************)
(* The paging of data/approval, data/actionlog and observability/auditlog: *)
(* a caller walks a filtered listing, newest first, page by page with a    *)
(* signed cursor while rows are inserted and leave the filter, the cursor  *)
(* key is rotated and the answering replica may be shut down.              *)
(***************************************************************************)

CONSTANTS NumRows, MaxTime, PageLimit

RowIds == 1 .. NumRows
CursorKeys == {1, 2}

VARIABLES
    rowTime,    \* per row: its timestamp, which the writer supplies
    rowShown,   \* the rows that are stored and match the filter
    walk        \* the caller: phase, cursor, the ids returned, the rows that stayed all along

pageVars == <<rowTime, rowShown, walk>>

NoCursor == [time |-> 0, id |-> 0, key |-> 0]
NoPage == [more |-> FALSE, ring |-> {}]
NotWalking == [phase |-> "idle", cursor |-> NoCursor, seen |-> <<>>, steady |-> {}, page |-> NoPage]

PageTypeOK ==
    /\ rowTime \in [RowIds -> 0 .. MaxTime] /\ rowShown \subseteq RowIds
    /\ walk.phase \in {"idle", "ask", "sign", "ended", "closed"}
    /\ walk.cursor \in [time : 0 .. MaxTime, id : 0 .. NumRows, key : CursorKeys \cup {0}]
    /\ walk.seen \in Seq(RowIds) /\ walk.steady \subseteq RowIds
    /\ walk.page \in [more : BOOLEAN, ring : SUBSET CursorKeys]

PageInit ==
    /\ rowTime \in [RowIds -> 0 .. MaxTime] /\ rowShown \in SUBSET RowIds /\ walk = NotWalking

\* A row is written, or matches the filter from now on (an approval that is decided).
RowAppears(i) ==
    /\ i \notin rowShown /\ rowShown' = rowShown \cup {i}
    /\ UNCHANGED <<rowTime, walk>>

\* A row is deleted or no longer matches.
RowLeaves(i) ==
    /\ i \in rowShown /\ rowShown' = rowShown \ {i}
    /\ walk' = [walk EXCEPT !.steady = @ \ {i}]
    /\ UNCHANGED rowTime

BeginWalk ==
    /\ walk.phase = "idle"
    /\ walk' = [NotWalking EXCEPT !.phase = "ask", !.steady = rowShown]
    /\ UNCHANGED <<rowTime, rowShown>>

\* ORDER BY time DESC, id DESC.
Newer(i, j) == rowTime[i] > rowTime[j] \/ (rowTime[i] = rowTime[j] /\ i > j)

\* Fault model of the cursor clause: the rows that share the cursor's timestamp are skipped.
AfterTime(i, cursor) == cursor = NoCursor \/ rowTime[i] < cursor.time

\* time < $1 OR (time = $1 AND id < $2).
AfterCursor(i, cursor) ==
    \/ cursor = NoCursor
    \/ rowTime[i] < cursor.time
    \/ rowTime[i] = cursor.time /\ i < cursor.id

\* limit + 1 rows are read to tell whether a page follows.
ReadPage(found) ==
    [ids |-> IF Len(found) > PageLimit THEN SubSeq(found, 1, PageLimit) ELSE found,
     more |-> Len(found) > PageLimit]

\* Decode by a replica with the newest key, or by one that has the older key only; a cursor
\* it cannot verify is refused with ErrInvalidCursor and the caller asks again.
AskPage ==
    /\ walk.phase = "ask"
    /\ \E ring \in {{1}, {1, 2}} :
           LET found == SetToSortSeq({i \in rowShown : AfterCursor(i, walk.cursor)}, Newer)
               page == ReadPage(found)
               last == page.ids[Len(page.ids)]
           IN  /\ walk.cursor.key \in ring \cup {0}
               /\ walk' = [walk EXCEPT !.seen = @ \o page.ids,
                                       !.phase = IF page.more THEN "sign" ELSE "ended",
                                       !.cursor = IF page.more THEN [time |-> rowTime[last], id |-> last, key |-> 0]
                                                               ELSE NoCursor,
                                       !.page = [more |-> page.more, ring |-> ring]]
    /\ UNCHANGED <<rowTime, rowShown>>

\* Encode signs the next cursor with the newest key of the ring.
SignCursor ==
    /\ walk.phase = "sign"
    /\ \E key \in walk.page.ring :
           /\ \A k \in walk.page.ring : k <= key
           /\ walk' = [walk EXCEPT !.phase = "ask", !.cursor.key = key, !.page = NoPage]
    /\ UNCHANGED <<rowTime, rowShown>>

\* Close zeroed the key between the two: the caller gets an empty cursor.
SignClosed ==
    /\ walk.phase = "sign"
    /\ walk' = [walk EXCEPT !.phase = "closed", !.cursor = NoCursor, !.page = NoPage]
    /\ UNCHANGED <<rowTime, rowShown>>

PageNext ==
    \/ \E i \in RowIds : RowAppears(i) \/ RowLeaves(i)
    \/ BeginWalk \/ AskPage \/ SignCursor \/ SignClosed

PageFairness == WF_pageVars(AskPage) /\ WF_pageVars(SignCursor \/ SignClosed)

PageSpec == PageInit /\ [][PageNext]_pageVars /\ PageFairness

-------------------------------------------------------------------------------
\* A walk returns no row twice wherever rows are inserted meanwhile, and when it reached its
\* last page it has returned every row that was listed from its start to its end.
WalkIsExact ==
    /\ IsInjective(walk.seen)
    /\ walk.phase = "ended" => walk.steady \subseteq ToSet(walk.seen)

PageSettled == walk.phase \in {"idle", "ended", "closed"}

-------------------------------------------------------------------------------
(***************************************************************************)
(* data/lock/pgadvisory: session-scoped advisory locks on dedicated        *)
(* connections of a pool, and transaction-scoped ones.  PostgreSQL grants  *)
(* a session lock to a session again that already holds it, and keeps it   *)
(* until it is unlocked as often or the session ends: a connection that    *)
(* returns to the pool with a lock would share it with its next user.      *)
(***************************************************************************)

CONSTANTS LockUsers, Sessions

VARIABLES
    session,    \* per session: alive or ended, locks held at session and at transaction scope
    pooled,     \* the connections that wait in the pool
    user        \* per caller: its place and its session

advisoryState == <<session, pooled, user>>
advisoryVars == <<advisoryState, faults>>

NoSession == "none"
UserPlaces == {"idle", "conn", "held", "tx", "txheld", "done"}

AdvisoryTypeOK ==
    /\ session \in [Sessions -> [alive : BOOLEAN, locks : 0 .. Cardinality(LockUsers), xact : BOOLEAN]]
    /\ pooled \subseteq Sessions
    /\ user \in [LockUsers -> [at : UserPlaces, on : Sessions \cup {NoSession}]]
    /\ faults \in 0 .. MaxFaults

Fresh == [alive |-> TRUE, locks |-> 0, xact |-> FALSE]
Ended == [alive |-> FALSE, locks |-> 0, xact |-> FALSE]

AdvisoryInit ==
    /\ session = [s \in Sessions |-> Ended] /\ pooled = {}
    /\ user = [u \in LockUsers |-> [at |-> "idle", on |-> NoSession]] /\ faults = 0

Holding == {s \in Sessions : session[s].locks > 0 \/ session[s].xact}
InUse == {user[u].on : u \in LockUsers} \ {NoSession}

\* sql.DB hands out a pooled connection or opens one, to doAcquire or to the transaction
\* that AcquireTx runs in.
TakeConn(u, scope) ==
    /\ user[u].at = "idle"
    /\ \E s \in Sessions :
        /\ \/ s \in pooled /\ UNCHANGED session
           \/ s \notin pooled \cup InUse /\ session' = [session EXCEPT ![s] = Fresh]
        /\ pooled' = pooled \ {s} /\ user' = [user EXCEPT ![u] = [at |-> scope, on |-> s]]
    /\ UNCHANGED faults

Grants(s) == session[s].alive /\ Holding \subseteq {s}

\* conn.Close: the connection goes back to the pool unless the driver knows it is dead.
CloseConn(u, next) ==
    /\ pooled' = IF session[user[u].on].alive THEN pooled \cup {user[u].on} ELSE pooled
    /\ user' = [user EXCEPT ![u] = [at |-> next, on |-> NoSession]]

\* Fault model of DiscardConn: the connection is closed like a healthy one.
DiscardToPool(u, locks, xact) ==
    /\ session' = [session EXCEPT ![user[u].on] = [@ EXCEPT !.locks = locks, !.xact = xact]]
    /\ CloseConn(u, "done")

\* discardConn: the driver connection is marked bad, so Close ends the session, whatever
\* locks the server has given it by then.
DiscardConn(u, locks, xact) ==
    /\ session' = [session EXCEPT ![user[u].on] = Ended]
    /\ user' = [user EXCEPT ![u] = [at |-> "done", on |-> NoSession]] /\ UNCHANGED pooled

\* doAcquire: pg_try_advisory_lock.  When its answer is lost the server may have granted.
TryLock(u) ==
    LET s == user[u].on
        granted == session[s].locks + 1
    IN /\ user[u].at = "conn"
       /\ \/ /\ Grants(s) /\ session' = [session EXCEPT ![s].locks = granted]
             /\ user' = [user EXCEPT ![u].at = "held"] /\ UNCHANGED <<pooled, faults>>
          \/ /\ session[s].alive /\ ~Grants(s) /\ CloseConn(u, "done") /\ UNCHANGED <<session, faults>>
          \/ /\ Fault /\ session[s].alive
             /\ \E n \in {session[s].locks} \cup (IF Grants(s) THEN {granted} ELSE {}) : DiscardConn(u, n, FALSE)
          \/ ~session[s].alive /\ DiscardConn(u, 0, FALSE) /\ UNCHANGED faults

\* doRelease: pg_advisory_unlock, then the connection goes back to the pool; without a
\* confirmed unlock it is discarded.
Release(u) ==
    LET s == user[u].on
    IN /\ user[u].at = "held"
       /\ \/ /\ session[s].alive /\ session' = [session EXCEPT ![s].locks = @ - 1]
             /\ CloseConn(u, "done") /\ UNCHANGED faults
          \/ /\ Fault /\ session[s].alive
             /\ \E n \in {session[s].locks, session[s].locks - 1} : DiscardConn(u, n, FALSE)
          \/ ~session[s].alive /\ DiscardConn(u, 0, FALSE) /\ UNCHANGED faults

\* AcquireTx: pg_try_advisory_xact_lock in the caller's transaction.
TryLockTx(u) ==
    LET s == user[u].on
    IN /\ user[u].at = "tx" /\ session[s].alive /\ Grants(s)
       /\ session' = [session EXCEPT ![s].xact = TRUE] /\ user' = [user EXCEPT ![u].at = "txheld"]
       /\ UNCHANGED <<pooled, faults>>

\* The transaction ends, with or without the lock, and its connection is free again.
EndTx(u) ==
    /\ user[u].at \in {"tx", "txheld"}
    /\ session' = [session EXCEPT ![user[u].on].xact = FALSE]
    /\ CloseConn(u, "done") /\ UNCHANGED faults

\* A failover or a network partition ends a session; its user does not know yet.
SessionEnds(s) ==
    /\ session[s].alive /\ Fault
    /\ session' = [session EXCEPT ![s] = Ended] /\ pooled' = pooled \ {s} /\ UNCHANGED user

AnotherCall(u) ==
    /\ user[u].at = "done" /\ user' = [user EXCEPT ![u].at = "idle"]
    /\ UNCHANGED <<session, pooled, faults>>

HandleStep(u) == Release(u) \/ EndTx(u) \/ TryLock(u)

AdvisoryNext ==
    \/ \E u \in LockUsers : TakeConn(u, "conn") \/ TakeConn(u, "tx") \/ HandleStep(u) \/ TryLockTx(u) \/ AnotherCall(u)
    \/ \E s \in Sessions : SessionEnds(s)

AdvisorySpec == AdvisoryInit /\ [][AdvisoryNext]_advisoryVars

\* Whoever holds the lock on a live session holds it alone, at either scope, and a
\* connection in the pool holds nothing: no lost answer, failed unlock or dead session
\* leaves a lock on a connection that the pool hands to someone else.
AdvisoryLockIsExclusive ==
    /\ \A s \in pooled : session[s] = Fresh
    /\ \A u, v \in LockUsers :
        /\ {user[u].at, user[v].at} \subseteq {"held", "txheld"} /\ u # v
        => ~session[user[u].on].alive \/ ~session[user[v].on].alive
================================================================================
