-------------------------------- MODULE MCData --------------------------------
(***************************************************************************)
(* The data components in one model: caches, budgets, logs, approvals,     *)
(* queues and limiters, locks, and object stores. They have no state in    *)
(* common: a behaviour picks its subject and leaves the others in an       *)
(* initial state.                                                          *)
(***************************************************************************)
EXTENDS Caches, Limits, SignedLogs, WorkControl, SftpSession, ObjectStorage, UploadPipeline

\* Bounds: the faults of a behaviour about some of the subjects.
CONSTANTS CacheFaults, AuditFaults, ApprovalFaults, ActionFaults, QueueFaults,
          AdvisoryFaults, SftpFaults, FileFaults, EncFaults, AtomicFaults

VARIABLE subject

vars == <<subject, cacheState, budgetState, auditState, pageVars, approvalState,
          actionState, queueState, limitVars, windowVars, advisoryState, memcacheVars,
          rcacheVars, sftpState, fileState, retryState, encState, uploadState, atomicState,
          faults>>

Init ==
    /\ subject \in {"compute", "budget", "audit", "pages", "approval", "actionlog",
                    "queue", "ratelimit", "windows", "advisory", "memcache", "rediscache",
                    "sftp", "files", "retry", "encryption", "upload", "atomicfile"}
    /\ CacheInit
    /\ BudgetInit /\ (subject # "budget" => backend = "memory")
    /\ AuditInit /\ (subject # "audit" => \A r \in Replicas : ~config[r].id)
    /\ PageInit /\ (subject # "pages" => rowTime = [i \in RowIds |-> 0] /\ rowShown = {})
    /\ ApprovalInit
    /\ ActionInit /\ (subject # "actionlog" => logStore = "memory")
    /\ QueueInit /\ (subject # "queue" => broker = "asynq")
    /\ LimitInit /\ (subject # "ratelimit" => limiter = "redis")
    /\ WindowInit /\ (subject # "windows" => kind = "ip")
    /\ AdvisoryInit /\ MemcacheInit
    /\ RcacheInit /\ (subject # "rediscache" => redis = [k \in CacheKeys |-> "absent"])
    /\ SftpInit
    /\ FileInit /\ (subject # "files" => objectBackend = "local")
    /\ RetryInit /\ (subject # "retry" => policy = (CHOOSE p \in RetryPolicies : TRUE) /\ body = [seekable |-> TRUE, start |-> 0, pos |-> 0])
    /\ EncInit
    /\ UploadInit /\ (subject # "upload" => sent = <<>> /\ validators = <<>>)
    /\ AtomicInit

\* Only the subject moves.
Only(chosen) ==
    /\ chosen # "compute" => UNCHANGED cacheState
    /\ chosen # "budget" => UNCHANGED budgetState
    /\ chosen # "audit" => UNCHANGED auditState
    /\ chosen # "pages" => UNCHANGED pageVars
    /\ chosen # "approval" => UNCHANGED approvalState
    /\ chosen # "actionlog" => UNCHANGED actionState
    /\ chosen # "queue" => UNCHANGED queueState
    /\ chosen # "ratelimit" => UNCHANGED limitVars
    /\ chosen # "windows" => UNCHANGED windowVars
    /\ chosen # "advisory" => UNCHANGED advisoryState
    /\ chosen # "memcache" => UNCHANGED memcacheVars
    /\ chosen # "rediscache" => UNCHANGED rcacheVars
    /\ chosen # "sftp" => UNCHANGED sftpState
    /\ chosen # "files" => UNCHANGED fileState
    /\ chosen # "retry" => UNCHANGED retryState
    /\ chosen # "encryption" => UNCHANGED encState
    /\ chosen # "upload" => UNCHANGED uploadState
    /\ chosen # "atomicfile" => UNCHANGED atomicState

Next ==
    /\ UNCHANGED subject /\ Only(subject)
    /\ \/ subject = "compute" /\ CacheNext /\ faults' <= CacheFaults
       \/ subject = "budget" /\ BudgetNext /\ UNCHANGED faults
       \/ subject = "audit" /\ AuditNext /\ faults' <= AuditFaults
       \/ subject = "pages" /\ PageNext /\ UNCHANGED faults
       \/ subject = "approval" /\ ApprovalNext /\ faults' <= ApprovalFaults
       \/ subject = "actionlog" /\ ActionNext /\ faults' <= ActionFaults
       \/ subject = "queue" /\ QueueNext /\ faults' <= QueueFaults
       \/ subject = "ratelimit" /\ LimitNext /\ UNCHANGED faults
       \/ subject = "windows" /\ WindowNext /\ UNCHANGED faults
       \/ subject = "advisory" /\ AdvisoryNext /\ faults' <= AdvisoryFaults
       \/ subject = "memcache" /\ MemcacheNext /\ UNCHANGED faults
       \/ subject = "rediscache" /\ RcacheNext /\ UNCHANGED faults
       \/ subject = "sftp" /\ SftpNext /\ faults' <= SftpFaults
       \/ subject = "files" /\ FileNext /\ faults' <= FileFaults
       \/ subject = "retry" /\ RetryNext
       \/ subject = "encryption" /\ EncNext /\ faults' <= EncFaults
       \/ subject = "upload" /\ UploadNext /\ UNCHANGED faults
       \/ subject = "atomicfile" /\ AtomicNext /\ faults' <= AtomicFaults

\* The fairness of each component's specification, for the one that moves.
Fairness ==
    /\ \A c \in Getters : WF_cacheVars(subject = "compute" /\ GetterStep(c))
    /\ WF_cacheVars(subject = "compute" /\ Refresh)
    /\ WF_cacheVars(subject = "compute" /\ FlightStep)
    /\ WF_cacheVars(subject = "compute" /\ CloserStep)
    /\ WF_pageVars(subject = "pages" /\ AskPage)
    /\ WF_pageVars(subject = "pages" /\ (SignCursor \/ SignClosed))
    /\ \A a \in Appenders : WF_actionVars(subject = "actionlog" /\ AppendStep(a))
    /\ \A a \in Appenders : SF_actionVars(subject = "actionlog" /\ Lock(a))
    /\ WF_queueVars(subject = "queue" /\ (EnqueueBatch \/ Enqueue \/ StartBatchAgain \/ CallerDone))
    /\ \A i \in Msgs : WF_queueVars(subject = "queue" /\ (TakeTask(i) \/ HandleTask(i) \/ FinishTask(i)))
    /\ \A p \in Callers : WF_sftpVars(subject = "sftp" /\ OpStep(p))
    /\ WF_sftpVars(subject = "sftp" /\ ProbeStep)
    /\ WF_sftpVars(subject = "sftp" /\ CloseEnds)
    /\ \A u \in EncUsers : WF_encVars(subject = "encryption" /\ CryptStep(u))

Spec == Init /\ [][Next]_vars /\ Fairness

\* Every component's variables keep their types.
DataTypeOK ==
    /\ CacheTypeOK /\ BudgetTypeOK /\ AuditTypeOK /\ PageTypeOK /\ ApprovalTypeOK
    /\ ActionTypeOK /\ QueueTypeOK /\ LimitTypeOK /\ WindowTypeOK /\ AdvisoryTypeOK
    /\ MemcacheTypeOK /\ RcacheTypeOK /\ SftpTypeOK /\ FileTypeOK /\ RetryTypeOK
    /\ EncTypeOK /\ UploadTypeOK /\ AtomicTypeOK

\* What a caller was told is stored stands: decisions, queued batches, objects and state
\* files keep what was acknowledged, whole and as it was sent, through retries, failed
\* commits, interleaved writers and power losses.
AcknowledgedStands ==
    /\ DecisionsStand /\ BatchIsAccepted /\ AckedPutSurvives /\ VersionNamesOneContent
    /\ StoredIsTheBody /\ StoredIsTheUpload /\ LoadsWholeValue /\ SavedSurvives

\* A log that only its writers and retention touched verifies, one that lost its tail
\* does not, and a walk over its pages misses and repeats nothing, whatever is appended,
\* rotated, pruned or lost meanwhile.
LogsVerify ==
    /\ ChainVerifies /\ LostTailIsNoticed /\ ActionChainIntact /\ WalkIsExact

\* What is held or used up has an owner and a bound: an advisory lock is held on one session
\* and never returns to the pool, an open connection or slot belongs to someone who will
\* close it, and what is retried quickly or taken from a queue again stays within its limit.
HoldsAreBounded ==
    /\ AdvisoryLockIsExclusive /\ OpenSessionIsOwned /\ CryptSlotsExact
    /\ QuickFailuresAreBounded /\ TasksEndForAReason

Settled ==
    CASE subject = "compute" -> CacheSettled
      [] subject = "pages" -> PageSettled
      [] subject = "actionlog" -> ActionSettled
      [] subject = "queue" -> QueueSettled
      [] subject = "sftp" -> SftpSettled
      [] subject = "encryption" -> EncSettled
      [] OTHER -> TRUE

\* Whatever is the subject comes to rest: a cached computation is answered, a page walk
\* ends, an append returns, every task ends, waiters for a session or a slot get on, a
\* closed backend is closed.
DataSettles == []<>Settled
===============================================================================
