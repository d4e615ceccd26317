------------------------------ MODULE SignedLogs ------------------------------
(***************************************************************************)
(* The two signed hash chains: observability/auditlog and data/actionlog.  *)
(***************************************************************************)
EXTENDS FiniteSets, Faults, SequencesExt

-------------------------------------------------------------------------------
(***************************************************************************)
(* observability/auditlog: replicas append to one HMAC chain while the     *)
(* chain key is rotated replica by replica, retention deletes the oldest   *)
(* events, and an auditor verifies from the retention watermark and an     *)
(* anchor.  An HMAC is the number of its event; keys are numbered by age.  *)
(***************************************************************************)

CONSTANTS Replicas, MaxEvents

VARIABLES
    chain,      \* the stored events, oldest first
    appended,   \* events ever sealed
    config,     \* per replica: its sealing key, whether that has an ID, the next keys
    logging,    \* per replica: its step in LogE
    attempt,    \* per replica: the markers LogE has tried for its event
    watermark,  \* the HMAC the retention sink recorded (0: none)
    sweeping,   \* the watermark DeleteBefore returned and the sink has not seen yet
    anchor,     \* the Head the auditor kept
    emptied,    \* retention removed every event, or a crash lost its watermark
    cut         \* the newest events were lost from the store

auditState == <<chain, appended, config, logging, attempt, watermark, sweeping, anchor, emptied, cut>>
auditVars == <<auditState, faults>>

OldKey == 1
NewKey == 2
ChainKeys == {OldKey, NewKey}
MaxAttempts == 3  \* maxRotationAttempts
NoHead == [mac |-> 0, events |-> 0, key |-> OldKey]

\* WithChainKey; WithChainKeys; each with or without WithNextChainKeys, and the new key.
ChainConfigs == {[key |-> OldKey, id |-> FALSE, next |-> {}], [key |-> OldKey, id |-> FALSE, next |-> {NewKey}],
            [key |-> OldKey, id |-> TRUE, next |-> {}], [key |-> OldKey, id |-> TRUE, next |-> {NewKey}],
            [key |-> NewKey, id |-> TRUE, next |-> {}]}

AuditEvents == [mac : 1 .. MaxEvents, prev : 0 .. MaxEvents, key : ChainKeys, keyed : BOOLEAN,
           marker : BOOLEAN]

AuditTypeOK ==
    /\ chain \in Seq(AuditEvents) /\ appended \in 0 .. MaxEvents
    /\ config \in [Replicas -> ChainConfigs] /\ logging \in [Replicas -> {"idle", "append", "marker"}]
    /\ attempt \in [Replicas -> 0 .. MaxAttempts - 1]
    /\ {watermark, sweeping} \subseteq 0 .. MaxEvents
    /\ anchor \in [mac : 0 .. MaxEvents, events : 0 .. MaxEvents, key : ChainKeys]
    /\ {emptied, cut} \subseteq BOOLEAN /\ faults \in 0 .. MaxFaults

AuditInit ==
    /\ chain = <<>> /\ appended = 0
    /\ \E c \in ChainConfigs : c.key = OldKey /\ c.next = {} /\ config = [r \in Replicas |-> c]
    /\ logging = [r \in Replicas |-> "idle"] /\ attempt = [r \in Replicas |-> 0] /\ watermark = 0 /\ sweeping = 0
    /\ anchor = NoHead /\ emptied = FALSE /\ cut = FALSE /\ faults = 0

\* A replica restarts with the next configuration of a rolling rotation; one that skips
\* the step in which it learns the next key is allowed too.
Reconfigure(r) ==
    /\ logging[r] = "idle"
    /\ \E c \in ChainConfigs : /\ c.key > config[r].key \/ (config[r].key = OldKey /\ c.next \ config[r].next # {})
                               /\ config' = [config EXCEPT ![r] = c]
    /\ UNCHANGED <<chain, appended, logging, attempt, watermark, sweeping, anchor, emptied, cut, faults>>

\* sealedBy: a key with an ID verifies both forms, a key without one the unkeyed only.
SealedBy(c, k, e) == e.key = k /\ (e.keyed => c.id \/ k # c.key)

KeyRing(c) == c.next \cup {k \in ChainKeys : k <= c.key}

\* sealerOf: the ring's key that sealed e, if any.
Sealers(c, e) == {k \in KeyRing(c) : SealedBy(c, k, e)}

\* Fault model of sealingKey: the replica always seals with its own key.
SealOwn(c, head, marker) ==
    IF ~marker /\ c.id /\ head = {} THEN "due" ELSE "seal"

\* sealingKey, where head is the set of keys that sealed the head of a non-empty chain:
\* follow a next key, write the marker when the head is of another key, or refuse.
SealingKey(c, head, marker) ==
    CASE chain # <<>> /\ head = {} -> "unknown"
      [] \E k \in head : k > c.key -> IF marker THEN "current" ELSE "follow"
      [] marker /\ c.key \in head -> "current"
      [] ~marker /\ c.id /\ c.key \notin head -> "due"
      [] OTHER -> "seal"

ChainHead == chain[Len(chain)]

\* The next step of LogE; a finished call forgets its attempts.
LogStep(r, step) ==
    /\ logging' = [logging EXCEPT ![r] = step]
    /\ attempt' = [attempt EXCEPT ![r] = IF step = "idle" THEN 0
                                         ELSE IF step = "marker" THEN @ + 1 ELSE @]

\* AppendChained under the store's lock: read the head, seal, insert, commit; a failed
\* commit may have written the event.
AppendSealed(r, k, keyed, marker, step) ==
    /\ appended < MaxEvents
    /\ LET e == [mac |-> appended + 1, key |-> k, keyed |-> keyed, marker |-> marker,
                 prev |-> IF chain = <<>> THEN 0 ELSE ChainHead.mac]
       IN  \/ /\ chain' = Append(chain, e) /\ appended' = appended + 1
              /\ LogStep(r, step) /\ UNCHANGED faults
           \/ /\ Fault /\ LogStep(r, "idle")
              /\ \/ chain' = Append(chain, e) /\ appended' = appended + 1
                 \/ UNCHANGED <<chain, appended>>

\* One step of LogE: the first try of an event, the rotation marker that was due before
\* it, or another try.
LogE(r) ==
    LET c == config[r]
        marker == logging[r] = "marker"
        head == IF chain = <<>> THEN {} ELSE Sealers(c, ChainHead)
        key == SealingKey(c, head, marker)
    IN  /\ CASE key = "follow" -> AppendSealed(r, CHOOSE k \in head : TRUE, TRUE, FALSE, "idle")
             [] key = "seal" -> AppendSealed(r, c.key, c.id, marker, IF marker THEN "append" ELSE "idle")
             [] OTHER -> /\ LogStep(r, CASE key = "current" -> "append"
                                         [] key = "due" /\ attempt[r] + 1 < MaxAttempts -> "marker"
                                         [] OTHER -> "idle")
                         /\ UNCHANGED <<chain, appended, faults>>
        /\ UNCHANGED <<config, watermark, sweeping, anchor, emptied, cut>>

\* DeleteBefore: a contiguous prefix, in one transaction under the chain's lock.
DeleteBefore ==
    /\ sweeping = 0
    /\ \E n \in 1 .. Len(chain) :
           /\ chain' = SubSeq(chain, n + 1, Len(chain))
           /\ \/ sweeping' = chain[n].mac /\ UNCHANGED faults /\ emptied' = (emptied \/ n = Len(chain))
              \/ Fault /\ UNCHANGED sweeping /\ emptied' = TRUE
    /\ UNCHANGED <<appended, config, logging, attempt, watermark, anchor, cut>>

\* The watermark sink of RetentionJob.
RecordWatermark ==
    /\ sweeping # 0 /\ watermark' = sweeping /\ sweeping' = 0
    /\ UNCHANGED <<chain, appended, config, logging, attempt, anchor, emptied, cut, faults>>

\* External: the store loses its newest events (a restore from a backup).
LoseTail ==
    /\ Fault /\ cut' = TRUE
    /\ \E n \in 0 .. Len(chain) - 1 : chain' = SubSeq(chain, 1, n)
    /\ UNCHANGED <<appended, config, logging, attempt, watermark, sweeping, anchor, emptied>>

-------------------------------------------------------------------------------
\* chainVerifier with every key listed, both with an ID, newest first.  What step knows
\* after events 1 .. i - 1: floor, rotated, anchored.
Rotated(i) == \E j \in 1 .. i - 1 : chain[j].marker
Anchored(i) == anchor.mac # 0 /\ (anchor.mac = watermark \/ \E j \in 1 .. i - 1 : chain[j].mac = anchor.mac)

LinkOK(i) == chain[i].prev = IF i = 1 THEN watermark ELSE chain[i - 1].mac

AnchorOK(i) ==
    IF Anchored(i) THEN chain[i].key >= anchor.key
    ELSE chain[i].mac = anchor.mac => /\ chain[i].key = anchor.key
                                      /\ watermark = 0 => i = anchor.events

KeyOK(i) ==
    /\ i > 1 => chain[i].key >= chain[i - 1].key
    /\ Rotated(i) => chain[i].keyed
    /\ chain[i].marker => chain[i].keyed
    /\ i > 1 /\ ~chain[i].marker => chain[i].key = chain[i - 1].key

\* Fault model of finish: an anchor that was not met is forgotten.
FinishAnyway == "ok"

\* finish: an anchored event that is gone was pruned, or the tail was cut.
Finish ==
    IF anchor.mac = 0 \/ Anchored(Len(chain) + 1) THEN "ok"
    ELSE IF watermark # 0 /\ \A i \in 1 .. Len(chain) : chain[i].key >= anchor.key THEN "pruned"
    ELSE "broken"

Verdict ==
    IF \A i \in 1 .. Len(chain) : LinkOK(i) /\ AnchorOK(i) /\ KeyOK(i) THEN Finish ELSE "broken"

\* Logger.Verify by an auditor who keeps the Head it returns.
VerifyChain ==
    /\ Verdict = "ok"
    /\ anchor' = IF chain # <<>> THEN [mac |-> ChainHead.mac, events |-> Len(chain), key |-> ChainHead.key]
                 ELSE IF watermark # 0 THEN [mac |-> watermark, events |-> 0, key |-> NewKey] ELSE NoHead
    /\ UNCHANGED <<chain, appended, config, logging, attempt, watermark, sweeping, emptied, cut, faults>>

AuditNext ==
    \/ \E r \in Replicas : Reconfigure(r) \/ LogE(r)
    \/ DeleteBefore \/ RecordWatermark \/ LoseTail \/ VerifyChain

AuditSpec == AuditInit /\ [][AuditNext]_auditVars

-------------------------------------------------------------------------------
\* No false alarm: a chain that only the replicas and retention touched verifies, in the
\* middle of a rotation too, or its anchor was pruned.  Retention leaves an event, and its
\* watermark has reached the sink.
ChainVerifies == ~cut /\ ~emptied /\ sweeping = 0 => Verdict \in {"ok", "pruned"}

\* A lost tail is noticed: without retention, when the anchored event is gone the chain
\* does not verify again, whatever is appended afterwards.
LostTailIsNoticed ==
    /\ watermark = 0 /\ sweeping = 0 /\ ~emptied /\ anchor.mac # 0
    /\ \A i \in 1 .. Len(chain) : chain[i].mac # anchor.mac
    => Verdict = "broken"

\* retention.go has operators persist the watermark "so [VerifyChainFrom] can re-anchor
\* the chain after pruning".
ReanchorsAfterPruning == ~cut /\ sweeping = 0 /\ faults = 0 => Verdict # "broken"

-------------------------------------------------------------------------------
(***************************************************************************)
(* data/actionlog: concurrent Appends to one tenant's signed hash chain.   *)
(* The memory store serialises them with a mutex per tenant that is made   *)
(* on first use and that PruneTenants may drop; Postgres with an advisory  *)
(* lock, and its commit may fail on either side of the write.  An entry's  *)
(* hash is its id.                                                         *)
(***************************************************************************)

CONSTANTS Appenders, EntryIds

Mutexes == 1 .. Cardinality(Appenders) + 1

VARIABLES
    logStore,   \* "memory" or "postgres"
    entries,    \* the stored chain in insertion order
    signKey,    \* the current signature key
    tenantMu,   \* memory: the mutex registered for the tenant (0: none)
    holder,     \* per mutex: who holds it
    appender    \* per appender: its call

actionState == <<logStore, entries, signKey, tenantMu, holder, appender>>
actionVars == <<actionState, faults>>

Nobody == "nobody"
NoEntry == "none"
Calls == {"idle", "load", "store", "lock", "build", "insert"}
NoCall == [step |-> "idle", id |-> NoEntry, key |-> 0, mutex |-> 0, seq |-> 0, prev |-> NoEntry]

ActionTypeOK ==
    /\ logStore \in {"memory", "postgres"} /\ signKey \in 1 .. 2
    /\ tenantMu \in Mutexes \cup {0}
    /\ holder \in [Mutexes -> Appenders \cup {Nobody}]
    /\ \A a \in Appenders : /\ appender[a].step \in Calls /\ appender[a].id \in EntryIds \cup {NoEntry}
                            /\ appender[a].mutex \in Mutexes \cup {0}
    /\ faults \in 0 .. MaxFaults

ActionInit ==
    /\ logStore \in {"memory", "postgres"} /\ entries = <<>> /\ signKey = 1
    /\ tenantMu = IF logStore = "postgres" THEN 1 ELSE 0
    /\ holder = [m \in Mutexes |-> Nobody]
    /\ appender = [a \in Appenders |-> NoCall] /\ faults = 0

AtCall(a, step) == appender[a].step = step
CallTo(a, step) == appender' = [appender EXCEPT ![a].step = step]

\* Append resolves the current key before it asks the store; the caller may supply an id
\* that it or another caller used before.
BeginAppend(a, id) ==
    /\ AtCall(a, "idle")
    /\ appender' = [appender EXCEPT ![a] = [NoCall EXCEPT !.step = "load", !.id = id, !.key = signKey]]
    /\ UNCHANGED <<logStore, entries, signKey, tenantMu, holder, faults>>

RotateKey ==
    /\ signKey = 1 /\ signKey' = 2
    /\ UNCHANGED <<logStore, entries, tenantMu, holder, appender, faults>>

\* lockFor's Load: the tenant's mutex when there is one.
LoadMutex(a) ==
    /\ AtCall(a, "load")
    /\ appender' = [appender EXCEPT ![a].step = IF tenantMu = 0 THEN "store" ELSE "lock",
                                    ![a].mutex = tenantMu]
    /\ UNCHANGED <<logStore, entries, signKey, tenantMu, holder, faults>>

\* Fault model of lockFor: Store instead of LoadOrStore.
StoreOwn(a, m) == tenantMu' = m /\ appender' = [appender EXCEPT ![a].step = "lock", ![a].mutex = m]

\* LoadOrStore: the first appender's mutex wins.
LoadOrStore(a, m) ==
    /\ tenantMu' = IF tenantMu = 0 THEN m ELSE tenantMu
    /\ appender' = [appender EXCEPT ![a].step = "lock", ![a].mutex = tenantMu']

StoreMutex(a) ==
    /\ AtCall(a, "store")
    /\ \E m \in Mutexes : /\ m # tenantMu /\ \A b \in Appenders : appender[b].mutex # m
                          /\ LoadOrStore(a, m)
    /\ UNCHANGED <<logStore, entries, signKey, holder, faults>>

\* PruneTenants drops the mutex of a tenant without entries; its callers guarantee that no
\* AppendChained is in flight.
PruneTenants ==
    /\ logStore = "memory" /\ entries = <<>> /\ tenantMu # 0
    /\ \A a \in Appenders : AtCall(a, "idle")
    /\ tenantMu' = 0
    /\ UNCHANGED <<logStore, entries, signKey, holder, appender, faults>>

Lock(a) ==
    /\ AtCall(a, "lock") /\ holder[appender[a].mutex] = Nobody
    /\ holder' = [holder EXCEPT ![appender[a].mutex] = a]
    /\ CallTo(a, "build")
    /\ UNCHANGED <<logStore, entries, signKey, tenantMu, faults>>

\* The latest entry, and what build makes of it.
Build(a) ==
    /\ AtCall(a, "build")
    /\ appender' = [appender EXCEPT ![a].step = "insert", ![a].seq = Len(entries) + 1,
                                    ![a].prev = IF entries = <<>> THEN NoEntry ELSE Last(entries).id]
    /\ UNCHANGED <<logStore, entries, signKey, tenantMu, holder, faults>>

\* Fault model of BuildFails: an early return without the unlock.
BuildFailsLocked(a) ==
    /\ AtCall(a, "build")
    /\ appender' = [appender EXCEPT ![a] = NoCall]
    /\ UNCHANGED <<logStore, entries, signKey, tenantMu, holder, faults>>

\* The context is done, or build refuses the entry: the lock is given back.
BuildFails(a) ==
    /\ AtCall(a, "build")
    /\ holder' = [holder EXCEPT ![appender[a].mutex] = Nobody]
    /\ appender' = [appender EXCEPT ![a] = NoCall]
    /\ UNCHANGED <<logStore, entries, signKey, tenantMu, faults>>

\* Fault model of the insert: the id is not checked.
NoneTaken(id) == FALSE

IdTaken(id) == \E i \in DOMAIN entries : entries[i].id = id

\* Insert and commit, or ErrDuplicateID; then the lock is given back.  A failed commit of
\* Postgres may have written the entry.
Insert(a) ==
    LET c == appender[a]
        e == [id |-> c.id, seq |-> c.seq, prev |-> c.prev, key |-> c.key]
    IN  /\ AtCall(a, "insert")
        /\ \/ IdTaken(c.id) /\ UNCHANGED <<entries, faults>>
           \/ ~IdTaken(c.id) /\ entries' = Append(entries, e)
              /\ (UNCHANGED faults \/ (logStore = "postgres" /\ Fault))
           \/ UNCHANGED entries /\ logStore = "postgres" /\ Fault
        /\ holder' = [holder EXCEPT ![c.mutex] = Nobody]
        /\ appender' = [appender EXCEPT ![a] = NoCall]
        /\ UNCHANGED <<logStore, signKey, tenantMu>>

AppendStep(a) == LoadMutex(a) \/ StoreMutex(a) \/ Build(a) \/ BuildFails(a) \/ Insert(a)

ActionNext ==
    \/ \E a \in Appenders : AppendStep(a) \/ Lock(a) \/ \E id \in EntryIds : BeginAppend(a, id)
    \/ RotateKey \/ PruneTenants

\* A mutex is handed on to a waiting goroutine.
ActionFairness ==
    \A a \in Appenders : WF_actionVars(AppendStep(a)) /\ SF_actionVars(Lock(a))

ActionSpec == ActionInit /\ [][ActionNext]_actionVars /\ ActionFairness

-------------------------------------------------------------------------------
\* VerifyChain accepts what concurrent Appends wrote: each entry is one after the entry it
\* was linked to, no two share a sequence number or an id, whatever commits failed.
ActionChainIntact ==
    /\ \A i \in DOMAIN entries :
           /\ entries[i].seq = i
           /\ entries[i].prev = IF i = 1 THEN NoEntry ELSE entries[i - 1].id
           /\ entries[i].key <= signKey
    /\ \A i, j \in DOMAIN entries : entries[i].id = entries[j].id => i = j

ActionSettled == \E a \in Appenders : AtCall(a, "idle")
================================================================================
