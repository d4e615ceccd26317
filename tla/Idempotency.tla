------------------------------ MODULE Idempotency ------------------------------
(***************************************************************************)
(* The HTTP idempotency middleware (httpx/middleware/idempotency) over its *)
(* stores: Postgres (data/idempotency/pgstore), Redis (.../redisstore) and *)
(* memory (memorystore.go).  All requests carry the same key, so the store *)
(* is one slot: a lock, a cached response, or nothing.  Every SQL          *)
(* statement, Redis command, Lua script and critical section of the memory *)
(* store is one atomic step.                                               *)
(*                                                                         *)
(* A response is known by the request whose handler wrote it.  expires_at  *)
(* is kept as the ticks the slot has left.  Servers crash, store calls     *)
(* report errors whether or not they took effect, and a client sends its   *)
(* request again until it has an answer of substance.                      *)
(***************************************************************************)
EXTENDS Naturals

CONSTANTS
    Requests,
    Fingerprint,      \* the body fingerprint of each request
    NoFp,             \* a nil fingerprint: comparison is off
    Tokens, NoToken, NoRequest,
    Stores,           \* which of "pg", "redis", "memory"
    LockTicks, CacheTicks,
    StoreFaultKinds,  \* which of "crash", "store", "handler" happen
    MaxStoreFaults,   \* bound: how many faults happen
    Cap               \* bound: where the ghost counters saturate

IdempotencyAssumption ==
    /\ NoToken \notin Tokens /\ NoRequest \notin Requests
    /\ LockTicks \in Nat \ {0} /\ CacheTicks \in Nat \ {0}
    /\ MaxStoreFaults \in Nat /\ Cap \in Nat
    /\ Tokens # {}  \* and there are more of them than requests: no requests hold them all
    /\ \A held \in [Requests -> Tokens] : \E t \in Tokens : \A r \in Requests : held[r] # t

VARIABLES
    store,     \* the store in use
    slot,      \* what it holds under the key
    place,     \* where each request is in Middleware
    token,     \* the token its TryLock returned
    got,       \* whose response it was answered with
    runs,      \* handler invocations
    releases,  \* locks given up by their owner
    lapses,    \* how often a slot expired
    storeFaults

requestVars == <<store, slot, place, token, got, runs, releases, lapses, storeFaults>>

Places == {"new", "lock", "inspect", "reget", "handler", "set", "unlock",
           "answered", "rejected", "turned away"}

Fps == {Fingerprint[r] : r \in Requests} \cup {NoFp}

Longest == IF LockTicks > CacheTicks THEN LockTicks ELSE CacheTicks

Slot == [kind : {"free", "lock", "resp"}, token : Tokens \cup {NoToken}, fp : Fps,
         by : Requests \cup {NoRequest}, ttl : 0 .. Longest]

Free == [kind |-> "free", token |-> NoToken, fp |-> NoFp, by |-> NoRequest, ttl |-> 0]

RequestTypeOK ==
    /\ store \in Stores
    /\ slot \in Slot
    /\ place \in [Requests -> Places]
    /\ token \in [Requests -> Tokens \cup {NoToken}]
    /\ got \in [Requests -> Requests \cup {NoRequest}]
    /\ runs \in 0 .. Cap /\ releases \in 0 .. Cap /\ lapses \in 0 .. Cap
    /\ storeFaults \in 0 .. MaxStoreFaults

RequestInit ==
    /\ store \in Stores
    /\ slot = Free
    /\ place = [r \in Requests |-> "new"]
    /\ token = [r \in Requests |-> NoToken]
    /\ got = [r \in Requests |-> NoRequest]
    /\ runs = 0 /\ releases = 0 /\ lapses = 0 /\ storeFaults = 0

StoreFault(kind) ==
    /\ kind \in StoreFaultKinds
    /\ storeFaults < MaxStoreFaults
    /\ storeFaults' = storeFaults + 1

Up(n) == IF n < Cap THEN n + 1 ELSE n

--------------------------------------------------------------------------------
(* The stores. *)

Live == slot.ttl > 0

\* pgstore and the envelope of redisstore fail closed: a stored NULL differs.
Differs(f) == f # NoFp /\ slot.fp # f

\* Fault model of doGet: the fingerprint is not compared.
PgGetAny(f) == IF slot.kind # "resp" \/ ~Live THEN "miss" ELSE "hit"

\* doGet of pgstore: only a live row with a status code is a cached response.
PgGet(f) ==
    IF slot.kind # "resp" \/ ~Live THEN "miss"
    ELSE IF Differs(f) THEN "mismatch" ELSE "hit"

\* doGet of redisstore also compares the fingerprint of a lock.
RedisGet(f) ==
    IF slot.kind = "free" THEN "miss"
    ELSE IF slot.kind = "lock"
         THEN IF Differs(f) /\ slot.fp # NoFp THEN "mismatch" ELSE "miss"
         ELSE IF Differs(f) THEN "mismatch" ELSE "hit"

\* Get of MemoryStore looks at items alone: a lock, kept in a map of its own, is a
\* miss, and so is an item that has expired and was not swept.
MemGet(f) ==
    IF ~(slot.kind = "resp" /\ Live) THEN "miss"
    ELSE IF Differs(f) THEN "mismatch" ELSE "hit"

StoreGet(r) == LET f == Fingerprint[r] IN
         CASE store = "pg" -> PgGet(f) [] store = "redis" -> RedisGet(f) [] OTHER -> MemGet(f)

\* Fault model of doTryLock: an expired row is not overwritten.
PgNeverLockable == slot.kind = "free"

\* The upsert of doTryLock overwrites an expired row only.
PgLockable == slot.kind = "free" \/ ~Live

\* SET NX; Redis has removed what expired.
RedisLockable == slot.kind = "free"

\* TryLock of MemoryStore: neither a live item nor a live lock.  What expired is
\* overwritten, or hidden by the lock that replaces it.
MemLockable == slot.kind \in {"lock", "resp"} => ~Live

Lockable == CASE store = "pg" -> PgLockable
              [] store = "redis" -> RedisLockable
              [] OTHER -> MemLockable

\* GenerateToken: a token nobody holds, no matter which.
FreshToken == CHOOSE t \in Tokens : t # slot.token /\ \A r \in Requests : t # token[r]

Locked(r, t) == [kind |-> "lock", token |-> t, fp |-> Fingerprint[r], by |-> NoRequest,
                 ttl |-> LockTicks]

\* Set succeeds for the token of the live lock: owner_token = $6 AND expires_at >
\* now(), setIfTokenScript, or the entry of locks, which the others' Set deletes.
Sets(r) == slot.token = token[r] /\ Live /\ (store # "pg" => slot.kind = "lock")

Cached(r) == [slot EXCEPT !.kind = "resp", !.by = r, !.ttl = CacheTicks]

\* Fault model of Unlock: any lock is deleted.
UnlocksAny(r) == slot.kind = "lock"

\* Unlock deletes the caller's own lock, never a response.
Unlocks(r) == slot.kind = "lock" /\ slot.token = token[r]

\* A statement that reports an error may have been executed; a MemoryStore refuses
\* (the context has ended) before it does anything.
MaybeDone(s) == IF store = "memory" THEN {slot} ELSE {slot, s}

--------------------------------------------------------------------------------
(* The middleware. *)

RequestGoto(r, where) == place' = [place EXCEPT ![r] = where]

Ghosts == <<runs, releases, lapses>>

\* An answer of the middleware itself, or of the cache.
Reject(r) == RequestGoto(r, "rejected") /\ UNCHANGED got

TurnAway(r) == RequestGoto(r, "turned away") /\ UNCHANGED got

Replay(r) == RequestGoto(r, "answered") /\ got' = [got EXCEPT ![r] = slot.by]

\* The first Get: 422, a replay, or on to TryLock.  An error is a 500.
FirstGet(r) ==
    /\ place[r] = "new"
    /\ \/ /\ UNCHANGED storeFaults
          /\ \/ StoreGet(r) = "mismatch" /\ Reject(r)
             \/ StoreGet(r) = "hit" /\ Replay(r)
             \/ StoreGet(r) = "miss" /\ RequestGoto(r, "lock") /\ UNCHANGED got
       \/ StoreFault("store") /\ TurnAway(r)
    /\ UNCHANGED <<store, slot, token, Ghosts>>

\* TryLock.  Postgres reports the fingerprint of the live row with the same statement,
\* MemoryStore compares it in the same critical section, Redis needs another command.
\* On an error the lock may be taken, by a token nobody knows.
TryLock(r) ==
    /\ place[r] = "lock"
    /\ \/ /\ Lockable
          /\ slot' = Locked(r, FreshToken) /\ token' = [token EXCEPT ![r] = FreshToken]
          /\ RequestGoto(r, "handler") /\ runs' = Up(runs)
          /\ UNCHANGED <<got, storeFaults>>
       \/ /\ ~Lockable
          /\ \/ store # "redis" /\ Differs(Fingerprint[r]) /\ Reject(r)
             \/ store # "redis" /\ ~Differs(Fingerprint[r]) /\ RequestGoto(r, "reget") /\ UNCHANGED got
             \/ store = "redis" /\ RequestGoto(r, "inspect") /\ UNCHANGED got
          /\ UNCHANGED <<slot, token, runs, storeFaults>>
       \/ /\ StoreFault("store") /\ TurnAway(r)
          /\ slot' \in MaybeDone(IF Lockable THEN Locked(r, FreshToken) ELSE slot)
          /\ UNCHANGED <<token, runs>>
    /\ UNCHANGED <<store, releases, lapses>>

\* The rest of doTryLock in redisstore, after SET NX failed: the value may have
\* changed or gone since.
Inspect(r) ==
    /\ place[r] = "inspect"
    /\ \/ /\ UNCHANGED storeFaults
          /\ IF slot.kind # "free" /\ slot.fp # NoFp /\ Differs(Fingerprint[r])
             THEN Reject(r) ELSE RequestGoto(r, "reget") /\ UNCHANGED got
       \/ StoreFault("store") /\ TurnAway(r)
    /\ UNCHANGED <<store, slot, token, Ghosts>>

\* The Get after a contended TryLock: 422, a replay, or 409.
SecondGet(r) ==
    /\ place[r] = "reget"
    /\ \/ /\ UNCHANGED storeFaults
          /\ \/ StoreGet(r) = "mismatch" /\ Reject(r)
             \/ StoreGet(r) = "hit" /\ Replay(r)
             \/ StoreGet(r) = "miss" /\ TurnAway(r)
       \/ StoreFault("store") /\ TurnAway(r)
    /\ UNCHANGED <<store, slot, token, Ghosts>>

\* The handler ends: its response is sent, to be cached, or sent and not to be
\* cached (hijacked, too large), or it panics or ends with a status the caller
\* opted out of caching, which the client sends again.
Handler(r) ==
    /\ place[r] = "handler"
    /\ \/ RequestGoto(r, "set") /\ got' = [got EXCEPT ![r] = r] /\ UNCHANGED storeFaults
       \/ RequestGoto(r, "unlock") /\ got' = [got EXCEPT ![r] = r] /\ UNCHANGED storeFaults
       \/ RequestGoto(r, "unlock") /\ StoreFault("handler") /\ UNCHANGED got
    /\ UNCHANGED <<store, slot, token, Ghosts>>

Done(r) == /\ RequestGoto(r, IF got[r] = r THEN "answered" ELSE "turned away")
           /\ token' = [token EXCEPT ![r] = NoToken]

\* Set: cached, ErrLockLost, or an error after which the lock, if it is still the
\* caller's, stays until it expires.
Set(r) ==
    /\ place[r] = "set"
    /\ \/ slot' = (IF Sets(r) THEN Cached(r) ELSE slot) /\ UNCHANGED storeFaults
       \/ StoreFault("store") /\ slot' \in MaybeDone(IF Sets(r) THEN Cached(r) ELSE slot)
    /\ Done(r)
    /\ UNCHANGED <<store, got, Ghosts>>

Unlock(r) ==
    /\ place[r] = "unlock"
    /\ \/ slot' = (IF Unlocks(r) THEN Free ELSE slot) /\ UNCHANGED storeFaults
       \/ StoreFault("store") /\ slot' \in MaybeDone(IF Unlocks(r) THEN Free ELSE slot)
    /\ releases' = IF slot.token = token[r] THEN Up(releases) ELSE releases
    /\ Done(r)
    /\ UNCHANGED <<store, got, runs, lapses>>

\* The server dies with the request.  A MemoryStore dies with it, and nothing is left
\* to go wrong.
ServerCrash(r) ==
    /\ store # "memory"
    /\ place[r] \in {"lock", "inspect", "reget", "handler", "set", "unlock"}
    /\ StoreFault("crash")
    /\ Done(r)
    /\ UNCHANGED <<store, slot, got, Ghosts>>

\* The client sends the request again after a 409, a 500 or a broken connection.
Retry(r) ==
    /\ place[r] = "turned away"
    /\ RequestGoto(r, "new")
    /\ UNCHANGED <<store, slot, token, got, Ghosts, storeFaults>>

\* Fault model of DeleteExpired: responses are deleted whatever their expiry.
DeleteCached ==
    /\ slot.kind = "resp"
    /\ slot' = Free
    /\ UNCHANGED <<store, place, token, got, Ghosts, storeFaults>>

\* DeleteExpired of pgstore; the sweeps of MemoryStore (Run, and every hundredth Set
\* and TryLock).
DeleteExpired ==
    /\ slot.kind # "free" /\ ~Live
    /\ slot' = Free
    /\ UNCHANGED <<store, place, token, got, Ghosts, storeFaults>>

\* Time passes; Redis removes what expires.
StoreTick ==
    /\ Live
    /\ slot' = IF slot.ttl = 1 /\ store = "redis" THEN Free ELSE [slot EXCEPT !.ttl = @ - 1]
    /\ lapses' = IF slot.ttl = 1 THEN Up(lapses) ELSE lapses
    /\ UNCHANGED <<store, place, token, got, runs, releases, storeFaults>>

RequestStep(r) ==
    \/ FirstGet(r) \/ TryLock(r) \/ Inspect(r) \/ SecondGet(r)
    \/ Handler(r) \/ Set(r) \/ Unlock(r) \/ Retry(r)

RequestNext ==
    \/ \E r \in Requests : RequestStep(r) \/ ServerCrash(r)
    \/ DeleteExpired \/ StoreTick

RequestSpec == RequestInit /\ [][RequestNext]_requestVars

--------------------------------------------------------------------------------
\* The handler runs once per key, and once more for every lock its owner gave up
\* and every slot that expired: no late, duplicated or failed store call of
\* another request frees a lock or hides a response (the token fence of Unlock and
\* Set, and the rule not to unlock after a failed Set).
ExecutionsAreExplained == runs <= 1 + releases + lapses

\* A cached response stays until it expires: a handler that outlived its lock
\* cannot replace the answer later requests have been replayed (ErrLockLost).
CachedIsStable ==
    [][slot.kind = "resp" /\ slot.ttl > 1 =>
         slot'.kind = "resp" /\ slot'.by = slot.by /\ slot'.ttl <= slot.ttl]_requestVars

\* No request is answered with the response to a different body, whichever lock
\* expired in between (the 422 of Middleware).
ReplayMatches ==
    \A r \in Requests : got[r] # NoRequest =>
        Fingerprint[r] \in {NoFp, Fingerprint[got[r]]}

\* A handler runs once per key, plus once for every lock given up and slot expired,
\* and no request is answered with the response to a different body.
ReplaysAreRight == ExecutionsAreExplained /\ ReplayMatches
================================================================================
