-------------------------------- MODULE Caches --------------------------------
(***************************************************************************)
(* data/cache: the computing cache and its two back-ends.                  *)
(***************************************************************************)
EXTENDS Faults, FiniteSets

-------------------------------------------------------------------------------
(***************************************************************************)
(* data/cache.ComputeCache: GetOrCompute for one key.  A miss joins one    *)
(* flight of the compute function, a stale hit starts a background flight, *)
(* and Close ends both.  singleflight and the backend are external.        *)
(***************************************************************************)

CONSTANT Getters

VARIABLES
    entry,       \* what the backend holds: "none", "fresh" or "stale"
    getter,      \* per caller: its step in GetOrCompute
    flight,      \* the singleflight call: "none", "computing", "storing"
    refresher,   \* triggerBackgroundRefresh: "no", "claimed" (refreshing) or "waiting"
    isClosed, bgDone,   \* cc.closed and cc.bgCtx
    closer,      \* Close: "no", "waiting" or "returned"
    lateWork         \* the compute function ran, or the backend was written, after Close returned

cacheState == <<entry, getter, flight, refresher, isClosed, bgDone, closer, lateWork>>
cacheVars == <<cacheState, faults>>

Steps == {"new", "get", "join", "flying", "drain", "value", "error"}

CacheTypeOK ==
    /\ entry \in {"none", "fresh", "stale"} /\ getter \in [Getters -> Steps]
    /\ flight \in {"none", "computing", "storing"}
    /\ refresher \in {"no", "claimed", "waiting"}
    /\ {isClosed, bgDone, lateWork} \subseteq BOOLEAN /\ closer \in {"no", "closed", "waiting", "returned"}
    /\ faults \in 0 .. MaxFaults

CacheInit ==
    /\ entry = "none" /\ getter = [c \in Getters |-> "new"] /\ flight = "none"
    /\ refresher = "no" /\ isClosed = FALSE /\ bgDone = FALSE /\ closer = "no"
    /\ lateWork = FALSE /\ faults = 0

Moves(c, step) == getter' = [getter EXCEPT ![c] = step]

\* GetOrCompute up to the backend's Get.
Begin(c) ==
    /\ getter[c] = "new" /\ Moves(c, IF isClosed THEN "error" ELSE "get")
    /\ UNCHANGED <<entry, flight, refresher, isClosed, bgDone, closer, lateWork, faults>>

\* handleHit: a fresh value is returned, a stale one too, with a refresh behind it, and a
\* miss, a failed Get or an envelope that does not decode goes on to compute.
Look(c) ==
    /\ getter[c] = "get"
    /\ \/ /\ Moves(c, IF entry = "none" THEN "join" ELSE "value") /\ UNCHANGED faults
          /\ refresher' = IF entry = "stale" /\ refresher = "no" THEN "claimed" ELSE refresher
       \/ Fault /\ Moves(c, "join") /\ UNCHANGED refresher
    /\ UNCHANGED <<entry, flight, isClosed, bgDone, closer, lateWork>>

\* Fault model of computeAndStore: closed is not looked at again under bgMu.
JoinAlways == TRUE

\* bgMu orders the WaitGroup's Add before or after Close.
MayJoin == ~isClosed

\* DoChan: the first caller starts the flight, the others share it.
Board == flight' = IF flight = "none" THEN "computing" ELSE flight

\* computeAndStore: Add to foregroundWg under bgMu, then join the flight.
Join(c) ==
    /\ getter[c] = "join"
    /\ IF MayJoin THEN Moves(c, "flying") /\ Board
                  ELSE Moves(c, "error") /\ UNCHANGED flight
    /\ lateWork' = (lateWork \/ (MayJoin /\ closer = "returned"))
    /\ UNCHANGED <<entry, refresher, isClosed, bgDone, closer, faults>>

\* triggerBackgroundRefresh: one per key; Add to bgWg under bgMu.
Refresh ==
    /\ refresher = "claimed"
    /\ IF MayJoin THEN refresher' = "waiting" /\ Board
                  ELSE refresher' = "no" /\ UNCHANGED flight
    /\ lateWork' = (lateWork \/ (MayJoin /\ closer = "returned"))
    /\ UNCHANGED <<entry, getter, isClosed, bgDone, closer, faults>>

\* The flight ends: everybody who waits for it, the drains too, gets the result.
Land(result) ==
    /\ flight' = "none"
    /\ getter' = [c \in Getters |-> IF getter[c] = "flying" THEN result
                                    ELSE IF getter[c] = "drain" THEN "error" ELSE getter[c]]
    /\ refresher' = IF refresher = "waiting" THEN "no" ELSE refresher

\* executeCompute: an error, a panic or a bad ttl is not stored.
ComputeReturns ==
    /\ flight = "computing"
    /\ \/ flight' = "storing" /\ UNCHANGED <<getter, refresher, faults>>
       \/ (IF bgDone THEN UNCHANGED faults ELSE Fault) /\ Land("error")
    /\ lateWork' = (lateWork \/ closer = "returned")
    /\ UNCHANGED <<entry, isClosed, bgDone, closer>>

\* backend.Set; when it fails the computed value is served all the same.
Store ==
    /\ flight = "storing" /\ Land("value")
    /\ \/ entry' = "fresh" /\ UNCHANGED faults
       \/ UNCHANGED entry /\ Fault
    /\ lateWork' = (lateWork \/ closer = "returned")
    /\ UNCHANGED <<isClosed, bgDone, closer>>

\* Fault model of drainAbandonedLeader: the WaitGroup is released with the caller.
LeaveAtOnce(c) == Moves(c, "error")

\* drainAbandonedLeader: the caller returns, and a goroutine keeps its place in
\* foregroundWg until the flight has landed.
HandOff(c) == Moves(c, "drain")

\* The caller's context, or bgCtx, ends first.
Leave(c) ==
    /\ getter[c] = "flying"
    /\ IF bgDone THEN UNCHANGED faults ELSE Fault
    /\ HandOff(c)
    /\ UNCHANGED <<entry, flight, refresher, isClosed, bgDone, closer, lateWork>>

\* Close: set closed under bgMu, cancel bgCtx, wait for both WaitGroups.
CloseCache ==
    /\ closer = "no" /\ closer' = "closed" /\ isClosed' = TRUE
    /\ UNCHANGED <<entry, getter, flight, refresher, bgDone, lateWork, faults>>

CancelBackground ==
    /\ closer = "closed" /\ closer' = "waiting" /\ bgDone' = TRUE
    /\ UNCHANGED <<entry, getter, flight, refresher, isClosed, lateWork, faults>>

CloseReturns ==
    /\ closer = "waiting" /\ refresher # "waiting"
    /\ \A c \in Getters : getter[c] \notin {"flying", "drain"}
    /\ closer' = "returned"
    /\ UNCHANGED <<entry, getter, flight, refresher, isClosed, bgDone, lateWork, faults>>

\* Time: the value becomes stale, and then the backend drops it.
Age ==
    /\ entry # "none" /\ entry' = IF entry = "fresh" THEN "stale" ELSE "none"
    /\ UNCHANGED <<getter, flight, refresher, isClosed, bgDone, closer, lateWork, faults>>

GetterStep(c) == Begin(c) \/ Look(c) \/ Join(c)
FlightStep == ComputeReturns \/ Store
CloserStep == CancelBackground \/ CloseReturns

CacheNext ==
    \/ \E c \in Getters : GetterStep(c) \/ Leave(c)
    \/ Refresh \/ FlightStep \/ CloseCache \/ CloserStep \/ Age

\* Goroutines run; the compute function returns within its timeout.
CacheFairness ==
    /\ \A c \in Getters : WF_cacheVars(GetterStep(c))
    /\ WF_cacheVars(Refresh) /\ WF_cacheVars(FlightStep) /\ WF_cacheVars(CloserStep)

CacheSpec == CacheInit /\ [][CacheNext]_cacheVars /\ CacheFairness

-------------------------------------------------------------------------------
\* After Close returned, no compute function starts, runs on or writes to the backend,
\* also not one whose caller gave up before.
NothingAfterClose == ~lateWork

\* Every caller gets its value or an error, and Close returns.
CacheSettled ==
    /\ \A c \in Getters : getter[c] \in {"value", "error"}
    /\ flight = "none" /\ refresher = "no" /\ closer \in {"no", "returned"}

-------------------------------------------------------------------------------
(***************************************************************************)
(* data/cache's MemoryCache on one key: SetNX claims, Set, Delete, the     *)
(* claims sweeper and Close, over ristretto (external), which buffers      *)
(* writes until Wait, may reject a write and may evict an entry.           *)
(***************************************************************************)

CONSTANT CacheUsers

ASSUME CacheUsersAssumption == IsFiniteSet(CacheUsers) /\ "none" \notin CacheUsers

VARIABLES
    value,      \* ristretto: the writer of the visible value, "set" or "none"
    buffered,   \* ristretto: the write that waits in its buffer
    claim,      \* nxClaims: "none", "live" or "expired"
    shard,      \* who has the key's SetNX shard
    nxUser,     \* per caller: its place in SetNX, Set or Delete
    sweep,      \* the claims sweeper: what it read of the claim
    owner,      \* whose SetNX succeeded since the key was last absent
    cacheClosed

memcacheVars == <<value, buffered, claim, shard, nxUser, sweep, owner, cacheClosed>>

NoUser == "none"
NxPlaces == {"idle", "setnx", "probe", "store", "recheck", "set", "delete", "won", "refused"}
InOp == {u \in CacheUsers : nxUser[u] \notin {"idle", "won", "refused"}}

MemcacheTypeOK ==
    /\ value \in CacheUsers \cup {NoUser, "set"} /\ buffered \in CacheUsers \cup {NoUser, "set"}
    /\ claim \in {"none", "live", "expired"} /\ shard \in CacheUsers \cup {NoUser}
    /\ nxUser \in [CacheUsers -> NxPlaces] /\ sweep \in {"none", "live", "expired"}
    /\ owner \in CacheUsers \cup {NoUser} /\ cacheClosed \in BOOLEAN

MemcacheInit ==
    /\ value = NoUser /\ buffered = NoUser /\ claim = "none" /\ shard = NoUser
    /\ nxUser = [u \in CacheUsers |-> "idle"] /\ sweep = "none" /\ owner = NoUser
    /\ cacheClosed = FALSE

UserAt(u, place) == nxUser' = [nxUser EXCEPT ![u] = place]

\* ready and readyClosed, under opsMu: an operation starts on an open cache.
BeginOp(u, op) ==
    /\ nxUser[u] = "idle" /\ ~cacheClosed /\ UserAt(u, op)
    /\ UNCHANGED <<value, buffered, claim, shard, sweep, owner, cacheClosed>>

\* Wait applies the buffer: the write becomes visible or TinyLFU rejects it.
Applied == IF buffered = NoUser THEN {value} ELSE {value, buffered}

\* Fault model of TakeShard: SetNX runs without the key's shard.
TakesAnyway(u) == shard' = shard

TakeShard(u) == shard = NoUser /\ shard' = u

\* SetNX: flush, then look at the claim and at the value.  A claim, live or expired, whose
\* value is gone does not stand in the way.
Probe(u) ==
    /\ nxUser[u] = "setnx" /\ TakeShard(u)
    /\ value' \in Applied /\ buffered' = NoUser
    /\ owner' = IF value' = NoUser THEN NoUser ELSE owner
    /\ IF value' # NoUser
       THEN claim' = (IF claim = "expired" THEN "none" ELSE claim) /\ UserAt(u, "refused")
       ELSE claim' = "none" /\ UserAt(u, "store")
    /\ UNCHANGED <<sweep, cacheClosed>>

\* setLocked hands the write to ristretto, or it is rejected at once.
StoreValue(u) ==
    /\ nxUser[u] = "store"
    /\ \/ buffered' = u /\ UserAt(u, "recheck")
       \/ UNCHANGED buffered /\ UserAt(u, "refused")
    /\ UNCHANGED <<value, claim, shard, sweep, owner, cacheClosed>>

\* Fault model of Recheck: what SetWithTTL accepted counts as stored.
RecheckNothing(u) ==
    /\ nxUser[u] = "recheck"
    /\ value' \in Applied /\ buffered' = NoUser
    /\ claim' = "live" /\ owner' = u /\ UserAt(u, "won")
    /\ UNCHANGED <<shard, sweep, cacheClosed>>

\* Wait again, and only a value that is there is claimed.
Recheck(u) ==
    /\ nxUser[u] = "recheck"
    /\ value' \in Applied /\ buffered' = NoUser
    /\ IF value' = NoUser
       THEN owner' = NoUser /\ UserAt(u, "refused") /\ UNCHANGED claim
       ELSE claim' = "live" /\ owner' = u /\ UserAt(u, "won")
    /\ UNCHANGED <<shard, sweep, cacheClosed>>

Unlock(u) ==
    /\ nxUser[u] \in {"won", "refused"} /\ UserAt(u, "idle")
    /\ shard' = IF shard = u THEN NoUser ELSE shard
    /\ UNCHANGED <<value, buffered, claim, sweep, owner, cacheClosed>>

\* Set takes no shard; an overwritten or earlier write of the buffer is lost.
SetValue(u) ==
    /\ nxUser[u] = "set" /\ buffered' = "set" /\ UserAt(u, "idle")
    /\ UNCHANGED <<value, claim, shard, sweep, owner, cacheClosed>>

DeleteValue(u) ==
    /\ nxUser[u] = "delete" /\ shard = NoUser
    /\ value' = NoUser /\ buffered' = NoUser /\ claim' = "none" /\ owner' = NoUser /\ UserAt(u, "idle")
    /\ UNCHANGED <<shard, sweep, cacheClosed>>

\* ristretto works through its buffer on its own, and evicts.
Flush ==
    /\ buffered # NoUser /\ value' \in Applied /\ buffered' = NoUser
    /\ UNCHANGED <<claim, shard, nxUser, sweep, owner, cacheClosed>>

\* The entry expires with its claim's TTL, or is evicted before.
DropEntry ==
    /\ value # NoUser /\ value' = NoUser /\ owner' = NoUser
    /\ claim' \in {claim, IF claim = "live" THEN "expired" ELSE claim}
    /\ UNCHANGED <<buffered, shard, nxUser, sweep, cacheClosed>>

\* runNXClaimsSweeper ranges over the claims and deletes a dead one later, without the
\* shard: by then it may be another claim.
SweepRead ==
    /\ sweep = "none" /\ sweep' = claim /\ claim # "none" /\ ~cacheClosed
    /\ UNCHANGED <<value, buffered, claim, shard, nxUser, owner, cacheClosed>>

SweepDelete ==
    /\ sweep # "none" /\ sweep' = "none"
    /\ claim' = IF sweep = "expired" \/ value = NoUser THEN "none" ELSE claim
    /\ UNCHANGED <<value, buffered, shard, nxUser, owner, cacheClosed>>

\* Fault model of CloseStore: it does not take opsMu.
CloseAtOnce ==
    /\ ~cacheClosed /\ cacheClosed' = TRUE
    /\ UNCHANGED <<value, buffered, claim, shard, nxUser, sweep, owner>>

\* Close takes opsMu exclusively: no operation is in flight.
CloseStore ==
    /\ ~cacheClosed /\ InOp = {} /\ cacheClosed' = TRUE
    /\ UNCHANGED <<value, buffered, claim, shard, nxUser, sweep, owner>>

MemcacheNext ==
    \/ \E u \in CacheUsers :
        \/ \E op \in {"setnx", "set", "delete"} : BeginOp(u, op)
        \/ Probe(u) \/ StoreValue(u) \/ Recheck(u) \/ Unlock(u) \/ SetValue(u) \/ DeleteValue(u)
    \/ Flush \/ DropEntry \/ SweepRead \/ SweepDelete \/ CloseStore

MemcacheSpec == MemcacheInit /\ [][MemcacheNext]_memcacheVars

\* Test-and-set within the process: a SetNX that wins stores a value that is there, and no
\* earlier winner stands, whatever the sweeper, evictions and plain Sets do meanwhile.
\* Once Close has returned no operation is inside ristretto.
SetNXHasOneWinner ==
    [][/\ \A u \in CacheUsers :
            nxUser[u] # "won" /\ nxUser'[u] = "won" => owner = NoUser /\ value' # NoUser
       /\ cacheClosed' => InOp' = {}]_memcacheVars

-------------------------------------------------------------------------------
(***************************************************************************)
(* data/cache/rediscache: reads under a value-size cap, while other        *)
(* processes write what they like under the same keys.  Get measures and   *)
(* reads in one script; MGet measures in one pipeline and reads in another.*)
(***************************************************************************)

CONSTANTS CacheKeys, MaxForeign

ASSUME CacheKeysAssumption == IsFiniteSet(CacheKeys) /\ MaxForeign \in Nat

Contents == {"absent", "small", "big", "otherType"}

VARIABLES
    redis,      \* per key: what Redis has
    seen,       \* per key: what it had since the read began
    foreign,    \* how many writes other processes made
    read,       \* the read: its place, the keys it asks for and the ones still to fetch
    out         \* the answer: per key hit, miss or tooLarge

rcacheVars == <<redis, seen, foreign, read, out>>

RcacheTypeOK ==
    /\ redis \in [CacheKeys -> Contents] /\ seen \in [CacheKeys -> SUBSET Contents]
    /\ foreign \in 0 .. MaxForeign
    /\ read \in [at : {"idle", "get", "strlen", "fetch", "done"}, asked : SUBSET CacheKeys, fetch : SUBSET CacheKeys]
    /\ out \in [CacheKeys -> {"none", "small", "big", "miss", "tooLarge"}]

RcacheInit ==
    /\ redis \in [CacheKeys -> Contents] /\ seen = [k \in CacheKeys |-> {}] /\ foreign = 0
    /\ read = [at |-> "idle", asked |-> {}, fetch |-> {}] /\ out = [k \in CacheKeys |-> "none"]

\* Set, SetNX and MSet of this cache refuse a value above the cap before they write it; a
\* foreign writer, an expiry and Delete do as they please.
WriteKey(k, c) ==
    /\ foreign < MaxForeign /\ foreign' = foreign + 1
    /\ redis' = [redis EXCEPT ![k] = c] /\ seen' = [seen EXCEPT ![k] = @ \cup {c}]
    /\ UNCHANGED <<read, out>>

BeginRead(asked, op) ==
    /\ read.at = "idle" /\ asked # {} /\ (op = "get" => Cardinality(asked) = 1)
    /\ read' = [at |-> op, asked |-> asked, fetch |-> asked]
    /\ seen' = [k \in CacheKeys |-> {redis[k]}] /\ out' = [k \in CacheKeys |-> "none"]
    /\ UNCHANGED <<redis, foreign>>

\* cappedGetScript: STRLEN and GET in one step; another type is a miss.
GetScript ==
    /\ read.at = "get"
    /\ out' = [k \in CacheKeys |->
                 IF k \notin read.asked THEN "none"
                 ELSE CASE redis[k] = "small" -> "small" [] redis[k] = "big" -> "tooLarge" [] OTHER -> "miss"]
    /\ read' = [read EXCEPT !.at = "done"] /\ UNCHANGED <<redis, seen, foreign>>

\* The STRLEN pipeline: a key that is too long, or of another type, is a miss and is not
\* fetched; an absent key has length 0.
MeasureKeys ==
    /\ read.at = "strlen"
    /\ LET fetch == {k \in read.asked : redis[k] \in {"absent", "small"}}
       IN  /\ read' = [read EXCEPT !.at = IF fetch = {} THEN "done" ELSE "fetch", !.fetch = fetch]
           /\ out' = [k \in CacheKeys |-> IF k \in read.asked \ fetch THEN "miss" ELSE "none"]
    /\ UNCHANGED <<redis, seen, foreign>>

\* Fault model of Fetched: what was measured is not measured again.
FetchedUnmeasured(k) ==
    IF redis[k] \in {"small", "big"} THEN redis[k] ELSE "miss"

\* A value that grew between the two pipelines is a miss as well.
Fetched(k) == IF redis[k] = "small" THEN "small" ELSE "miss"

\* The GET pipeline; its commands run one after the other.
FetchKey(k) ==
    /\ read.at = "fetch" /\ k \in read.fetch
    /\ out' = [out EXCEPT ![k] = Fetched(k)]
    /\ read' = [read EXCEPT !.fetch = @ \ {k}, !.at = IF read.fetch = {k} THEN "done" ELSE "fetch"]
    /\ UNCHANGED <<redis, seen, foreign>>

ReadAgain ==
    /\ read.at = "done" /\ read' = [at |-> "idle", asked |-> {}, fetch |-> {}]
    /\ UNCHANGED <<redis, seen, foreign, out>>

RcacheNext ==
    \/ \E k \in CacheKeys : FetchKey(k) \/ \E c \in Contents : WriteKey(k, c)
    \/ \E asked \in SUBSET CacheKeys, op \in {"get", "strlen"} : BeginRead(asked, op)
    \/ GetScript \/ MeasureKeys \/ ReadAgain

RcacheSpec == RcacheInit /\ [][RcacheNext]_rcacheVars

\* A read never hands out a value above the cap, whatever is written between its two
\* pipelines; it answers every key it was asked for, with something the key really was
\* during the read; and one key of another type or size does not cost the others a hit.
ReadsStayUnderCap ==
    /\ \A k \in CacheKeys : out[k] # "big"
    /\ read.at = "done" => \A k \in read.asked :
        /\ out[k] # "none" /\ (out[k] = "small" => "small" \in seen[k])
        /\ seen[k] = {"small"} => out[k] = "small"

\* The caches keep their word: after Close nothing computes or stores, one SetNX wins, and
\* no read hands out a value above the cap.
CachesKeepTheirWord == []NothingAfterClose /\ SetNXHasOneWinner /\ []ReadsStayUnderCap
================================================================================
