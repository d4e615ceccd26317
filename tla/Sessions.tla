------------------------------- MODULE Sessions -------------------------------
(***************************************************************************)
(* auth/oauth2: the refresh of a session's token, the index of sessions    *)
(* and the pending sign-ins.                                               *)
(***************************************************************************)
EXTENDS Integers, Faults, FiniteSets, SequencesExt

-------------------------------------------------------------------------------
(***************************************************************************)
(* Token refresh of an OAuth2 session: package auth/oauth2, refresh.go,    *)
(* with the parts of client.go, lifetime.go, memory_stores.go and          *)
(* redis/store.go it works on.                                             *)
(*                                                                         *)
(* One session, shared by Refreshers: the replicas, each with at most one  *)
(* refresh of the session at a time (refreshGroup is a single flight).     *)
(* The provider rotates refresh tokens: redeeming token g hands out token  *)
(* g + 1 and makes g worthless.  `grant' is the token the provider still   *)
(* accepts.  The stored session carries the token's generation, a version  *)
(* for compare-and-set, the expiry of its access token and the time of the *)
(* last recorded activity.                                                 *)
(*                                                                         *)
(* storeKind is what the session store implements: "redis" has Update      *)
(* (SessionUpdater) and the refresh lock (RefreshLocker), "updater" has    *)
(* Update alone, "plain" has neither.                                      *)
(***************************************************************************)

CONSTANTS Refreshers,     \* replicas that serve requests of the session
          TokenLife,      \* lifetime of an access token
          Leeway,         \* WithTokenRefresh(leeway)
          OutageGrace,    \* WithRefreshOutageGrace
          MaxSessionTime, \* bound on the clock
          MaxRequests     \* bound on the requests of one replica

ASSUME SessionAssumption ==
    /\ TokenLife \in Nat \ {0} /\ Leeway \in Nat /\ OutageGrace \in Nat
    /\ MaxSessionTime \in Nat /\ MaxRequests \in Nat

VARIABLES storeKind, clockNow, stored, grant, refreshLock, flight, loggedOut

sessionState == <<storeKind, clockNow, stored, grant, refreshLock, flight, loggedOut>>
sessionVars == <<sessionState, faults>>

MaxAttempts == 3          \* maxActivityMergeAttempts
MaxPolls == 1             \* polls of the lock before refreshLockWait is over

NoSession == [gen |-> 0]
Unlocked == "nobody"
HasUpdate == storeKind \in {"redis", "updater"}
HasLock == storeKind = "redis"

\* The whole refresh is bounded by one detached context (refreshTimeout).
InFlight == {"read", "lock", "locked", "poll", "redeem", "update", "lost",
             "check", "put", "failed", "delete"}

NewFlight(n) ==
    [pc |-> "idle", current |-> NoSession, updated |-> NoSession, attempt |-> 0,
     polls |-> 0, permanent |-> FALSE, requests |-> n]

SessionInit ==
    /\ storeKind \in {"redis", "updater", "plain"}
    /\ clockNow = 0
    /\ stored = [gen |-> 1, version |-> 0, expiry |-> TokenLife, active |-> 0]
    /\ grant = 1
    /\ refreshLock = Unlocked
    /\ flight = [r \in Refreshers |-> NewFlight(0)]
    /\ loggedOut = FALSE
    /\ faults = 0

SetFlight(r, f) == flight' = [flight EXCEPT ![r] = f]

NeedsRefresh(s) == clockNow + Leeway >= s.expiry

\* The request goes on with session s; the deferred release of the refresh
\* lock comes first when this replica holds it.
Serve(r, s) ==
    SetFlight(r, [NewFlight(flight[r].requests) EXCEPT
                    !.pc = IF refreshLock = r THEN "release" ELSE "activity", !.current = s])

Reject(r) == Serve(r, NoSession)

FlightAt(r, pc) == flight[r].pc = pc

\* SessionFromRequest: read the session, then refresh it when it needs to be.
BeginRequest(r) ==
    /\ FlightAt(r, "idle")
    /\ flight[r].requests < MaxRequests
    /\ LET f == NewFlight(flight[r].requests + 1)
       IN SetFlight(r, [f EXCEPT !.current = stored,
                           !.pc = IF stored # NoSession /\ NeedsRefresh(stored)
                                  THEN "read" ELSE "activity"])
    /\ UNCHANGED <<storeKind, clockNow, stored, grant, refreshLock, loggedOut, faults>>

\* refreshSession reads the session again before it does anything.
RefreshSession(r) ==
    /\ FlightAt(r, "read")
    /\ CASE stored = NoSession -> Reject(r)
         [] stored # NoSession /\ ~NeedsRefresh(stored) -> Serve(r, stored)
         [] OTHER -> SetFlight(r, [flight[r] EXCEPT !.pc = IF HasLock THEN "lock" ELSE "redeem",
                                              !.current = stored])
    /\ UNCHANGED <<storeKind, clockNow, stored, grant, refreshLock, loggedOut, faults>>

\* One round of lockRefresh: SET NX of the lock.  A failed command is a
\* transient failure of the refresh.
TryLockRefresh(r) ==
    /\ FlightAt(r, "lock")
    /\ \/ /\ refreshLock = Unlocked
          /\ refreshLock' = r
          /\ SetFlight(r, [flight[r] EXCEPT !.pc = "locked"])
          /\ UNCHANGED faults
       \/ /\ refreshLock # Unlocked
          /\ SetFlight(r, [flight[r] EXCEPT !.pc = "poll"])
          /\ UNCHANGED <<refreshLock, faults>>
       \/ /\ Fault
          /\ SetFlight(r, [flight[r] EXCEPT !.pc = "failed"])
          /\ UNCHANGED refreshLock
    /\ UNCHANGED <<storeKind, clockNow, stored, grant, loggedOut>>

\* Fault model of LockedRead: the session read before the lock is used.
LockedNoRead(r) ==
    /\ FlightAt(r, "locked")
    /\ SetFlight(r, [flight[r] EXCEPT !.pc = "redeem"])
    /\ UNCHANGED <<storeKind, clockNow, stored, grant, refreshLock, loggedOut, faults>>

\* The holder reads the session again: the previous holder may have finished
\* just before.
LockedRead(r) ==
    /\ FlightAt(r, "locked")
    /\ CASE stored = NoSession -> Reject(r)
         [] stored # NoSession /\ ~NeedsRefresh(stored) -> Serve(r, stored)
         [] OTHER -> SetFlight(r, [flight[r] EXCEPT !.pc = "redeem", !.current = stored])
    /\ UNCHANGED <<storeKind, clockNow, stored, grant, refreshLock, loggedOut, faults>>

\* After refreshLockPoll: use the tokens the other replica stored, try again,
\* or give up once refreshLockWait is over.
PollRefreshed(r) ==
    /\ FlightAt(r, "poll")
    /\ \/ stored = NoSession /\ Reject(r)
       \/ stored # NoSession /\ ~NeedsRefresh(stored) /\ Serve(r, stored)
       \/ /\ stored # NoSession /\ NeedsRefresh(stored)
          /\ flight[r].polls < MaxPolls
          /\ SetFlight(r, [flight[r] EXCEPT !.pc = "lock", !.polls = @ + 1])
       \/ /\ stored # NoSession /\ NeedsRefresh(stored)
          /\ SetFlight(r, [flight[r] EXCEPT !.pc = "failed"])
    /\ UNCHANGED <<storeKind, clockNow, stored, grant, refreshLock, loggedOut, faults>>

\* The token endpoint.  It rejects a token that was redeemed before (4xx,
\* permanent); a lost request, a lost answer or a 5xx is transient; an ID
\* token that does not verify is permanent although the token is redeemed.
RedeemToken(r) ==
    /\ FlightAt(r, "redeem")
    /\ LET s == flight[r].current
           fresh == [s EXCEPT !.gen = @ + 1, !.version = @ + 1,
                              !.expiry = clockNow + TokenLife]
       IN \/ /\ s.gen = grant
             /\ grant' = grant + 1
             /\ SetFlight(r, [flight[r] EXCEPT !.pc = IF HasUpdate THEN "update" ELSE "check",
                                         !.updated = fresh])
             /\ UNCHANGED faults
          \/ /\ s.gen # grant
             /\ SetFlight(r, [flight[r] EXCEPT !.pc = "failed", !.permanent = TRUE])
             /\ UNCHANGED <<grant, faults>>
          \/ /\ Fault
             /\ \E lost \in {0, 1}, bad \in BOOLEAN :
                    /\ lost = 1 => s.gen = grant
                    /\ bad => lost = 1
                    /\ grant' = grant + lost
                    /\ SetFlight(r, [flight[r] EXCEPT !.pc = "failed", !.permanent = bad])
    /\ UNCHANGED <<storeKind, clockNow, stored, refreshLock, loggedOut>>

\* Fault model of Matches: a missing session counts as an unchanged one.
MatchesOrMissing(expected) == stored = NoSession \/ stored.version = expected

\* Update of the session store: a live entry whose version is the expected one.
Matches(expected) == stored # NoSession /\ stored.version = expected

\* storeRefreshed with a SessionUpdater: one attempt of the compare-and-set.
UpdateSession(r) ==
    /\ FlightAt(r, "update")
    /\ LET f == flight[r] IN
       \/ /\ Matches(f.updated.version - 1)
          /\ stored' = f.updated
          /\ Serve(r, f.updated)
          /\ UNCHANGED faults
       \/ /\ ~Matches(f.updated.version - 1)
          /\ SetFlight(r, [f EXCEPT !.pc = "lost"])
          /\ UNCHANGED <<stored, faults>>
       \/ /\ Fault
          /\ Reject(r)
          /\ UNCHANGED stored
    /\ UNCHANGED <<storeKind, clockNow, grant, refreshLock, loggedOut>>

\* Fault model of OnlyActivityChanged: every lost compare-and-set is final.
NothingChanged(s, latest) == latest = s

\* onlyActivityChanged: the concurrent write did not rotate the tokens.
OnlyActivityChanged(s, latest) == latest.gen = s.gen

\* storeRefreshed after a lost race: fresh tokens of another refresh are
\* used, a session that only recorded activity takes the tokens, anything
\* else discards them.
LostRace(r) ==
    /\ FlightAt(r, "lost")
    /\ LET f == flight[r]
           latest == stored
           later(a, b) == IF a >= b THEN a ELSE b
       IN CASE latest = NoSession -> Reject(r)
            [] /\ latest # NoSession
               /\ latest.version > f.updated.version - 1
               /\ ~NeedsRefresh(latest) -> Serve(r, latest)
            [] /\ latest # NoSession
               /\ latest.version <= f.updated.version - 1 \/ NeedsRefresh(latest)
               /\ f.attempt + 1 < MaxAttempts
               /\ OnlyActivityChanged(f.current, latest) ->
                      SetFlight(r, [f EXCEPT !.pc = "update", !.attempt = @ + 1,
                                       !.updated.active = later(latest.active, @),
                                       !.updated.version = latest.version + 1])
            [] OTHER -> Reject(r)
    /\ UNCHANGED <<storeKind, clockNow, stored, grant, refreshLock, loggedOut, faults>>

\* storeRefreshed without one: look whether the session is still there ...
CheckExists(r) ==
    /\ FlightAt(r, "check")
    /\ IF stored = NoSession THEN Reject(r) ELSE SetFlight(r, [flight[r] EXCEPT !.pc = "put"])
    /\ UNCHANGED <<storeKind, clockNow, stored, grant, refreshLock, loggedOut, faults>>

\* ... and write it.
PutSession(r) ==
    /\ FlightAt(r, "put")
    /\ stored' = flight[r].updated
    /\ Serve(r, flight[r].updated)
    /\ UNCHANGED <<storeKind, clockNow, grant, refreshLock, loggedOut, faults>>

\* refreshFailed: tokens another replica stored are used; a transient failure
\* serves the session while it is valid or within the outage grace.
RefreshFailed(r) ==
    /\ FlightAt(r, "failed")
    /\ LET f == flight[r] IN
       CASE stored # NoSession /\ ~NeedsRefresh(stored) -> Serve(r, stored)
         [] /\ stored = NoSession \/ NeedsRefresh(stored)
            /\ ~f.permanent /\ clockNow < f.current.expiry + OutageGrace -> Serve(r, f.current)
         [] OTHER -> SetFlight(r, [f EXCEPT !.pc = "delete"])
    /\ UNCHANGED <<storeKind, clockNow, stored, grant, refreshLock, loggedOut, faults>>

\* ... and deletes it otherwise.  A failed Delete is logged only.
DeleteSession(r) ==
    /\ FlightAt(r, "delete")
    /\ \/ stored' = NoSession /\ UNCHANGED faults
       \/ Fault /\ UNCHANGED stored
    /\ Reject(r)
    /\ UNCHANGED <<storeKind, clockNow, grant, refreshLock, loggedOut>>

\* refreshTimeout ends the refresh: the store refuses an expired context, so
\* the session is served or rejected as the failure finds it.
RefreshTimesOut(r) ==
    /\ flight[r].pc \in InFlight \ {"read"}
    /\ Fault
    /\ IF /\ flight[r].pc \notin {"update", "lost", "check", "put"}
          /\ ~flight[r].permanent /\ clockNow < flight[r].current.expiry + OutageGrace
       THEN Serve(r, flight[r].current) ELSE Reject(r)
    /\ UNCHANGED <<storeKind, clockNow, stored, grant, refreshLock, loggedOut>>

\* releaseRefreshLock, on a context of its own.  A failed release leaves the
\* lock to its TTL.
ReleaseRefreshLock(r) ==
    /\ FlightAt(r, "release")
    /\ \/ refreshLock' = (IF refreshLock = r THEN Unlocked ELSE refreshLock) /\ UNCHANGED faults
       \/ Fault /\ refreshLock' = "orphan"
    /\ SetFlight(r, [flight[r] EXCEPT !.pc = "activity"])
    /\ UNCHANGED <<storeKind, clockNow, stored, grant, loggedOut>>

\* The TTL of the lock is refreshTimeout and starts after the refresh did: it
\* only ever ends a lock whose holder is gone.
LockExpires ==
    /\ refreshLock = "orphan"
    /\ refreshLock' = Unlocked
    /\ UNCHANGED <<storeKind, clockNow, stored, grant, flight, loggedOut, faults>>

\* recordActivity writes the session it was handed back with a new activity
\* time, at most once an interval (one tick), as a compare-and-set.
RecordActivity(r) ==
    /\ FlightAt(r, "activity")
    /\ LET s == flight[r].current
           due == HasUpdate /\ s # NoSession /\ clockNow > s.active
       IN \/ /\ s # NoSession /\ due /\ Matches(s.version)
             /\ stored' = [s EXCEPT !.active = clockNow, !.version = @ + 1]
          \/ UNCHANGED stored
    /\ SetFlight(r, NewFlight(flight[r].requests))
    /\ UNCHANGED <<storeKind, clockNow, grant, refreshLock, loggedOut, faults>>

\* handleLogout, deleteMatching of a back-channel logout, or the end of the
\* session's TTL: the session is deleted.
Logout ==
    /\ ~loggedOut
    /\ loggedOut' = TRUE
    /\ stored' = NoSession
    /\ UNCHANGED <<storeKind, clockNow, grant, refreshLock, flight, faults>>

SessionTick ==
    /\ clockNow < MaxSessionTime
    /\ clockNow' = clockNow + 1
    /\ UNCHANGED <<storeKind, stored, grant, refreshLock, flight, loggedOut, faults>>

RequestStep(r) ==
    \/ RefreshSession(r) \/ TryLockRefresh(r) \/ LockedRead(r) \/ PollRefreshed(r)
    \/ RedeemToken(r) \/ UpdateSession(r) \/ LostRace(r) \/ CheckExists(r)
    \/ PutSession(r) \/ RefreshFailed(r) \/ DeleteSession(r)
    \/ ReleaseRefreshLock(r) \/ RecordActivity(r)

SessionNext ==
    \/ \E r \in Refreshers : BeginRequest(r) \/ RequestStep(r) \/ RefreshTimesOut(r)
    \/ LockExpires \/ Logout \/ SessionTick

SessionSpec ==
    /\ SessionInit /\ [][SessionNext]_sessionVars
    /\ \A r \in Refreshers : WF_sessionVars(RequestStep(r))
    /\ WF_sessionVars(LockExpires)

MaxGen == MaxSessionTime + 2

StoredSessions ==
    {NoSession} \cup [gen : 1..MaxGen, version : 0..(MaxGen + MaxSessionTime + 3),
                      expiry : 1..(MaxSessionTime + TokenLife), active : 0..MaxSessionTime]

SessionTypeOK ==
    /\ storeKind \in {"redis", "updater", "plain"}
    /\ clockNow \in 0..MaxSessionTime
    /\ stored \in StoredSessions
    /\ grant \in 1..(MaxGen + MaxFaults)
    /\ refreshLock \in Refreshers \cup {Unlocked, "orphan"}
    /\ \A r \in Refreshers :
          /\ flight[r].pc \in InFlight \cup {"idle", "release", "activity"}
          /\ flight[r].current \in StoredSessions /\ flight[r].updated \in StoredSessions
          /\ flight[r].attempt \in 0..MaxAttempts /\ flight[r].requests \in 0..MaxRequests
    /\ loggedOut \in BOOLEAN

\* A store with compare-and-set never brings a logged-out session back: not
\* by a refresh that was in flight, by the retries that re-apply its tokens
\* onto recorded activity, nor by recordActivity (refresh.go, storeRefreshed).
LogoutStands == HasUpdate /\ loggedOut => stored = NoSession

\* With the refresh lock, and unless something failed, the session that is
\* stored while no refresh runs holds the refresh token the provider still
\* accepts: no rotated token is lost to a concurrent refresh or activity write.
RotatedTokenIsKept ==
    HasLock /\ faults = 0 /\ stored # NoSession
        /\ (\A r \in Refreshers : flight[r].pc \notin InFlight)
    => stored.gen = grant

\* A replica that holds the refresh lock deletes only the session whose
\* refresh it saw fail, never tokens another replica has stored since.
HolderDeletesWhatItJudged ==
    \A r \in Refreshers :
        FlightAt(r, "delete") /\ refreshLock = r /\ stored # NoSession
        => stored.gen = flight[r].current.gen

\* A failed refresh never deletes a session that holds fresh tokens: "A
\* rotating refresh token may already have been redeemed by another replica,
\* which then persisted the new tokens: use them" (refresh.go, refreshFailed).
FreshTokensSurvive ==
    \A r \in Refreshers :
        FlightAt(r, "delete") /\ stored # NoSession => NeedsRefresh(stored)

\* Every request is answered.
SessionSettled == \A r \in Refreshers : FlightAt(r, "idle")

-------------------------------------------------------------------------------
(***************************************************************************)
(* auth/oauth2: deleting the sessions of a subject or of a provider        *)
(* session through the index of the session store, while refreshes write   *)
(* their sessions back and sessions and index keys expire.  In the memory  *)
(* store each call is one step under the mutex; in Redis a lookup and a    *)
(* delete take several commands.                                           *)
(***************************************************************************)

CONSTANTS SessionIds,      \* identifiers handed out, each one once
          SIDs,            \* provider sessions
          Revokers,        \* calls that delete sessions
          MaxUpdates,      \* bound on the updates of a session
          MaxIndexTime     \* bound on the clock

ASSUME IndexAssumption == MaxIndexTime \in Nat

VARIABLES
    indexStore,   \* "redis" or "memory"
    sess,         \* per id: sid, version and expiry; expiry 0 if not stored
    used,         \* ids handed out
    index,        \* per key (Subject or a SID): ids and expiry
    refresher,    \* the session a refresh has read: id, version and new sid
    revoker,      \* per call: its place
    indexTime

indexState == <<indexStore, sess, used, index, refresher, revoker, indexTime>>
indexVars == <<indexState, faults>>

Subject == "subject"
Lookups == SIDs \cup {Subject}
NoSID == "none"   \* an id token without a sid claim
TTLs == {1, 2}
NoSess == [sid |-> NoSID, version |-> 0, expiry |-> 0]
NoLookup == [ids |-> {}, expiry |-> 0]
NoRefresh == [id |-> "none", version |-> 0]
IdleRevoker == [at |-> "idle", key |-> Subject, ids |-> {}, stale |-> {},
                id |-> "none", read |-> "gone", known |-> {}]

IndexInit ==
    /\ indexStore \in {"redis", "memory"}
    /\ sess = [i \in SessionIds |-> NoSess] /\ used = {}
    /\ index = [k \in Lookups |-> NoLookup]
    /\ refresher = NoRefresh /\ revoker = [r \in Revokers |-> IdleRevoker]
    /\ indexTime = 0 /\ faults = 0

LiveSess(i) == sess[i] # NoSess
KeysWith(sid) == {Subject, sid} \ {NoSID}
KeysOf(i) == KeysWith(sess[i].sid)
Matching(k) == {i \in SessionIds : LiveSess(i) /\ k \in KeysOf(i)}

\* Fault model of Extended: the index takes the last session's lifetime.
ExtendedAlways(old, ttl) == indexTime + ttl

\* indexAddScript: the expiry of an index key is only ever extended.
Extended(old, ttl) == IF old < indexTime + ttl THEN indexTime + ttl ELSE old

Indexed(from, to, i, ttl) ==
    [k \in Lookups |->
        IF k \in to THEN [ids |-> index[k].ids \cup {i}, expiry |-> Extended(index[k].expiry, ttl)]
        ELSE IF k \in from THEN [ids |-> index[k].ids \ {i}, expiry |-> index[k].expiry]
        ELSE index[k]]

\* The session of a completed sign-in; its id is fresh.
PutNew ==
    \E i \in SessionIds \ used, s \in SIDs \cup {NoSID}, ttl \in TTLs :
        /\ used' = used \cup {i}
        /\ sess' = [sess EXCEPT ![i] = [sid |-> s, version |-> 0, expiry |-> indexTime + ttl]]
        /\ index' = Indexed({}, KeysWith(s), i, ttl)
        /\ UNCHANGED <<indexStore, refresher, revoker, indexTime, faults>>

ReadForRefresh ==
    \E i \in SessionIds :
        /\ refresher = NoRefresh /\ LiveSess(i)
        /\ refresher' = [id |-> i, version |-> sess[i].version]
        /\ UNCHANGED <<indexStore, sess, used, index, revoker, indexTime, faults>>

\* Fault model of StillThere: a refresh writes its session back in any case.
WritesAnyway(i, version) == TRUE

StillThere(i, version) == LiveSess(i) /\ sess[i].version = version

\* Update, in one transaction on the session's key: it replaces the session it
\* was computed from and moves the index entries when the sid changed.
WriteBack ==
    \E s \in SIDs \cup {NoSID}, ttl \in TTLs :
        LET i == refresher.id  v == refresher.version IN
        /\ refresher # NoRefresh /\ v < MaxUpdates
        /\ IF StillThere(i, v)
           THEN /\ sess' = [sess EXCEPT ![i] = [sid |-> s, version |-> v + 1, expiry |-> indexTime + ttl]]
                /\ index' = Indexed(KeysOf(i), KeysWith(s), i, ttl)
           ELSE UNCHANGED <<sess, index>>
        /\ refresher' = NoRefresh
        /\ UNCHANGED <<indexStore, used, revoker, indexTime, faults>>

Revoker(r, rec) == revoker' = [revoker EXCEPT ![r] = rec]

\* DeleteSessionsBySubject, or a back-channel logout with a sid or a subject:
\* the ids of the key are read once.
BeginRevoke(r) ==
    \E k \in Lookups :
        /\ revoker[r].at = "idle"
        /\ Revoker(r, [IdleRevoker EXCEPT
               !.at = IF indexStore = "redis" THEN "exists" ELSE "next",
               !.key = k, !.known = Matching(k),
               !.ids = IF indexStore = "redis" THEN index[k].ids ELSE {i \in index[k].ids : LiveSess(i)}])
        /\ UNCHANGED <<indexStore, sess, used, index, refresher, indexTime, faults>>

\* indexedIDs: the listed ids that have no session are dropped from the result
\* and, best effort, from the index.
FilterLive(r) ==
    /\ revoker[r].at = "exists"
    /\ Revoker(r, [revoker[r] EXCEPT !.at = "prune", !.ids = {i \in @ : LiveSess(i)},
                                         !.stale = {i \in revoker[r].ids : ~LiveSess(i)}])
    /\ UNCHANGED <<indexStore, sess, used, index, refresher, indexTime, faults>>

PruneStale(r) ==
    LET k == revoker[r].key IN
    /\ revoker[r].at = "prune"
    /\ \/ index' = [index EXCEPT ![k].ids = @ \ revoker[r].stale] /\ UNCHANGED faults
       \/ Fault /\ UNCHANGED index
    /\ Revoker(r, [revoker[r] EXCEPT !.at = "next", !.stale = {}])
    /\ UNCHANGED <<indexStore, sess, used, refresher, indexTime>>

\* Fault model of MatchesKey: a session is deleted only if it is still the one
\* the index listed, by version.
MatchesFirst(r, i) == sess[i].version = 0

\* match of deleteMatching, on the session as it is now.
MatchesKey(r, i) == revoker[r].key \in KeysOf(i)

\* deleteMatching reads the next session; one that is gone or does not match
\* any more is passed over.
ReadNext(r) ==
    \E i \in revoker[r].ids :
        /\ revoker[r].at = "next"
        /\ Revoker(r, IF LiveSess(i) /\ MatchesKey(r, i)
                      THEN [revoker[r] EXCEPT !.at = IF indexStore = "redis" THEN "read" ELSE "delete",
                                              !.ids = @ \ {i}, !.id = i, !.read = sess[i].sid]
                      ELSE [revoker[r] EXCEPT !.ids = @ \ {i}])
        /\ UNCHANGED <<indexStore, sess, used, index, refresher, indexTime, faults>>

\* Delete of the Redis store reads the session to know its index keys.
ReadIndexed(r) ==
    /\ revoker[r].at = "read"
    /\ Revoker(r, [revoker[r] EXCEPT !.at = "delete",
                       !.read = IF LiveSess(revoker[r].id) THEN sess[revoker[r].id].sid ELSE "gone"])
    /\ UNCHANGED <<indexStore, sess, used, index, refresher, indexTime, faults>>

DeleteSess(r) ==
    LET i == revoker[r].id
        sid == IF indexStore = "redis" THEN revoker[r].read ELSE sess[i].sid
    IN
    /\ revoker[r].at = "delete"
    /\ sess' = [sess EXCEPT ![i] = NoSess]
    /\ index' = [k \in Lookups |-> IF sid # "gone" /\ k \in KeysWith(sid)
                                   THEN [index[k] EXCEPT !.ids = @ \ {i}] ELSE index[k]]
    /\ Revoker(r, [revoker[r] EXCEPT !.at = "next", !.id = "none"])
    /\ UNCHANGED <<indexStore, used, refresher, indexTime, faults>>

EndRevoke(r) ==
    /\ revoker[r].at = "next" /\ revoker[r].ids = {}
    /\ Revoker(r, [revoker[r] EXCEPT !.at = "done"])
    /\ UNCHANGED <<indexStore, sess, used, index, refresher, indexTime, faults>>

\* A failing command ends the call with an error, some sessions deleted.
FailRevoke(r) ==
    /\ revoker[r].at \in {"exists", "next", "read", "delete"} /\ Fault
    /\ Revoker(r, [revoker[r] EXCEPT !.at = "failed"])
    /\ UNCHANGED <<indexStore, sess, used, index, refresher, indexTime>>

\* Time passes: keys that expire disappear.
IndexTick ==
    /\ indexTime < MaxIndexTime /\ indexTime' = indexTime + 1
    /\ sess' = [i \in SessionIds |-> IF sess[i].expiry > indexTime' THEN sess[i] ELSE NoSess]
    /\ index' = [k \in Lookups |-> IF index[k].expiry > indexTime' THEN index[k] ELSE NoLookup]
    /\ UNCHANGED <<indexStore, used, refresher, revoker, faults>>

RevokeStep(r) ==
    \/ FilterLive(r) \/ PruneStale(r) \/ ReadNext(r) \/ ReadIndexed(r) \/ DeleteSess(r) \/ EndRevoke(r)

IndexNext ==
    \/ PutNew \/ ReadForRefresh \/ WriteBack \/ IndexTick
    \/ \E r \in Revokers : BeginRevoke(r) \/ RevokeStep(r) \/ FailRevoke(r)

IndexSpec == IndexInit /\ [][IndexNext]_indexVars

IndexTypeOK ==
    /\ \A i \in SessionIds : sess[i].expiry \in 0..MaxIndexTime + 2 /\ sess[i].version \in 0..MaxUpdates
    /\ \A k \in Lookups : index[k].ids \subseteq used /\ index[k].expiry \in 0..MaxIndexTime + 2
    /\ \A r \in Revokers : revoker[r].ids \subseteq used

\* Every stored session is found under its subject and its sid for as long as
\* it lives: the index outlives every session it lists, whatever refreshes,
\* deletes and prunings interleave (indexAddScript, queueIndexRemove).
SessionsAreIndexed ==
    \A i \in SessionIds : LiveSess(i) =>
        \A k \in KeysOf(i) : i \in index[k].ids /\ index[k].expiry >= sess[i].expiry

\* A deletion by subject that succeeded has deleted every session that existed
\* when it began, and no refresh in flight brings one back (the reason WithBackChannelLogout demands a SessionUpdater).
RevokedStayDeleted ==
    \A r \in Revokers : revoker[r].at = "done" /\ revoker[r].key = Subject =>
        \A i \in revoker[r].known : ~LiveSess(i)

-------------------------------------------------------------------------------
(***************************************************************************)
(* auth/oauth2: sign-ins of several tabs of one browser.  A login stores a *)
(* state and binds it to the browser with a cookie; the callback consumes  *)
(* the state.  A callback that cannot complete restarts the sign-in once,  *)
(* remembered in a cookie all tabs share.  A handler sees the cookies as   *)
(* they were when its request was sent.                                    *)
(***************************************************************************)

CONSTANTS Tabs,
          MaxPendingSignIns    \* maxPendingSignIns

ASSUME SignInAssumption == MaxPendingSignIns \in Nat \ {0}

VARIABLES
    shared,       \* is the state store shared by the replicas?
    cookies,      \* the browser's: pending states, oldest first; retry; session
    storedState,       \* states in the store: "fresh" or "expired"
    tab           \* per tab: its place, its state, the cookies its request sent

signinState == <<shared, cookies, storedState, tab>>
signinVars == <<signinState, faults>>

States == 1..(2 * Cardinality(Tabs) + MaxFaults + 1)
NoCookies == [pending |-> <<>>, retry |-> FALSE, session |-> FALSE]
IdleTab == [at |-> "idle", state |-> 0, sent |-> NoCookies]

SignInInit ==
    /\ shared \in BOOLEAN /\ cookies = NoCookies
    /\ storedState = [s \in States |-> "none"] /\ tab = [t \in Tabs |-> IdleTab] /\ faults = 0

Unused == {s \in States : /\ storedState[s] = "none" /\ \A t \in Tabs : tab[t].state # s
                          /\ \A i \in DOMAIN cookies.pending : cookies.pending[i] # s}

\* A tab sends a request with the browser's cookies.
Requests(t, place, state, jar) ==
    tab' = [tab EXCEPT ![t] = [at |-> place, state |-> state, sent |-> jar]]

Ends(t, place) == tab' = [tab EXCEPT ![t] = [IdleTab EXCEPT !.at = place]]

OpenLogin(t) ==
    /\ tab[t].at = "idle" /\ Requests(t, "login", 0, cookies)
    /\ UNCHANGED <<shared, cookies, storedState, faults>>

Without(pending, gone) == SelectSeq(pending, LAMBDA s : s \notin gone)

\* Fault model of Dropped: the older sign-ins stay.
DroppedNone(sent) == {}

\* startPending: of the cookies the request carried, the oldest beyond the
\* limit are expired; then the new state is bound.
Dropped(sent) == LET open == Len(sent) - (MaxPendingSignIns - 1) IN
    IF open > 0 THEN {sent[i] : i \in 1..open} ELSE {}

\* handleLogin; without a stored state there is no sign-in.
HandleLogin(t) ==
    /\ tab[t].at = "login"
    /\ \/ /\ Fault /\ Ends(t, "failed") /\ UNCHANGED <<cookies, storedState>>
       \/ LET s == CHOOSE u \in Unused : TRUE IN
            /\ storedState' = [storedState EXCEPT ![s] = "fresh"]
            /\ cookies' = [cookies EXCEPT !.pending = Append(Without(@, Dropped(tab[t].sent.pending)), s)]
            /\ Requests(t, "provider", s, NoCookies) /\ UNCHANGED faults
    /\ UNCHANGED shared

\* The user has signed in at the provider, which redirects to the callback.
ReturnToCallback(t) ==
    /\ tab[t].at = "provider" /\ Requests(t, "callback", tab[t].state, cookies)
    /\ UNCHANGED <<shared, cookies, storedState, faults>>

\* The user took longer than the state's lifetime, or than its record is kept.
StateAges(t) ==
    /\ tab[t].at = "provider" /\ Fault
    /\ storedState' = [storedState EXCEPT ![tab[t].state] = IF @ = "fresh" THEN "expired" ELSE "none"]
    /\ UNCHANGED <<shared, cookies, tab>>

\* Fault model of RestartedAlready: every failed callback restarts.
NeverRestarted(sent) == FALSE

RestartedAlready(sent) == sent.retry

\* recoverSignIn, on top of the cookies jar the handler has set so far.
Recover(t, jar) ==
    LET sent == tab[t].sent IN
    \/ /\ sent.session /\ cookies' = [jar EXCEPT !.retry = FALSE] /\ Ends(t, "returned")
    \/ /\ ~sent.session /\ RestartedAlready(sent)
       /\ cookies' = [jar EXCEPT !.retry = FALSE] /\ Ends(t, "failed")
    \/ /\ ~sent.session /\ ~RestartedAlready(sent)
       /\ cookies' = [jar EXCEPT !.retry = TRUE]
       /\ Requests(t, "login", 0, [jar EXCEPT !.retry = TRUE])

\* takeState: what the store gives for the state, which is then gone.  A
\* store of another replica does not know the state.
Taken(t, got) ==
    /\ storedState' = [storedState EXCEPT ![tab[t].state] = "none"]
    /\ \/ got = storedState[tab[t].state]
       \/ ~shared /\ got = "none"

\* handleCallback for a state this browser is not bound to, or that is unknown
\* or too old: no code is exchanged.
CallbackRecovers(t) ==
    LET s == tab[t].state
        bound == Contains(tab[t].sent.pending, s)
        jar == IF bound THEN [cookies EXCEPT !.pending = Without(@, {s})] ELSE cookies
    IN
    /\ tab[t].at = "callback"
    /\ \E got \in {"none", "fresh", "expired"} : Taken(t, got) /\ (bound => got # "fresh")
    /\ Recover(t, jar) /\ UNCHANGED <<shared, faults>>

\* handleCallback that completes; or the provider, the exchange, the token,
\* the hook or the session store fails.
CallbackCompletes(t) ==
    LET s == tab[t].state IN
    /\ tab[t].at = "callback" /\ Contains(tab[t].sent.pending, s) /\ Taken(t, "fresh")
    /\ \/ /\ Ends(t, "signed in") /\ UNCHANGED faults
          /\ cookies' = [cookies EXCEPT !.pending = Without(@, {s}), !.retry = FALSE, !.session = TRUE]
       \/ /\ Fault /\ Ends(t, "failed")
          /\ cookies' = [cookies EXCEPT !.pending = Without(@, {s})]
    /\ UNCHANGED shared

\* The user signs out or tries again after a failure; or leaves the provider's
\* page, and with it a pending state.
UserActs(t) ==
    /\ Fault /\ Ends(t, "idle")
    /\ \/ /\ tab[t].at \in {"failed", "signed in", "returned"}
          /\ cookies' = [cookies EXCEPT !.session = FALSE]
       \/ tab[t].at = "provider" /\ UNCHANGED cookies
    /\ UNCHANGED <<shared, storedState>>

\* The retry cookie lives for retryWindow.
RetryExpires ==
    /\ cookies.retry /\ Fault /\ cookies' = [cookies EXCEPT !.retry = FALSE]
    /\ UNCHANGED <<shared, storedState, tab>>

TabStep(t) == HandleLogin(t) \/ ReturnToCallback(t) \/ CallbackRecovers(t) \/ CallbackCompletes(t)

SignInNext ==
    \/ RetryExpires
    \/ \E t \in Tabs : OpenLogin(t) \/ TabStep(t) \/ StateAges(t) \/ UserActs(t)

SignInSpec == SignInInit /\ [][SignInNext]_signinVars /\ \A t \in Tabs : WF_signinVars(TabStep(t))

SignInTypeOK ==
    /\ cookies.retry \in BOOLEAN /\ cookies.session \in BOOLEAN
    /\ \A i \in DOMAIN cookies.pending : cookies.pending[i] \in States
    /\ \A s \in States : storedState[s] \in {"none", "fresh", "expired"}
    /\ \A t \in Tabs : tab[t].state \in States \cup {0}

\* Requests of several tabs carry the same cookies, so the limit on pending
\* sign-ins can be exceeded, but only by the logins in flight together: the
\* next login brings the number back (startPending drops all beyond it).
PendingIsBounded == Len(cookies.pending) <= MaxPendingSignIns + Cardinality(Tabs) - 1

\* Every sign-in ends, signed in or with an error page: the browser does not
\* go round between the application and the provider (recoverSignIn).
SignInSettled == \A t \in Tabs : tab[t].at \in {"idle", "failed", "signed in", "returned"}
================================================================================
