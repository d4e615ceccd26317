------------------------------ MODULE LiveConfig ------------------------------
(***************************************************************************)
(* Values that change under a running service: infra/secrets and           *)
(* core/config.                                                            *)
(***************************************************************************)
EXTENDS Integers, Sequences, Faults

-------------------------------------------------------------------------------
(***************************************************************************)
(* infra/secrets: the caching secret loader, for one key.  Callers of Get  *)
(* read the cached entry, or share one fetch of the key (singleflight);    *)
(* an entry that is due is refreshed in the background; Invalidate drops   *)
(* it.  The cache owns the bytes of a secret and zeroes them when it drops *)
(* or replaces the entry; a caller gets a copy.  Every fetch makes a new   *)
(* buffer; a buffer is known by its number.                                *)
(***************************************************************************)

CONSTANTS SecretCallers, SecretTTL, RefreshAfter, MaxStale,
          FetchTimeout,     \* fetchTimeout, the longest a fetch takes
          MaxSecretTime,    \* bound on the clock
          MaxBuffers        \* bound on the number of fetches

ASSUME SecretAssumption ==
    /\ {SecretTTL, RefreshAfter, MaxStale, FetchTimeout, MaxSecretTime, MaxBuffers} \subseteq Nat
    /\ RefreshAfter < SecretTTL

VARIABLES
    secretNow,   \* the clock
    buffers,     \* per buffer: when its fetch read the secret, and whether it was zeroed
    entry,       \* the cached entry, or NoEntry
    call,        \* the shared fetch of the key: idle, running or ended
    refreshing,  \* a background refresh was spawned and has not ended: the place it is at
    getter       \* per caller: its place, what it saw of the cache, its buffer

secretState == <<secretNow, buffers, entry, call, refreshing, getter>>
secretVars == <<secretState, faults>>

NoEntry == [buf |-> 0, expiresAt |-> 0, refreshAt |-> 0]
NoCall == [owner |-> "none", began |-> 0, stage |-> "idle", buf |-> 0]
Background == "background"
NewGetter == [at |-> "idle", expiredAt |-> -1, buf |-> 0]

SecretInit ==
    /\ secretNow = 0 /\ buffers = <<>> /\ entry = NoEntry /\ call = NoCall
    /\ refreshing = "no" /\ getter = [g \in SecretCallers |-> NewGetter] /\ faults = 0

Zeroed(b) == IF b = 0 THEN buffers ELSE [buffers EXCEPT ![b].live = FALSE]

\* Get returns: with a copy of a buffer (copyForCaller), or an error.
Returns(g) == getter' = [getter EXCEPT ![g] = NewGetter]

Expired == secretNow >= entry.expiresAt

\* Get: a cached value that has not expired is copied under the mutex, and a
\* refresh is spawned when it is due; otherwise the caller goes for a fetch.
GetSecret(g) ==
    /\ getter[g].at = "idle"
    /\ \/ /\ entry # NoEntry /\ ~Expired
          /\ Returns(g)
          /\ refreshing' = (IF secretNow > entry.refreshAt /\ refreshing = "no"
                            THEN "spawned" ELSE refreshing)
       \/ /\ entry = NoEntry \/ Expired
          /\ getter' = [getter EXCEPT ![g] =
                [@ EXCEPT !.at = "fetch", !.expiredAt = IF entry = NoEntry THEN -1 ELSE entry.expiresAt]]
          /\ UNCHANGED refreshing
    /\ UNCHANGED <<secretNow, buffers, entry, call, faults>>

\* singleflight.do: the first becomes the leader, the others wait for its call.
Leads == call.owner = "none"

StartCall(who) == call' = [owner |-> who, began |-> secretNow, stage |-> "run", buf |-> 0]

DoFetch(g) ==
    /\ getter[g].at = "fetch"
    /\ IF Leads THEN StartCall(g) /\ getter' = [getter EXCEPT ![g].at = "lead"]
                  ELSE getter' = [getter EXCEPT ![g].at = "wait"] /\ UNCHANGED call
    /\ UNCHANGED <<secretNow, buffers, entry, refreshing, faults>>

\* The spawned goroutine joins a running call or leads its own.
DoRefresh ==
    /\ refreshing = "spawned"
    /\ IF Leads THEN StartCall(Background) /\ refreshing' = "lead"
                           ELSE refreshing' = "wait" /\ UNCHANGED call
    /\ UNCHANGED <<secretNow, buffers, entry, getter, faults>>

\* fetchAndStore: the loader reads the secret, then the prior buffer is zeroed
\* and the new one stored under the mutex, with times counted from before the
\* fetch.
FetchAndStore ==
    /\ call.stage = "run" /\ Len(buffers) < MaxBuffers
    /\ LET b == Len(buffers) + 1
       IN /\ buffers' = Append(Zeroed(entry.buf), [read |-> call.began, live |-> TRUE])
          /\ entry' = [buf |-> b, expiresAt |-> call.began + SecretTTL,
                       refreshAt |-> call.began + RefreshAfter]
          /\ call' = [call EXCEPT !.stage = "ok", !.buf = b]
    /\ UNCHANGED <<secretNow, refreshing, getter, faults>>

\* The loader fails: unavailable, another error, a panic, or fetchTimeout.
FetchFails ==
    /\ call.stage = "run" /\ Fault
    /\ \E outcome \in {"unavailable", "error", "panic"} : call' = [call EXCEPT !.stage = outcome]
    /\ UNCHANGED <<secretNow, buffers, entry, refreshing, getter>>

\* Fault model of EndCall: a panic leaves the call in the map.
EndCallUnlessPanic ==
    /\ call.stage \in {"ok", "unavailable", "error"} /\ call' = NoCall
    /\ getter' = [g \in SecretCallers |->
            IF getter[g].at = "wait" \/ call.owner = g
            THEN [getter[g] EXCEPT !.at = call.stage, !.buf = call.buf] ELSE getter[g]]
    /\ refreshing' = (IF refreshing = "wait" \/ call.owner = Background THEN "no" ELSE refreshing)
    /\ UNCHANGED <<secretNow, buffers, entry, faults>>

\* The leader removes the call, panic or not, and the waiters take its result;
\* a background refresh only logs what went wrong.
EndCall ==
    /\ call.stage \in {"ok", "unavailable", "error", "panic"} /\ call' = NoCall
    /\ getter' = [g \in SecretCallers |->
            IF getter[g].at = "wait" \/ call.owner = g
            THEN [getter[g] EXCEPT !.at = call.stage, !.buf = call.buf] ELSE getter[g]]
    /\ refreshing' = (IF refreshing = "wait" \/ call.owner = Background THEN "no" ELSE refreshing)
    /\ UNCHANGED <<secretNow, buffers, entry, faults>>

\* A waiter's context ends: it leaves, the call goes on.
WaiterLeaves(g) ==
    /\ getter[g].at = "wait" /\ Fault /\ Returns(g)
    /\ UNCHANGED <<secretNow, buffers, entry, call, refreshing>>

\* Fault model of MayFallBack: any expired value that is still cached will do.
FallsBackAlways(g) == getter[g].expiredAt >= 0 /\ entry # NoEntry

\* A value that expired at most MaxStale ago, by the clock after the fetch.
MayFallBack(g) ==
    /\ getter[g].expiredAt >= 0 /\ secretNow - getter[g].expiredAt <= MaxStale
    /\ entry # NoEntry

\* What Get returns after the fetch: the value of the call, copied with no lock
\* held; when the loader is unavailable the entry, copied under the mutex, if
\* it may fall back to it; an error otherwise.
FinishGet(g) ==
    /\ getter[g].at \in {"ok", "unavailable", "error", "panic"} /\ Returns(g)
    /\ UNCHANGED <<secretNow, buffers, entry, call, refreshing, faults>>

Invalidate ==
    /\ entry # NoEntry
    /\ buffers' = Zeroed(entry.buf) /\ entry' = NoEntry
    /\ UNCHANGED <<secretNow, call, refreshing, getter, faults>>

\* Time passes; a running fetch ends within fetchTimeout.
SecretTick ==
    /\ secretNow < MaxSecretTime
    /\ call.stage = "run" => secretNow < call.began + FetchTimeout
    /\ secretNow' = secretNow + 1
    /\ UNCHANGED <<buffers, entry, call, refreshing, getter, faults>>

GetStep(g) == DoFetch(g) \/ FinishGet(g)

SecretNext ==
    \/ \E g \in SecretCallers : GetSecret(g) \/ GetStep(g) \/ WaiterLeaves(g)
    \/ DoRefresh \/ FetchAndStore \/ FetchFails \/ EndCall \/ Invalidate \/ SecretTick

SecretSpec ==
    /\ SecretInit /\ [][SecretNext]_secretVars
    /\ \A g \in SecretCallers : WF_secretVars(GetStep(g))
    /\ WF_secretVars(DoRefresh) /\ WF_secretVars(EndCall)

SecretTypeOK ==
    /\ secretNow \in 0 .. MaxSecretTime
    /\ \A b \in DOMAIN buffers : buffers[b] \in [read : 0 .. MaxSecretTime, live : BOOLEAN]
    /\ entry.buf \in 0 .. Len(buffers)
    /\ call.owner \in SecretCallers \cup {"none", Background}
    /\ call.stage \in {"idle", "run", "ok", "unavailable", "error", "panic"}
    /\ refreshing \in {"no", "spawned", "lead", "wait"}
    /\ \A g \in SecretCallers :
        getter[g].at \in {"idle", "fetch", "lead", "wait", "ok", "unavailable", "error", "panic"}

\* A secret that Get hands out from the cache was read at most TTL + MaxStale
\* ago, whatever refreshes, invalidations and failed or slow fetches happened
\* between the look at the entry and the fallback to it (cache.go, Get).
StaleIsBounded ==
    \A g \in SecretCallers :
        \/ getter[g].at = "idle" /\ entry # NoEntry /\ ~Expired
        \/ getter[g].at = "unavailable" /\ MayFallBack(g)
        => secretNow - buffers[entry.buf].read <= SecretTTL + MaxStale

\* No caller gets an emptied secret: "so the cache entry and the caller never
\* share a secret.String" (cache.go, Get).
NoEmptySecret ==
    \A g \in SecretCallers : getter[g].at = "ok" => buffers[getter[g].buf].live

\* Every Get that waits for a fetch returns, and so does a refresh: a panic or
\* an error of the loader leaves nothing behind that blocks the key.
SecretSettled ==
    \/ call.stage = "run"
    \/ refreshing = "no" /\ \A g \in SecretCallers : getter[g].at = "idle"

-------------------------------------------------------------------------------
(***************************************************************************)
(* core/config: hot reload of a configuration.  A FileWatcher hears of     *)
(* changes of the directory of its file (fsnotify), polls the real path of *)
(* the file, waits for a debounce and loads the file; an EnvReloader loads *)
(* the environment on SIGHUP.  Both Set the same Watchable, which stores   *)
(* the value and calls its subscribers one after the other.                *)
(*                                                                         *)
(* The file is a plain one, written in place or renamed over, or a link    *)
(* into a projected volume, changed by the swap of a directory link whose  *)
(* event does not name the file.  Contents are known by their generation.  *)
(***************************************************************************)

CONSTANTS Subscribers,
          MaxChanges     \* bound on the changes of the file and of the environment

ASSUME ConfigAssumption == MaxChanges \in Nat /\ Subscribers # {}

VARIABLES
    layout,        \* "plain" or "projected": how the file is kept
    disk,          \* what a reader of the file finds: its generation, whole or half written
    env,           \* the generation of the environment
    hups,          \* a SIGHUP is buffered in the channel
    fsEvents,      \* undelivered events: how many name the file, how many do not
    watch,         \* FileWatcher.Start: "new", "added", "running"
    lastResolved,  \* the generation of the real path when it was last resolved
    timer,         \* the debounce timer: "nil", "armed", or "spent" (fired, not cleared)
    unheard,       \* a change the watcher had no way to notice, or a load that failed
    setter,        \* per reloader: its place in Set, and the values it works with
    setMu,         \* the reloader that holds setMu, or "free"
    value,         \* the stored value
    derived        \* per subscriber: the value it was last called with

configState == <<layout, disk, env, hups, fsEvents, watch, lastResolved, timer, unheard,
                 setter, setMu, value, derived>>
configVars == <<configState, faults>>

Reloaders == {"file", "env"}
FileValue(d) == [source |-> "file", gen |-> d.gen, whole |-> ~d.torn]
EnvValue(n) == [source |-> "env", gen |-> n, whole |-> TRUE]
Resting == [at |-> "idle", old |-> FileValue([gen |-> 0, torn |-> FALSE]),
            new |-> FileValue([gen |-> 0, torn |-> FALSE]), todo |-> {}]

ConfigInit ==
    /\ layout \in {"plain", "projected"}
    /\ disk = [gen |-> 0, torn |-> FALSE] /\ env = 0 /\ hups = FALSE
    /\ fsEvents = [named |-> 0, other |-> 0]
    /\ watch = "new" /\ lastResolved = 0 /\ timer = "nil" /\ unheard = FALSE
    /\ setter = [r \in Reloaders |-> Resting] /\ setMu = "free"
    /\ value = Resting.new /\ derived = [s \in Subscribers |-> value]
    /\ faults = 0

reloadSide == <<setter, setMu, value, derived>>

\* An event reaches a watcher that was added to the directory.
Event(kind) ==
    fsEvents' = IF watch = "new" THEN fsEvents ELSE [fsEvents EXCEPT ![kind] = @ + 1]

\* A plain file is renamed over, or truncated and then filled; each raises an
\* event, and only a watch that was added before hears it.
Save ==
    /\ layout = "plain" /\ ~disk.torn /\ disk.gen < MaxChanges
    /\ \E torn \in BOOLEAN : disk' = [gen |-> disk.gen + 1, torn |-> torn]
    /\ Event("named") /\ unheard' = (unheard \/ watch = "new")
    /\ UNCHANGED <<layout, env, hups, watch, lastResolved, timer, reloadSide, faults>>

Fill ==
    /\ disk.torn /\ disk' = [disk EXCEPT !.torn = FALSE]
    /\ Event("named") /\ unheard' = (unheard \/ watch = "new")
    /\ UNCHANGED <<layout, env, hups, watch, lastResolved, timer, reloadSide, faults>>

\* The directory link is swapped.  Its event may be lost.  A swap before the
\* watcher resolved the path for the first time goes unheard.
Swap ==
    /\ layout = "projected" /\ disk.gen < MaxChanges
    /\ disk' = [disk EXCEPT !.gen = @ + 1]
    /\ \/ Event("other") /\ UNCHANGED faults
       \/ Fault /\ UNCHANGED fsEvents
    /\ unheard' = (unheard \/ watch # "running")
    /\ UNCHANGED <<layout, env, hups, watch, lastResolved, timer, reloadSide>>

\* Start adds the directory first and resolves the path afterwards.
AddWatch ==
    /\ watch = "new" /\ watch' = "added"
    /\ UNCHANGED <<layout, disk, env, hups, fsEvents, lastResolved, timer, unheard, reloadSide, faults>>

ResolveFirst ==
    /\ watch = "added" /\ watch' = "running" /\ lastResolved' = disk.gen
    /\ UNCHANGED <<layout, disk, env, hups, fsEvents, timer, unheard, reloadSide, faults>>

\* armDebounce: a new timer, or a Reset of the one there is, whose channel
\* the loop only reads while the timer is the armed one.
ArmDebounce == timer' = IF timer = "nil" THEN "armed" ELSE timer

Idle(r) == setter[r].at = "idle"

\* The loop takes an event; one that does not name the file counts when the
\* real path changed.  The path may fail to resolve in the middle of a swap.
TakeEvent(kind) ==
    /\ watch = "running" /\ Idle("file") /\ fsEvents[kind] > 0
    /\ fsEvents' = [fsEvents EXCEPT ![kind] = @ - 1]
    /\ \/ /\ kind = "named" \/ disk.gen # lastResolved
          /\ ArmDebounce /\ lastResolved' = disk.gen
          /\ UNCHANGED faults
       \/ /\ kind = "other" /\ disk.gen = lastResolved
          /\ UNCHANGED <<timer, lastResolved, faults>>
       \/ /\ Fault /\ (IF kind = "named" THEN ArmDebounce ELSE UNCHANGED timer)
          /\ UNCHANGED lastResolved
    /\ UNCHANGED <<layout, disk, env, hups, watch, unheard, reloadSide>>

\* Fault model of Poll: no poll, only events.
PollNever ==
    FALSE /\ UNCHANGED configVars

\* The ticker of the loop: the resolved path is compared once more.
Poll ==
    /\ watch = "running" /\ Idle("file") /\ layout = "projected" /\ disk.gen # lastResolved
    /\ lastResolved' = disk.gen /\ ArmDebounce
    /\ UNCHANGED <<layout, disk, env, hups, fsEvents, watch, unheard, reloadSide, faults>>

\* Fault model of Disarm: the channel is cleared and the timer is kept.
DisarmKeepsTimer == timer' = "spent"

Disarm == timer' = "nil"

Begins(r, new) == setter' = [setter EXCEPT ![r] = [@ EXCEPT !.at = "lock", !.new = new]]

\* The timer fires: reload() reads the file, half written or not, and goes on
\* to Set what it parsed.  A load that fails keeps the value there is.
DebounceFires ==
    /\ timer = "armed" /\ Idle("file") /\ Disarm
    /\ \/ /\ Begins("file", FileValue(disk)) /\ unheard' = FALSE /\ UNCHANGED faults
       \/ /\ disk.torn /\ UNCHANGED <<setter, unheard, faults>>
       \/ /\ Fault /\ unheard' = TRUE /\ UNCHANGED setter
    /\ UNCHANGED <<layout, disk, env, hups, fsEvents, watch, lastResolved, setMu, value, derived>>

\* The environment changes and SIGHUP is sent: one signal is buffered, more
\* are dropped.
ChangeEnv ==
    /\ env < MaxChanges /\ env' = env + 1 /\ hups' = TRUE
    /\ UNCHANGED <<layout, disk, fsEvents, watch, lastResolved, timer, unheard, reloadSide, faults>>

TakeSignal ==
    /\ hups /\ Idle("env") /\ hups' = FALSE
    /\ Begins("env", EnvValue(env))
    /\ UNCHANGED <<layout, disk, env, fsEvents, watch, lastResolved, timer, unheard,
                   setMu, value, derived, faults>>

\* Fault model of LockSet: the value is stored with no mutex over the calls.
LockSetNever(r) == UNCHANGED setMu

LockSet(r) == setMu = "free" /\ setMu' = r

\* Set: under setMu the old value is read, the new one stored, and the
\* subscribers there are are called in any order; a panic of one is recovered.
Store(r) ==
    /\ setter[r].at = "lock" /\ LockSet(r)
    /\ value' = setter[r].new
    /\ setter' = [setter EXCEPT ![r] =
            [@ EXCEPT !.at = "call", !.old = value, !.todo = Subscribers]]
    /\ UNCHANGED <<layout, disk, env, hups, fsEvents, watch, lastResolved, timer, unheard, derived, faults>>

Notify(r) ==
    /\ setter[r].at = "call"
    /\ \E s \in setter[r].todo :
        /\ derived' = [derived EXCEPT ![s] = setter[r].new]
        /\ setter' = [setter EXCEPT ![r].todo = @ \ {s}]
    /\ UNCHANGED <<layout, disk, env, hups, fsEvents, watch, lastResolved, timer, unheard, setMu, value, faults>>

UnlockSet(r) ==
    /\ setter[r].at = "call" /\ setter[r].todo = {}
    /\ setter' = [setter EXCEPT ![r] = Resting]
    /\ setMu' = (IF setMu = r THEN "free" ELSE setMu)
    /\ UNCHANGED <<layout, disk, env, hups, fsEvents, watch, lastResolved, timer, unheard, value, derived, faults>>

SetStep(r) == Store(r) \/ Notify(r) \/ UnlockSet(r)
LoopStep == TakeEvent("named") \/ TakeEvent("other") \/ Poll \/ DebounceFires
StartWatch == AddWatch \/ ResolveFirst

ConfigNext ==
    \/ Save \/ Fill \/ Swap \/ StartWatch \/ LoopStep
    \/ ChangeEnv \/ TakeSignal \/ \E r \in Reloaders : SetStep(r)

ConfigSpec ==
    /\ ConfigInit /\ [][ConfigNext]_configVars
    /\ WF_configVars(Fill) /\ WF_configVars(StartWatch) /\ WF_configVars(LoopStep)
    /\ WF_configVars(TakeSignal) /\ \A r \in Reloaders : WF_configVars(SetStep(r))

ConfigTypeOK ==
    /\ disk \in [gen : 0 .. MaxChanges, torn : BOOLEAN] /\ env \in 0 .. MaxChanges
    /\ fsEvents \in [named : 0 .. 2 * MaxChanges, other : 0 .. MaxChanges]
    /\ watch \in {"new", "added", "running"} /\ lastResolved \in 0 .. MaxChanges
    /\ timer \in {"nil", "armed"} /\ setMu \in Reloaders \cup {"free"}
    /\ \A r \in Reloaders : setter[r].at \in {"idle", "lock", "call"} /\ setter[r].todo \subseteq Subscribers

\* The subscribers of a Watchable see its values in the order they were
\* stored: what a subscriber is told is the old value is the value it was last
\* called with, and between two Sets what it derived is the stored value, also
\* when the file and the environment change at once (watchable.go, Set).
SubscribersFollow ==
    /\ \A r \in Reloaders, s \in Subscribers :
        s \in setter[r].todo => derived[s] = setter[r].old
    /\ (\A r \in Reloaders : setter[r].at # "call") => \A s \in Subscribers : derived[s] = value

\* The reloaders come to rest with the last content of the file and of the
\* environment loaded, whatever events were lost, coalesced, or raised by a
\* half-written file; not so a change made before the path was first resolved
\* (there is no initial load) or one whose load failed.
ConfigSettled ==
    /\ watch = "running" /\ ~disk.torn /\ ~hups
    /\ \A r \in Reloaders : Idle(r)
    /\ value.source = "file" => value = FileValue(disk) \/ unheard
    /\ value.source = "env" => value = EnvValue(env)
================================================================================
