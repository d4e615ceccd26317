------------------------------ MODULE K8sLease ------------------------------
(***************************************************************************)
(* infra/leaderelection/k8slease: one Elector driven by client-go's        *)
(* LeaderElector.  client-go starts OnStartedLeading in a goroutine it     *)
(* never joins and calls OnStoppedLeading, deferred, in Run's goroutine;   *)
(* the term coordinator decides which of the two wins.  Run is one-shot    *)
(* and its caller calls it again, so goroutines of an earlier Run may      *)
(* still be alive.                                                         *)
(*                                                                         *)
(* A term is a slot of Slots: the *term of one Run, with the goroutine and *)
(* the ctx that belong to it.                                              *)
(***************************************************************************)
EXTENDS Integers, FiniteSets

CONSTANTS Slots,              \* terms that may exist at once (bound)
          LeaseDrainTimeouts  \* with WithCallbackDrainTimeout (TRUE), without it (FALSE), or both

K8sAssumption == IsFiniteSet(Slots) /\ Slots # {} /\ LeaseDrainTimeouts \subseteq BOOLEAN

VARIABLES drainTimeout,  \* Elector.drainTimeout is set
          run,           \* where Run's goroutine is
          cur,           \* the term of the current (or latest) Run
          stopReq,       \* Run's ctx is cancelled
          lease,         \* the Lease object, as this replica may find it
          leaseLeader,   \* Elector.leader
          g,             \* per term: the OnStartedLeading goroutine
          ctxDone,       \* per term: leaderCtx is cancelled
          tm,            \* per term: the coordinator's flags
          cbDone,        \* per term: the buffered channel
          lost,          \* per term: how often OnLost ran
          orphaned       \* a drain timed out in this process: it has to be replaced

leaseVars == <<drainTimeout, run, cur, stopReq, lease, leaseLeader, g, ctxDone, tm, cbDone, lost,
               orphaned>>
goroutine == <<g, ctxDone, tm, cbDone, lost>>
process == <<drainTimeout, orphaned>>

NewTerm == [launched |-> FALSE, acquired |-> FALSE, stopped |-> FALSE]

\* "spawned": not scheduled yet; "skip": saw a cancelled ctx, markLaunched is next;
\* "checked": saw a live ctx; "claimed": Store(true) is next; "running": in
\* OnAcquired; "exit": the deferred send is next.
GPCs == {"none", "spawned", "skip", "checked", "claimed", "running", "exit"}
RunPCs == {"idle", "acquiring", "renewing", "stopping", "clear", "drain",
           "drained", "onlost", "settle"}

LeaseTypeOK ==
    /\ drainTimeout \in LeaseDrainTimeouts
    /\ run \in RunPCs /\ cur \in Slots
    /\ stopReq \in BOOLEAN /\ leaseLeader \in BOOLEAN
    /\ lease \in {"free", "mine", "peer"}
    /\ g \in [Slots -> GPCs]
    /\ ctxDone \in [Slots -> BOOLEAN]
    /\ tm \in [Slots -> [launched: BOOLEAN, acquired: BOOLEAN, stopped: BOOLEAN]]
    /\ cbDone \in [Slots -> {"empty", "full"}]
    /\ lost \in [Slots -> 0..1]
    /\ orphaned \in BOOLEAN

LeaseInit ==
    /\ drainTimeout \in LeaseDrainTimeouts
    /\ run = "idle" /\ cur \in Slots /\ stopReq = FALSE /\ leaseLeader = FALSE
    /\ lease \in {"free", "peer"}
    /\ g = [t \in Slots |-> "none"]
    /\ ctxDone = [t \in Slots |-> FALSE]
    /\ tm = [t \in Slots |-> NewTerm]
    /\ cbDone = [t \in Slots |-> "empty"]
    /\ lost = [t \in Slots |-> 0]
    /\ orphaned = FALSE

-----------------------------------------------------------------------------
(* Run's goroutine.                                                        *)

\* Run: a fresh term, NewLeaderElector, le.Run.  A slot whose goroutine is gone is
\* reused for the new *term.
LeaseRun(t) ==
         /\ run = "idle" /\ ~orphaned /\ g[t] = "none"
         /\ run' = "acquiring" /\ cur' = t
         /\ \E cancelledAlready \in BOOLEAN : stopReq' = cancelledAlready
         /\ ctxDone' = [ctxDone EXCEPT ![t] = stopReq']
         /\ tm' = [tm EXCEPT ![t] = NewTerm]
         /\ cbDone' = [cbDone EXCEPT ![t] = "empty"]
         /\ lost' = [lost EXCEPT ![t] = 0]
         /\ UNCHANGED <<process, lease, leaseLeader, g>>

\* client-go acquires the Lease and does `go OnStartedLeading(leaderCtx)`.
LeaseAcquired ==
    /\ run = "acquiring" /\ lease = "free"
    /\ run' = "renewing" /\ lease' = "mine"
    /\ g' = [g EXCEPT ![cur] = "spawned"]
    /\ UNCHANGED <<process, cur, stopReq, leaseLeader, ctxDone, tm, cbDone, lost>>

\* client-go gives up acquiring because ctx is cancelled: no goroutine, but the
\* deferred OnStoppedLeading runs all the same.
AcquireGivesUp ==
    /\ run = "acquiring" /\ stopReq
    /\ run' = "stopping"
    /\ UNCHANGED <<process, cur, stopReq, lease, leaseLeader, goroutine>>

\* renew returns - ctx cancelled, or the renew deadline passed - and leaderCtx is
\* cancelled before the deferred OnStoppedLeading.  The Lease is handed back if
\* that succeeds, or expires later.
RenewEnds ==
    /\ run = "renewing"
    /\ run' = "stopping"
    /\ ctxDone' = [ctxDone EXCEPT ![cur] = TRUE]
    /\ lease' \in {lease, "free"}
    /\ UNCHANGED <<process, cur, stopReq, leaseLeader, g, tm, cbDone, lost>>

\* term.stop(), under the term's mutex.
StopTerm ==
    /\ run = "stopping"
    /\ tm' = [tm EXCEPT ![cur].stopped = TRUE]
    /\ run' = "clear"
    /\ UNCHANGED <<process, cur, stopReq, lease, leaseLeader, g, ctxDone, cbDone, lost>>

\* onStoppedLeading stores leader=false after stop() gave the mutex back, and
\* reports whether there is a term to drain.
ClearLeader ==
    /\ run = "clear"
    /\ leaseLeader' = FALSE
    /\ run' = IF tm[cur].acquired THEN "drain" ELSE "settle"
    /\ UNCHANGED <<process, cur, stopReq, lease, goroutine>>

\* Fault model: a drained term skips OnLost.
DrainedNoLost ==
    /\ run = "drain" /\ cbDone[cur] = "full"
    /\ cbDone' = [cbDone EXCEPT ![cur] = "empty"]
    /\ leaseLeader' = FALSE
    /\ run' = "settle"
    /\ UNCHANGED <<process, cur, stopReq, lease, g, ctxDone, tm, lost>>

\* awaitCallbackDrain receives cbDone ...
LeaseDrained ==
    /\ run = "drain" /\ cbDone[cur] = "full"
    /\ cbDone' = [cbDone EXCEPT ![cur] = "empty"]
    /\ run' = "drained"
    /\ UNCHANGED <<process, cur, stopReq, lease, leaseLeader, g, ctxDone, tm, lost>>

\* ... or its deadline fires first.
LeaseDrainTimeout ==
    /\ drainTimeout /\ run = "drain"
    /\ run' = "drained" /\ orphaned' = TRUE
    /\ UNCHANGED <<drainTimeout, cur, stopReq, lease, leaseLeader, goroutine>>

\* Fault model: no second Store(false).
ClearAgainDropped ==
    /\ run = "drained"
    /\ run' = "onlost"
    /\ UNCHANGED <<process, cur, stopReq, lease, leaseLeader, goroutine>>

\* "Re-assert leader=false AFTER the OnAcquired goroutine has drained."
ClearAgain ==
    /\ run = "drained"
    /\ leaseLeader' = FALSE
    /\ run' = "onlost"
    /\ UNCHANGED <<process, cur, stopReq, lease, goroutine>>

\* Fault model: an OnLost that panics is called again.
OnLostRetried ==
    /\ run = "onlost"
    /\ lost' = [lost EXCEPT ![cur] = @ + 1]
    /\ run' \in {"settle", "onlost"}
    /\ UNCHANGED <<process, cur, stopReq, lease, leaseLeader, g, ctxDone, tm, cbDone>>

\* runOnLost: once, whether it panics or not.
LeaseOnLost ==
    /\ run = "onlost"
    /\ lost' = [lost EXCEPT ![cur] = @ + 1]
    /\ run' = "settle"
    /\ UNCHANGED <<process, cur, stopReq, lease, leaseLeader, g, ctxDone, tm, cbDone>>

\* Fault model: settle waits for a goroutine that was perhaps never launched.
MustSettleAlways(t) == ~tm[t].acquired

\* settleState: is there a launched goroutine that nobody drained?
MustSettle(t) == tm[t].launched /\ ~tm[t].acquired

\* settleStarted decides once, then receives cbDone; Run returns.
SettleStarted ==
    /\ run = "settle"
    /\ MustSettle(cur) => cbDone[cur] = "full"
    /\ cbDone' = IF MustSettle(cur) THEN [cbDone EXCEPT ![cur] = "empty"] ELSE cbDone
    /\ run' = "idle"
    /\ UNCHANGED <<process, cur, stopReq, lease, leaseLeader, g, ctxDone, tm, lost>>

-----------------------------------------------------------------------------
(* The OnStartedLeading goroutine of term t.                               *)

GTo(t, l) == g' = [g EXCEPT ![t] = l]
Goroutine(t) == UNCHANGED <<process, run, cur, stopReq, lease, ctxDone, lost>>

\* if leaderCtx.Err() != nil
CheckCtx(t) ==
    /\ g[t] = "spawned"
    /\ GTo(t, IF ctxDone[t] THEN "skip" ELSE "checked")
    /\ Goroutine(t) /\ UNCHANGED <<leaseLeader, tm, cbDone>>

MarkLaunched(t) ==
    /\ g[t] = "skip"
    /\ tm' = [tm EXCEPT ![t].launched = TRUE]
    /\ GTo(t, "exit")
    /\ Goroutine(t) /\ UNCHANGED <<leaseLeader, cbDone>>

\* Fault model: claim does not look at stopped.
ClaimLate(t) ==
    /\ g[t] = "checked"
    /\ tm' = [tm EXCEPT ![t].launched = TRUE, ![t].acquired = TRUE]
    /\ GTo(t, "claimed")
    /\ Goroutine(t) /\ UNCHANGED <<leaseLeader, cbDone>>

\* term.claim(), under the term's mutex.
Claim(t) ==
    /\ g[t] = "checked"
    /\ IF tm[t].stopped
       THEN tm' = [tm EXCEPT ![t].launched = TRUE] /\ GTo(t, "exit")
       ELSE /\ tm' = [tm EXCEPT ![t].launched = TRUE, ![t].acquired = TRUE]
            /\ GTo(t, "claimed")
    /\ Goroutine(t) /\ UNCHANGED <<leaseLeader, cbDone>>

\* leader.Store(true); cb.OnAcquired(leaderCtx)
OnAcquired(t) ==
    /\ g[t] = "claimed"
    /\ leaseLeader' = TRUE
    /\ GTo(t, "running")
    /\ Goroutine(t) /\ UNCHANGED <<tm, cbDone>>

\* OnAcquired returns or panics.
OnAcquiredReturns(t) ==
    /\ g[t] = "running"
    /\ GTo(t, "exit")
    /\ Goroutine(t) /\ UNCHANGED <<leaseLeader, tm, cbDone>>

\* The deferred send.
SendDone(t) ==
    /\ g[t] = "exit"
    /\ cbDone' = [cbDone EXCEPT ![t] = "full"]
    /\ GTo(t, "none")
    /\ Goroutine(t) /\ UNCHANGED <<leaseLeader, tm>>

-----------------------------------------------------------------------------
(* The environment.                                                        *)

\* The caller cancels Run's ctx; leaderCtx is its child.
LeaseCancel ==
    /\ run # "idle" /\ ~stopReq
    /\ stopReq' = TRUE
    /\ ctxDone' = [ctxDone EXCEPT ![cur] = TRUE]
    /\ UNCHANGED <<process, run, cur, lease, leaseLeader, g, tm, cbDone, lost>>

\* A Lease nobody renews is taken by a peer, and a peer's Lease becomes free.
LeaseMoves ==
    /\ run # "renewing"
    /\ lease' \in {"free", "peer"} \ {lease}
    /\ UNCHANGED <<process, run, cur, stopReq, leaseLeader, goroutine>>

\* The orchestrator replaces a process whose Run reported ErrCallbackDrainTimeout.
LeaseReplace ==
    /\ run = "idle" /\ orphaned
    /\ leaseLeader' = FALSE /\ stopReq' = FALSE /\ orphaned' = FALSE
    /\ g' = [t \in Slots |-> "none"]
    /\ ctxDone' = [t \in Slots |-> FALSE]
    /\ tm' = [t \in Slots |-> NewTerm]
    /\ cbDone' = [t \in Slots |-> "empty"]
    /\ lost' = [t \in Slots |-> 0]
    /\ UNCHANGED <<drainTimeout, run, cur, lease>>

-----------------------------------------------------------------------------
RunStep == \/ LeaseAcquired \/ AcquireGivesUp \/ StopTerm \/ ClearLeader
           \/ LeaseDrained \/ LeaseDrainTimeout \/ ClearAgain \/ LeaseOnLost \/ SettleStarted

GStep(t) == CheckCtx(t) \/ MarkLaunched(t) \/ Claim(t) \/ OnAcquired(t) \/ SendDone(t)

LeaseNext ==
    \/ RunStep \/ RenewEnds
    \/ \E t \in Slots : LeaseRun(t) \/ GStep(t) \/ OnAcquiredReturns(t)
    \/ LeaseCancel
    \/ LeaseMoves
    \/ LeaseReplace

LeaseSpec == LeaseInit /\ [][LeaseNext]_leaseVars

-----------------------------------------------------------------------------
(* Properties.                                                             *)

\* Once Run has returned, OnLost has run once if the term was claimed and not at
\* all otherwise; and OnLost never runs before its OnAcquired returned, unless
\* the drain timed out.
CallbacksBalance ==
    /\ run = "idle" => \A t \in Slots : tm[t].acquired <=> lost[t] = 1
    /\ \A t \in Slots : lost[t] = 1 =>
         tm[t].acquired /\ (g[t] \in {"none", "exit"} \/ orphaned)

\* "when Run returns, OnAcquired is never still about to fire": only the current
\* Run has a goroutine in, or on its way into, OnAcquired, so two Runs of an
\* elector never overlap in leader work.  A drain timeout ends this: the process is
\* then to be replaced.
NoLateOnAcquired ==
    orphaned \/ \A t \in Slots : g[t] \in {"claimed", "running"} => run # "idle" /\ t = cur

\* "a late claim cannot leave IsLeader() stuck true": as long as no drain timed out,
\* the flag is down once Run has returned, and while a later Run has not claimed
\* its own term.
NotLeaderAfterRun ==
    leaseLeader /\ ~orphaned => run # "idle" /\ tm[cur].acquired

\* The three together: every term that was claimed ends in one OnLost, and nothing of
\* it outlives its Run.
LeaderTermsBalance == NoLateOnAcquired /\ CallbacksBalance /\ NotLeaderAfterRun
=============================================================================
