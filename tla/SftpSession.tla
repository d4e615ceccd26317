---------------------------- MODULE SftpSession ----------------------------
(***************************************************************************)
(* infra/storage/sftpbackend: the connection of an SFTP backend.  Every    *)
(* operation leases the current session (a counter), dialling one when     *)
(* there is none; one dial runs at a time and a failed one is followed by  *)
(* a cool-down.  A health probe that fails retires the session; Close      *)
(* retires it for good.  A retired session is closed by whoever sees its   *)
(* last lease gone.  The mutex b.mu covers installing, leasing and the     *)
(* probe's retirement; releasing a lease takes no lock.                    *)
(***************************************************************************)
EXTENDS Integers, Sequences, Faults

CONSTANTS SftpUsers,
          Prober,         \* the caller of Healthy
          MaxSessions     \* bound on the sessions dialled

ASSUME SftpAssumption == MaxSessions \in Nat /\ Prober \notin SftpUsers

VARIABLES
    sessions,    \* per session: refs, retire, and whether its connection is open
    current,     \* the installed session, or 0
    sftpClosed,  \* the closed latch
    dialer,      \* who dials, or "none"
    cooling,     \* the last dial failed less than dialCooldown ago
    sftpUser,        \* per caller: its place and the session it has to do with
    sftpCloser       \* Close: its place and the session it took

sftpState == <<sessions, current, sftpClosed, dialer, cooling, sftpUser, sftpCloser>>
sftpVars == <<sftpState, faults>>

Callers == SftpUsers \cup {Prober}
NobodyDials == "none"
At(p, place) == sftpUser[p].at = place
Goes(p, place) == sftpUser' = [sftpUser EXCEPT ![p].at = place]
GoesWith(p, place, s) == sftpUser' = [sftpUser EXCEPT ![p] = [at |-> place, sess |-> s]]
Leaves(p) == GoesWith(p, "idle", 0)

SftpInit ==
    /\ sessions = <<>> /\ current = 0 /\ sftpClosed = FALSE
    /\ dialer = NobodyDials /\ cooling = FALSE
    /\ sftpUser = [p \in Callers |-> [at |-> "idle", sess |-> 0]]
    /\ sftpCloser = [at |-> "out", sess |-> 0] /\ faults = 0

\* b.mu is held by the prober between its two looks at the session it retires.
MuFree == ~At(Prober, "look")

\* getClient, or Healthy: a closed backend refuses; a lease is tried first.
BeginTransfer(p) ==
    /\ At(p, "idle") /\ ~sftpClosed
    /\ Goes(p, IF p = Prober THEN "copy" ELSE "lease")
    /\ UNCHANGED <<sessions, current, sftpClosed, dialer, cooling, sftpCloser, faults>>

\* tryLease: under the read lock, on the session that is installed.
TryLease(p) ==
    /\ (At(p, "lease") \/ At(p, "again")) /\ MuFree
    /\ \/ /\ current # 0 /\ ~sftpClosed
          /\ sessions' = [sessions EXCEPT ![current].refs = @ + 1]
          /\ GoesWith(p, "using", current)
       \/ /\ current = 0 \/ sftpClosed
          /\ IF At(p, "lease") THEN Goes(p, "connect") ELSE Leaves(p)
          /\ UNCHANGED sessions
    /\ UNCHANGED <<current, sftpClosed, dialer, cooling, sftpCloser, faults>>

\* Healthy copies the client, with no lease; a lazy backend connects first.
CopyClient ==
    /\ At(Prober, "copy") \/ At(Prober, "again")
    /\ \/ current # 0 /\ GoesWith(Prober, "stat", current)
       \/ current = 0 /\ (IF At(Prober, "copy") THEN Goes(Prober, "connect") ELSE Leaves(Prober))
    /\ UNCHANGED <<sessions, current, sftpClosed, dialer, cooling, sftpCloser, faults>>

\* connect, up to the dial: a closed backend and a cool-down end it, an
\* installed session is enough, a running dial is waited for.
Connect(p) ==
    /\ At(p, "connect")
    /\ \/ (sftpClosed \/ (current = 0 /\ cooling)) /\ Leaves(p) /\ UNCHANGED dialer
       \/ ~sftpClosed /\ current # 0 /\ Goes(p, "again") /\ UNCHANGED dialer
       \/ /\ ~sftpClosed /\ current = 0 /\ ~cooling
          /\ IF dialer = NobodyDials THEN dialer' = p /\ Goes(p, "dial")
                                     ELSE Goes(p, "parked") /\ UNCHANGED dialer
    /\ UNCHANGED <<sessions, current, sftpClosed, cooling, sftpCloser, faults>>

\* Fault model of MayInstall: a session is installed whatever happened during
\* the dial.
InstallAnyway == TRUE

MayInstall == ~sftpClosed

\* dialAndInstall: the dial fails, or gives a session that is installed unless
\* the backend was closed meanwhile.
Dial(p) ==
    /\ At(p, "dial") /\ MuFree
    /\ \/ Fault /\ Goes(p, "failed") /\ UNCHANGED <<sessions, current>>
       \/ /\ Len(sessions) < MaxSessions
          /\ sessions' = Append(sessions, [refs |-> 0, retired |-> FALSE, open |-> MayInstall])
          /\ current' = (IF MayInstall THEN Len(sessions) + 1 ELSE current)
          /\ Goes(p, IF MayInstall THEN "dialled" ELSE "failed") /\ UNCHANGED faults
    /\ UNCHANGED <<sftpClosed, dialer, cooling, sftpCloser>>

\* Fault model of WakeParked: those who wait for the dial are forgotten.
WakeNobody(p) == sftpUser

\* Those who waited for the dial go back to connect.
WakeParked(p) == [q \in Callers |-> IF At(q, "parked") THEN [sftpUser[q] EXCEPT !.at = "connect"] ELSE sftpUser[q]]

EndDial(p) ==
    /\ At(p, "failed") \/ At(p, "dialled")
    /\ dialer' = NobodyDials /\ cooling' = At(p, "failed")
    /\ sftpUser' = [WakeParked(p) EXCEPT ![p] =
            IF At(p, "failed") THEN [at |-> "idle", sess |-> 0] ELSE [@ EXCEPT !.at = "again"]]
    /\ UNCHANGED <<sessions, current, sftpClosed, sftpCloser, faults>>

CoolDown ==
    /\ cooling /\ cooling' = FALSE
    /\ UNCHANGED <<sessions, current, sftpClosed, dialer, sftpUser, sftpCloser, faults>>

\* release, in two steps: the counter goes down, and whoever brings it to zero
\* closes a session that is retired.
ReleaseLease(p) ==
    /\ At(p, "using")
    /\ sessions' = [sessions EXCEPT ![sftpUser[p].sess].refs = @ - 1]
    /\ IF sessions[sftpUser[p].sess].refs = 1 THEN Goes(p, "last") ELSE Leaves(p)
    /\ UNCHANGED <<current, sftpClosed, dialer, cooling, sftpCloser, faults>>

ClosedIf(s, condition) == [sessions EXCEPT ![s].open = @ /\ ~condition]

LastOut(p) ==
    /\ At(p, "last")
    /\ sessions' = ClosedIf(sftpUser[p].sess, sessions[sftpUser[p].sess].retired)
    /\ Leaves(p)
    /\ UNCHANGED <<current, sftpClosed, dialer, cooling, sftpCloser, faults>>

\* The probe of the copied client: it fails on a fault or a closed session.
Stat ==
    /\ At(Prober, "stat")
    /\ \/ sessions[sftpUser[Prober].sess].open /\ Leaves(Prober) /\ UNCHANGED faults
       \/ ~sessions[sftpUser[Prober].sess].open /\ Goes(Prober, "drop") /\ UNCHANGED faults
       \/ Fault /\ Goes(Prober, "drop")
    /\ UNCHANGED <<sessions, current, sftpClosed, dialer, cooling, sftpCloser>>

\* Fault model of Retired: the mark is forgotten.
RetiredUnmarked(s) == sessions

\* markRetired, first half: the mark; the second half is SeesNoLease.
Retired(s) == [sessions EXCEPT ![s].retired = TRUE]

\* Healthy drops the session it probed if it is still the installed one.
DropSession ==
    /\ At(Prober, "drop")
    /\ \/ /\ current = sftpUser[Prober].sess /\ current' = 0
          /\ sessions' = Retired(sftpUser[Prober].sess) /\ Goes(Prober, "look")
       \/ current # sftpUser[Prober].sess /\ Leaves(Prober) /\ UNCHANGED <<sessions, current>>
    /\ UNCHANGED <<sftpClosed, dialer, cooling, sftpCloser, faults>>

ProbeSeesNoLease ==
    /\ At(Prober, "look") /\ Leaves(Prober)
    /\ sessions' = ClosedIf(sftpUser[Prober].sess, sessions[sftpUser[Prober].sess].refs = 0)
    /\ UNCHANGED <<current, sftpClosed, dialer, cooling, sftpCloser, faults>>

\* Close: the latch; the session is taken under the lock; it is marked, and
\* closed if no lease is out; otherwise Close waits, and closes it anyway when
\* the grace is over.
CloseStep(from, to) == sftpCloser.at = from /\ sftpCloser' = [sftpCloser EXCEPT !.at = to]

CloseLatch ==
    /\ CloseStep("out", "detach") /\ sftpClosed' = TRUE
    /\ UNCHANGED <<sessions, current, dialer, cooling, sftpUser, faults>>

CloseDetach ==
    /\ sftpCloser.at = "detach" /\ MuFree /\ current' = 0
    /\ sftpCloser' = [at |-> IF current = 0 THEN "done" ELSE "mark", sess |-> current]
    /\ UNCHANGED <<sessions, sftpClosed, dialer, cooling, sftpUser, faults>>

CloseMark ==
    /\ CloseStep("mark", "seen") /\ sessions' = Retired(sftpCloser.sess)
    /\ UNCHANGED <<current, sftpClosed, dialer, cooling, sftpUser, faults>>

CloseSeesNoLease ==
    /\ CloseStep("seen", "wait")
    /\ sessions' = ClosedIf(sftpCloser.sess, sessions[sftpCloser.sess].refs = 0)
    /\ UNCHANGED <<current, sftpClosed, dialer, cooling, sftpUser, faults>>

CloseWaits ==
    /\ sftpCloser.at = "wait"
    /\ \/ ~sessions[sftpCloser.sess].open /\ sftpCloser' = [sftpCloser EXCEPT !.at = "done"] /\ UNCHANGED <<sessions, faults>>
       \/ /\ sessions[sftpCloser.sess].open /\ Fault
          /\ sessions' = ClosedIf(sftpCloser.sess, TRUE) /\ sftpCloser' = [sftpCloser EXCEPT !.at = "forced"]
    /\ UNCHANGED <<current, sftpClosed, dialer, cooling, sftpUser>>

CloseEnds == CloseDetach \/ CloseMark \/ CloseSeesNoLease \/ CloseWaits
OpStep(p) ==
    \/ p # Prober /\ TryLease(p)
    \/ Connect(p) \/ Dial(p) \/ EndDial(p) \/ ReleaseLease(p) \/ LastOut(p)
ProbeStep == CopyClient \/ Stat \/ DropSession \/ ProbeSeesNoLease

SftpNext ==
    \/ \E p \in Callers : BeginTransfer(p) \/ OpStep(p)
    \/ ProbeStep \/ CoolDown \/ CloseLatch \/ CloseEnds

SftpSpec ==
    /\ SftpInit /\ [][SftpNext]_sftpVars
    /\ \A p \in Callers : WF_sftpVars(OpStep(p))
    /\ WF_sftpVars(ProbeStep) /\ WF_sftpVars(CloseEnds)

SftpTypeOK ==
    /\ \A s \in DOMAIN sessions :
        sessions[s] \in [refs : 0 .. 3, retired : BOOLEAN, open : BOOLEAN]
    /\ current \in 0 .. Len(sessions) /\ dialer \in Callers \cup {NobodyDials}
    /\ \A p \in Callers : sftpUser[p].sess \in 0 .. Len(sessions)
    /\ sftpCloser.at \in {"out", "detach", "mark", "seen", "wait", "forced", "done"}

\* No connection leaks: an open one is installed, leased, or about to be closed
\* by the release, the probe or the Close that has it in hand; and nothing is
\* installed once Close is done.
OpenSessionIsOwned ==
    /\ \A s \in DOMAIN sessions : sessions[s].open =>
        \/ s = current \/ sessions[s].refs > 0
        \/ \E p \in Callers : sftpUser[p].sess = s /\ sftpUser[p].at \in {"last", "look"}
        \/ sftpCloser.sess = s /\ sftpCloser.at \in {"mark", "seen"}
    /\ sftpCloser.at \in {"done", "forced"} => current = 0

\* "Ops call tryAcquire/release around use of client; reconnect retires the
\* session and closes FDs only after refs drain" (clientSession): no connection
\* is closed under an operation that leases it, save by the Close that ran out
\* of its grace.
LeasedSessionIsOpen ==
    \A p \in SftpUsers :
        At(p, "using") => \/ sessions[sftpUser[p].sess].open
                          \/ sftpCloser.at = "forced" /\ sftpCloser.sess = sftpUser[p].sess

\* "Close waits on cleanupWg for those drains so file descriptors are not
\* leaked on shutdown" (Close).
CloseLeavesNothingOpen ==
    sftpCloser.at = "done" => \A s \in DOMAIN sessions : ~sessions[s].open

\* Close ends, and nobody waits for a dial that is not running: the dial ends
\* and those who waited for it go on.
SftpSettled ==
    /\ sftpCloser.at \in {"out", "done", "forced"}
    /\ dialer # NobodyDials => At(dialer, "dial")
    /\ (\E p \in Callers : At(p, "parked")) => dialer # NobodyDials
=============================================================================
