------------------------------ MODULE MCService ------------------------------
(***************************************************************************)
(* The sessions, the keys, the configuration and the connections of a      *)
(* service in one model. They have no state in common: a behaviour picks   *)
(* its subject and leaves the others in an initial state.                  *)
(***************************************************************************)
EXTENDS Sessions, LiveConfig, KeyMaterial, Connections

\* Bounds: the faults of a behaviour about some of the subjects.
CONSTANTS OneFault, TwoFaults

VARIABLE subject

vars == <<subject, sessionState, indexState, signinState, secretState, configState,
          keyState, signState, certState, rconnState, routingState, faults>>

Init ==
    /\ subject \in {"session", "index", "signin", "secret", "config", "keys", "signing",
                    "certificates", "redis", "replicas"}
    /\ SessionInit /\ (subject # "session" => storeKind = "redis")
    /\ IndexInit /\ (subject # "index" => indexStore = "redis")
    /\ SignInInit /\ (subject # "signin" => shared)
    /\ SecretInit
    /\ ConfigInit /\ (subject # "config" => layout = "plain")
    /\ KeyInit /\ SignInit /\ CertInit
    /\ RconnInit /\ (subject # "redis" => gauge = 1)
    /\ RoutingInit

\* Only the subject moves.
Only(chosen) ==
    /\ chosen # "session" => UNCHANGED sessionState
    /\ chosen # "index" => UNCHANGED indexState
    /\ chosen # "signin" => UNCHANGED signinState
    /\ chosen # "secret" => UNCHANGED secretState
    /\ chosen # "config" => UNCHANGED configState
    /\ chosen # "keys" => UNCHANGED keyState
    /\ chosen # "signing" => UNCHANGED signState
    /\ chosen # "certificates" => UNCHANGED certState
    /\ chosen # "redis" => UNCHANGED rconnState
    /\ chosen # "replicas" => UNCHANGED routingState

Next ==
    /\ UNCHANGED subject /\ Only(subject)
    /\ \/ subject = "session" /\ SessionNext /\ faults' <= OneFault
       \/ subject = "index" /\ IndexNext /\ faults' <= OneFault
       \/ subject = "signin" /\ SignInNext /\ faults' <= TwoFaults
       \/ subject = "secret" /\ SecretNext /\ faults' <= OneFault
       \/ subject = "config" /\ ConfigNext /\ faults' <= OneFault
       \/ subject = "keys" /\ KeyNext /\ faults' <= OneFault
       \/ subject = "signing" /\ SignNext /\ faults' <= OneFault
       \/ subject = "certificates" /\ CertNext /\ faults' <= OneFault
       \/ subject = "redis" /\ RconnNext
       \/ subject = "replicas" /\ RoutingNext /\ faults' <= TwoFaults

\* The fairness of each component's specification, for the one that moves.
Fairness ==
    /\ \A r \in Refreshers : WF_sessionVars(subject = "session" /\ RequestStep(r))
    /\ WF_sessionVars(subject = "session" /\ LockExpires)
    /\ \A t \in Tabs : WF_signinVars(subject = "signin" /\ TabStep(t))
    /\ \A g \in SecretCallers : WF_secretVars(subject = "secret" /\ GetStep(g))
    /\ WF_secretVars(subject = "secret" /\ DoRefresh)
    /\ WF_secretVars(subject = "secret" /\ EndCall)
    /\ WF_configVars(subject = "config" /\ Fill)
    /\ WF_configVars(subject = "config" /\ StartWatch)
    /\ WF_configVars(subject = "config" /\ LoopStep)
    /\ WF_configVars(subject = "config" /\ TakeSignal)
    /\ \A r \in Reloaders : WF_configVars(subject = "config" /\ SetStep(r))
    /\ WF_certVars(subject = "certificates" /\ ReplaceFile)
    /\ SF_certVars(subject = "certificates" /\ BeginReload("poll"))
    /\ \A r \in CertReloaders : WF_certVars(subject = "certificates" /\ ReloadStep(r))
    /\ WF_rconnVars(subject = "redis" /\ HealthLoopStep)
    /\ SF_rconnVars(subject = "redis" /\ LoopEnds)
    /\ WF_rconnVars(subject = "redis" /\ (hook = "gauge" /\ MarkReadOnly))
    /\ WF_rconnVars(subject = "redis" /\ (IsClosed /\ CloseStep))
    /\ WF_rconnVars(subject = "redis" /\ (server # "up" /\ ServerChanges))
    /\ \A i \in Callbacks : WF_rconnVars(subject = "redis" /\ CallbackStep(i))
    /\ WF_routingVars(subject = "replicas" /\ ProberStep)
    /\ \A a \in Readers : WF_routingVars(subject = "replicas" /\ ReaderStep(a))

Spec == Init /\ [][Next]_vars /\ Fairness

\* Every component's variables keep their types.
ServiceTypeOK ==
    /\ SessionTypeOK /\ IndexTypeOK /\ SignInTypeOK /\ SecretTypeOK /\ ConfigTypeOK
    /\ KeyTypeOK /\ SignTypeOK /\ CertTypeOK /\ RconnTypeOK /\ RoutingTypeOK

\* A session ends and lives as it was told to: logged out or revoked it never comes back,
\* found by its indexes as long as it lives, deleted only by who judged it, with the
\* rotated token kept; and abandoned sign-ins stay few.
SessionsStand ==
    /\ LogoutStands /\ RevokedStayDeleted /\ SessionsAreIndexed
    /\ HolderDeletesWhatItJudged /\ RotatedTokenIsKept /\ PendingIsBounded

\* What actors see of each other's state is what it stands for: secrets of bounded age,
\* subscribers that follow the stored configuration, nothing closed that is healthy,
\* callbacks that do not overlap, a rotation that is what the gauge says, reads that ask
\* every replica first, and no probe that meets a closed pool.
ViewsAreExact ==
    /\ StaleIsBounded /\ SubscribersFollow /\ ClosedIsUnhealthy /\ OneCallback
    /\ RotationGaugeExact /\ FallbackIsExhaustive /\ NoProbeAfterClose

Settled ==
    CASE subject = "session" -> SessionSettled
      [] subject = "signin" -> SignInSettled
      [] subject = "secret" -> SecretSettled
      [] subject = "config" -> ConfigSettled
      [] subject = "certificates" -> CertSettled
      [] subject = "redis" -> RconnSettled
      [] subject = "replicas" -> RoutingSettled
      [] OTHER -> TRUE

\* Whatever is the subject comes to rest: requests are answered, a sign-in or its restart
\* ends, a saved configuration and a renewed certificate are taken up, a lost connection
\* is found again and Close returns.
ServiceSettles == []<>Settled
==============================================================================
