------------------------------ MODULE OutboxTiming ------------------------------
(***************************************************************************)
(* OutboxRelay with heartbeats on schedule, for any number of entries,     *)
(* relays, attempts and faults: the invariant behind the theorems of       *)
(* OutboxDuplicates, and its proof for the steps that start and end no     *)
(* publish.                                                                *)
(***************************************************************************)
EXTENDS OutboxProofs, FiniteSetTheorems

\* Heartbeats are on schedule, and the stale window is long enough for as many of
\* them to fail as there are faults.
OnSchedule == Timely /\ HeartbeatTicks * (MaxFaults + 1) <= StaleTicks

\* e is an entry of the batch that r publishes with a live context.
Live(r, e) == Beating(r) /\ job[r][e] # "none"

\* A relay has jobs only while it publishes a batch.
JobsAreOfABatch ==
    \A r \in Relays, e \in Entries : phase[r] # "publish" => job[r][e] = "none"

\* While nothing has failed no relay is cancelled, and a row in processing is owned.
NothingIsAbandoned ==
    faults = 0 =>
        /\ \A r \in Relays : ~cancelled[r]
        /\ \A e \in Entries : row[e].status = "processing" =>
             \E r \in Relays : Owns(r, e) /\ job[r][e] # "none"

\* A live batch still owns each of its rows, whose age only failed heartbeats let
\* grow past one interval.
BatchIsKept ==
    \A r \in Relays, e \in Entries : Live(r, e) =>
        /\ Owns(r, e)
        /\ sinceBeat[r] <= HeartbeatTicks
        /\ row[e].age <= sinceBeat[r] + HeartbeatTicks * faults

\* A live relay is about to mark e published, unless its publish still fails.
Working(e) == \E r \in Relays : Beating(r) /\ job[r][e] \in {"publishing", "sent"}

\* A live relay is about to count a failed publish of e.
Failing(e) == \E r \in Relays : Beating(r) /\ job[r][e] = "errored"

Unsettled(e) == row[e].status \in {"absent", "pending", "processing"}

\* e may be published once more than now.
Open(e) == Unsettled(e) /\ ~Working(e)

Publishing(e) == {r \in Relays : job[r][e] = "publishing"}

One(b) == IF b THEN 1 ELSE 0

\* The account of e: each delivery made, under way or still to come is the first, or
\* follows a counted failure, a failure about to be counted, or a fault.
Account(e) ==
    deliveries[e] + Cardinality(Publishing(e)) + One(Open(e))
      <= 1 + row[e].attempts + One(Failing(e)) + faults

TimedInv == BatchIsKept /\ \A e \in Entries : Account(e)

TInv ==
    /\ IInv /\ JobsAreOfABatch /\ NothingIsAbandoned /\ faults <= MaxFaults
    /\ OnSchedule => TimedInv

LEMMA Bounds ==
  /\ MaxFaults \in Nat /\ HeartbeatTicks \in Nat /\ StaleTicks \in Nat
  /\ MaxAttempts \in Nat /\ DeliveryCap \in Nat
  BY StoreAssumption, RelayAssumption

USE Bounds

\* One more fault is worth one more heartbeat interval, and the faults there may be
\* fit the stale window.
LEMMA Slack ==
  ASSUME OnSchedule, NEW f \in Nat, f <= MaxFaults
  PROVE  /\ HeartbeatTicks * f \in Nat
         /\ HeartbeatTicks * (f + 1) = HeartbeatTicks * f + HeartbeatTicks
         /\ HeartbeatTicks + HeartbeatTicks * f <= StaleTicks
  <1> DEFINE m == MaxFaults - f
  <1>1. m \in Nat /\ MaxFaults + 1 = (f + 1) + m
    OBVIOUS
  <1>2. HeartbeatTicks * f \in Nat /\ HeartbeatTicks * m \in Nat
    BY <1>1
  <1>3. HeartbeatTicks * (f + 1) = HeartbeatTicks * f + HeartbeatTicks
    OBVIOUS
  <1> HIDE DEF m
  <1>4. HeartbeatTicks * ((f + 1) + m) = HeartbeatTicks * (f + 1) + HeartbeatTicks * m
    BY <1>1
  <1> QED
    BY <1>1, <1>2, <1>3, <1>4 DEF OnSchedule

LEMMA Monotone ==
  ASSUME NEW f \in Nat, NEW g \in Nat, f <= g
  PROVE  /\ HeartbeatTicks * f \in Nat /\ HeartbeatTicks * g \in Nat
         /\ HeartbeatTicks * f <= HeartbeatTicks * g
  <1> DEFINE d == g - f
  <1>1. d \in Nat /\ g = f + d
    OBVIOUS
  <1> HIDE DEF d
  <1>2. HeartbeatTicks * (f + d) = HeartbeatTicks * f + HeartbeatTicks * d
    BY <1>1
  <1>3. HeartbeatTicks * f \in Nat /\ HeartbeatTicks * d \in Nat
    BY <1>1
  <1>4. HeartbeatTicks * g \in Nat
    OBVIOUS
  <1> QED
    BY <1>1, <1>2, <1>3, <1>4

LEMMA Numbers ==
  ASSUME IInv, NEW e \in Entries
  PROVE  /\ faults \in Nat /\ deliveries[e] \in Nat
         /\ row[e].attempts \in Nat /\ row[e].age \in Nat
  <1>1. faults \in Nat /\ row[e] \in Row /\ deliveries[e] \in 0 .. DeliveryCap
    BY DEF IInv, TypeOK
  <1> QED
    BY <1>1 DEF Row

\* What a step leaves alone is no smaller than it was.
LEMMA Steady ==
  ASSUME TInv
  PROVE  /\ faults \in Nat /\ faults <= faults /\ faults <= MaxFaults
         /\ \A x \in Entries : row[x].attempts \in Nat /\ row[x].attempts <= row[x].attempts
  <1>1. IInv /\ faults \in Nat /\ faults <= MaxFaults
    BY DEF TInv, IInv, TypeOK
  <1>2. ASSUME NEW x \in Entries PROVE row[x].attempts \in Nat
    BY <1>1, Numbers
  <1> QED
    BY <1>1, <1>2

\* Counts of relays that publish.
LEMMA Counts ==
  ASSUME NEW e \in Entries
  PROVE  /\ IsFiniteSet(Publishing(e)) /\ Cardinality(Publishing(e)) \in Nat
         /\ IsFiniteSet(Publishing(e)') /\ Cardinality(Publishing(e)') \in Nat
  BY RelaysAssumption, FS_Subset, FS_CardinalityType DEF Publishing

\* The row of a live entry is owned by nobody else, so no other relay is live on it.
LEMMA SoleWorker ==
  ASSUME IInv, BatchIsKept, NEW r \in Relays, NEW e \in Entries, Live(r, e)
  PROVE  /\ Owns(r, e) /\ row[e].status = "processing"
         /\ \A q \in Relays : Live(q, e) => q = r
         /\ Working(e) <=> job[r][e] \in {"publishing", "sent"}
         /\ Failing(e) <=> job[r][e] = "errored"
  <1>1. Owns(r, e)
    BY DEF BatchIsKept
  <1>2. ASSUME NEW q \in Relays, Live(q, e) PROVE q = r
    BY <1>1, <1>2 DEF BatchIsKept, IInv, TokensDistinct, Owns
  <1> QED
    BY <1>1, <1>2 DEF Owns, Live, Working, Failing

\* A step that leaves every job of a live batch as it is.
SameJobs ==
    \A q \in Relays, x \in Entries :
        /\ Live(q, x)' <=> Live(q, x)
        /\ Live(q, x) => job'[q][x] = job[q][x]
        /\ job'[q][x] = "publishing" <=> job[q][x] = "publishing"

\* A step that lets no row go into processing or lose its owner, or is a fault.
AbandonsNothing ==
    /\ faults' \in Nat /\ faults <= faults'
    /\ faults' = 0 => \A q \in Relays : ~cancelled'[q]
    /\ faults' = 0 => \A x \in Entries : row'[x].status = "processing" =>
         /\ row[x].status = "processing"
         /\ \A q \in Relays : Owns(q, x) /\ job[q][x] # "none" =>
              Owns(q, x)' /\ job'[q][x] # "none"

LEMMA NotAbandoned ==
  ASSUME TInv, AbandonsNothing
  PROVE  NothingIsAbandoned'
  <1> SUFFICES ASSUME faults' = 0, NEW x \in Entries, row'[x].status = "processing"
               PROVE  \E q \in Relays : Owns(q, x)' /\ job'[q][x] # "none"
    BY DEF AbandonsNothing, NothingIsAbandoned
  <1>1. faults = 0
    BY DEF AbandonsNothing, TInv, IInv, TypeOK
  <1>2. PICK q \in Relays : Owns(q, x) /\ job[q][x] # "none"
    BY <1>1 DEF AbandonsNothing, TInv, NothingIsAbandoned
  <1> QED
    BY <1>2 DEF AbandonsNothing

\* The account of x when its relays and its row are as before, but for a status
\* that settles it.
LEMMA SameAccount ==
  ASSUME NEW x \in Entries, Account(x), faults \in Nat, faults' \in Nat, faults <= faults',
         row[x].attempts \in Nat, row'[x].attempts \in Nat, row[x].attempts <= row'[x].attempts,
         deliveries[x] \in Nat, deliveries'[x] = deliveries[x],
         Unsettled(x)' => Unsettled(x),
         Working(x)' <=> Working(x), Failing(x)' <=> Failing(x),
         Publishing(x)' = Publishing(x)
  PROVE  Account(x)'
  <1>1. Cardinality(Publishing(x)) \in Nat /\ Cardinality(Publishing(x))' = Cardinality(Publishing(x))
    BY Counts
  <1>2. Open(x)' => Open(x)
    BY DEF Open
  <1>3. /\ One(Open(x)) \in Nat /\ One(Open(x))' \in Nat /\ One(Open(x))' <= One(Open(x))
        /\ One(Failing(x)) \in Nat /\ One(Failing(x))' = One(Failing(x))
    BY <1>2 DEF One
  <1> QED
    BY <1>1, <1>3 DEF Account

\* Steps that change no live job.
LEMMA Quiet ==
  ASSUME TInv, IInv', JobsAreOfABatch', SameJobs, AbandonsNothing, faults' <= MaxFaults,
         UNCHANGED deliveries, OnSchedule => BatchIsKept',
         \A x \in Entries : /\ row[x].attempts <= row'[x].attempts
                            /\ Unsettled(x)' => Unsettled(x)
  PROVE  TInv'
  <1>1. NothingIsAbandoned'
    BY NotAbandoned
  <1>2. ASSUME OnSchedule, NEW x \in Entries PROVE Account(x)'
    <2>1. /\ Account(x)
          /\ faults \in Nat /\ faults' \in Nat /\ faults <= faults' /\ deliveries[x] \in Nat
          /\ row[x].attempts \in Nat /\ row'[x].attempts \in Nat
      BY <1>2 DEF TInv, TimedInv, IInv, TypeOK, Row, AbandonsNothing
    <2>2. /\ Working(x)' <=> Working(x)
          /\ Failing(x)' <=> Failing(x)
          /\ Publishing(x)' = Publishing(x)
      BY DEF SameJobs, Working, Failing, Publishing, Live
    <2> QED
      BY <2>1, <2>2, SameAccount
  <1> QED
    BY <1>1, <1>2 DEF TInv, TimedInv

\* Steps that do not touch the rows of live batches either.
LEMMA Aside ==
  ASSUME TInv, IInv', JobsAreOfABatch', SameJobs, AbandonsNothing, faults' <= MaxFaults,
         UNCHANGED deliveries,
         \A x \in Entries : /\ row[x].attempts <= row'[x].attempts
                            /\ Unsettled(x)' => Unsettled(x),
         \A q \in Relays, x \in Entries : OnSchedule /\ Live(q, x) =>
              /\ row'[x] = row[x] /\ remembered'[q][x] = remembered[q][x]
              /\ sinceBeat'[q] = sinceBeat[q]
  PROVE  TInv'
  <1>1. ASSUME OnSchedule PROVE BatchIsKept'
    <2> SUFFICES ASSUME NEW q \in Relays, NEW x \in Entries, Live(q, x)'
                 PROVE  /\ Owns(q, x)'
                        /\ sinceBeat'[q] <= HeartbeatTicks
                        /\ row'[x].age <= sinceBeat'[q] + HeartbeatTicks * faults'
      BY ZenonT(30) DEF BatchIsKept
    <2>0. faults \in Nat /\ faults' \in Nat /\ faults <= faults'
      BY ZenonT(30) DEF TInv, IInv, TypeOK, AbandonsNothing
    <2>1. Live(q, x)
      BY ZenonT(30) DEF SameJobs
    <2>2. /\ row'[x] = row[x] /\ remembered'[q][x] = remembered[q][x]
          /\ sinceBeat'[q] = sinceBeat[q]
      BY <1>1, <2>1
    <2>3. /\ Owns(q, x) /\ sinceBeat[q] <= HeartbeatTicks
          /\ row[x].age <= sinceBeat[q] + HeartbeatTicks * faults
      BY <1>1, <2>1 DEF TInv, TimedInv, BatchIsKept
    <2>4. /\ HeartbeatTicks * faults \in Nat /\ HeartbeatTicks * faults' \in Nat
          /\ HeartbeatTicks * faults <= HeartbeatTicks * faults'
      BY ZenonT(30), <2>0, Monotone
    <2>5. row[x].age \in Nat /\ sinceBeat[q] \in Nat
      BY ZenonT(30) DEF TInv, IInv, TypeOK, Row
    <2> QED
      BY <2>2, <2>3, <2>4, <2>5 DEF Owns
  <1> QED
    BY <1>1, Quiet

\* The steps outside a batch that leave every process as it is.
LEMMA TimedOutside ==
  ASSUME TInv, IInv', UNCHANGED <<cancelled, job, sinceBeat, remembered, deliveries>>,
         \A q \in Relays : phase'[q] = "publish" <=> phase[q] = "publish",
         faults' \in Nat, faults <= faults', faults' <= MaxFaults,
         \A x \in Entries :
            /\ row'[x].attempts = row[x].attempts
            /\ Unsettled(x)' => Unsettled(x)
            /\ faults' = 0 /\ row'[x].status = "processing" =>
                 row[x].status = "processing" /\ row'[x].token = row[x].token
            /\ \A q \in Relays : OnSchedule /\ Live(q, x) => row'[x] = row[x]
  PROVE  TInv'
  <1>1. JobsAreOfABatch'
    BY ZenonT(30) DEF TInv, JobsAreOfABatch
  <1>2. SameJobs
    BY DEF SameJobs, Live, Beating
  <1>3. AbandonsNothing
    <2>1. faults' = 0 => \A q \in Relays : ~cancelled'[q]
      BY DEF TInv, IInv, TypeOK, NothingIsAbandoned
    <2> QED
      BY <2>1 DEF AbandonsNothing, Owns
  <1>4. \A x \in Entries : row[x].attempts <= row'[x].attempts
    BY ZenonT(30), Steady
  <1> QED
    BY ZenonT(30), <1>1, <1>2, <1>3, <1>4, Aside

LEMMA TimedWrite == ASSUME TInv, NEW e \in Entries, Write(e) PROVE TInv'
  <1> USE DEF Write, Insert, procVars, brokerVars
  <1>1. IInv'
    BY ZenonT(30), StepWrite DEF TInv
  <1>2. \A x \in Entries : row[x] \in Row
    BY DEF TInv, IInv, TypeOK
  <1>3. ASSUME NEW x \in Entries
        PROVE  /\ row'[x].attempts = row[x].attempts
               /\ Unsettled(x)' => Unsettled(x)
               /\ row'[x].status = "processing" =>
                    row[x].status = "processing" /\ row'[x].token = row[x].token
               /\ \A q \in Relays : OnSchedule /\ Live(q, x) => row'[x] = row[x]
    <2>1. CASE x = e
      BY <1>2, <2>1 DEF Row, Unsettled, Live, TInv, IInv, TypeOK, JobFacts
    <2>2. CASE x # e
      BY <2>2 DEF Unsettled, TInv, IInv, TypeOK
    <2> QED
      BY <2>1, <2>2
  <1> QED
    BY ZenonT(30), <1>1, <1>3, Steady, TimedOutside

LEMMA TimedBackoff == ASSUME TInv, NEW e \in Entries, Backoff(e) PROVE TInv'
  <1> USE DEF Backoff, BackoffElapses, procVars, brokerVars
  <1>1. IInv'
    BY ZenonT(30), StepBackoff DEF TInv
  <1>2. \A x \in Entries : row[x] \in Row
    BY DEF TInv, IInv, TypeOK
  <1>3. ASSUME NEW x \in Entries
        PROVE  /\ row'[x].attempts = row[x].attempts
               /\ Unsettled(x)' => Unsettled(x)
               /\ row'[x].status = "processing" =>
                    row[x].status = "processing" /\ row'[x].token = row[x].token
               /\ \A q \in Relays : OnSchedule /\ Live(q, x) => row'[x] = row[x]
    <2>1. CASE x = e
      BY <1>2, <2>1 DEF Row, Unsettled, TInv, TimedInv, BatchIsKept, Owns, IInv, TypeOK
    <2>2. CASE x # e
      BY <2>2 DEF Unsettled, TInv, IInv, TypeOK
    <2> QED
      BY <2>1, <2>2
  <1> QED
    BY ZenonT(30), <1>1, <1>3, Steady, TimedOutside

LEMMA TimedStart == ASSUME TInv, NEW r \in Relays, Start(r) PROVE TInv'
  <1>1. IInv'
    BY StepStart DEF TInv
  <1>2. \A q \in Relays : phase'[q] = "publish" <=> phase[q] = "publish"
    BY ZenonT(30) DEF Start, Poll, TInv, IInv, TypeOK
  <1> QED
    BY ZenonT(30), <1>1, <1>2, Steady, TimedOutside
    DEF Start, storeVars, brokerVars, Unsettled

LEMMA TimedBeginPoll == ASSUME TInv, NEW r \in Relays, BeginPoll(r) PROVE TInv'
  <1>1. IInv'
    BY StepBeginPoll DEF TInv
  <1>2. \A q \in Relays : phase'[q] = "publish" <=> phase[q] = "publish"
    BY ZenonT(30) DEF BeginPoll, Poll, TInv, IInv, TypeOK
  <1> QED
    BY ZenonT(30), <1>1, <1>2, Steady, TimedOutside
    DEF BeginPoll, storeVars, brokerVars, Unsettled

LEMMA TimedCleanup == ASSUME TInv, NEW r \in Relays, Cleanup(r) PROVE TInv'
  <1> USE DEF DeleteBefore, procVars, brokerVars
  <1>1. IInv'
    BY StepCleanup DEF TInv
  <1>2. PICK D \in SUBSET Entries : DeleteBefore(r, D)
    BY DEF Cleanup
  <1>3. UNCHANGED <<procVars, brokerVars, faults>>
    BY DEF Cleanup
  <1>4. ASSUME NEW x \in Entries
        PROVE  /\ row'[x].attempts = row[x].attempts
               /\ Unsettled(x)' => Unsettled(x)
               /\ row'[x].status = "processing" =>
                    row[x].status = "processing" /\ row'[x].token = row[x].token
               /\ \A q \in Relays : OnSchedule /\ Live(q, x) => row'[x] = row[x]
    <2>1. row[x] \in Row
      BY DEF TInv, IInv, TypeOK
    <2>2. CASE x \in D
      <3>1. /\ row'[x] = [row[x] EXCEPT !.status = "deleted"]
            /\ row[x].status \in {"published", "failed"}
        BY <1>2, <2>2
      <3>2. ~Unsettled(x)' /\ row'[x].status = "deleted" /\ row'[x].attempts = row[x].attempts
        BY <2>1, <3>1 DEF Row, Unsettled
      <3> QED
        BY <3>1, <3>2 DEF TInv, TimedInv, BatchIsKept, Owns
    <2>3. CASE x \notin D
      BY <1>2, <2>3 DEF Unsettled
    <2> QED
      BY ZenonT(30), <2>2, <2>3
  <1> QED
    BY ZenonT(30), <1>1, <1>2, <1>3, <1>4, Steady, TimedOutside

\* A sweep finds no row of a live batch stale.
LEMMA NotStale ==
  ASSUME TInv, OnSchedule, NEW r \in Relays, NEW e \in Entries, Live(r, e)
  PROVE  ~(row[e].age > StaleTicks)
  <1>1. /\ sinceBeat[r] <= HeartbeatTicks
        /\ row[e].age <= sinceBeat[r] + HeartbeatTicks * faults
    BY ZenonT(30) DEF TInv, TimedInv, BatchIsKept
  <1>2. faults \in Nat /\ faults <= MaxFaults /\ row[e].age \in Nat /\ sinceBeat[r] \in Nat
    BY ZenonT(30) DEF TInv, IInv, TypeOK, Row
  <1>3. HeartbeatTicks * faults \in Nat /\ HeartbeatTicks + HeartbeatTicks * faults <= StaleTicks
    BY <1>2, Slack
  <1> QED
    BY <1>1, <1>2, <1>3

LEMMA TimedRecoverStale == ASSUME TInv, NEW r \in Relays, RecoverStale(r) PROVE TInv'
  <1>1. IInv'
    BY StepRecoverStale DEF TInv
  <1>2. /\ UNCHANGED <<remembered, cancelled, job, sinceBeat, deliveries>>
        /\ phase[r] = "recover" /\ phase' = [phase EXCEPT ![r] = "fetch"]
    BY ZenonT(30) DEF RecoverStale, ResetStaleProcessing, storeVars, brokerVars
  <1>3. \A q \in Relays : phase'[q] = "publish" <=> phase[q] = "publish"
    BY ZenonT(30), <1>2 DEF TInv, IInv, TypeOK
  <1>4. faults' \in Nat /\ faults <= faults' /\ faults' <= MaxFaults
    BY DEF RecoverStale, Fault, TInv, IInv, TypeOK
  <1>5. ASSUME NEW x \in Entries
        PROVE  /\ row'[x].attempts = row[x].attempts
               /\ Unsettled(x)' => Unsettled(x)
               /\ row'[x].status = "processing" =>
                    row[x].status = "processing" /\ row'[x].token = row[x].token
               /\ \A q \in Relays : OnSchedule /\ Live(q, x) => row'[x] = row[x]
    <2>1. row[x] \in Row
      BY ZenonT(30) DEF TInv, IInv, TypeOK
    <2>2. CASE row'[x] = row[x]
      BY ZenonT(30), <2>2 DEF Unsettled
    <2>3. CASE /\ row[x].status = "processing" /\ row[x].age > StaleTicks
               /\ row'[x] = [row[x] EXCEPT !.status = "pending", !.token = NoToken, !.age = 0]
      <3>1. row'[x].status = "pending" /\ row'[x].attempts = row[x].attempts
        BY <2>1, <2>3 DEF Row
      <3> QED
        BY <2>3, <3>1, NotStale DEF Unsettled
    <2> QED
      BY ZenonT(30), <2>2, <2>3 DEF RecoverStale, ResetStaleProcessing, storeVars
  <1> QED
    BY ZenonT(30), <1>1, <1>2, <1>3, <1>4, <1>5, TimedOutside

LEMMA TimedFetchError == ASSUME TInv, NEW r \in Relays, FetchError(r) PROVE TInv'
  <1>1. IInv'
    BY StepFetchError DEF TInv
  <1>2. /\ UNCHANGED <<cancelled, job, sinceBeat, deliveries>>
        /\ phase[r] = "fetch" /\ phase' = [phase EXCEPT ![r] = "idle"]
    BY Zenon DEF FetchError, brokerVars
  <1>3. \A q \in Relays : phase'[q] = "publish" <=> phase[q] = "publish"
    BY <1>2 DEF TInv, IInv, TypeOK
  <1>4. faults \in Nat /\ faults <= MaxFaults
    BY DEF TInv, IInv, TypeOK
  <1>5. CASE UNCHANGED storeVars
    <2>1. faults' = faults \/ (faults < MaxFaults /\ faults' = faults + 1)
      BY Zenon DEF FetchError, Fault
    <2>2. faults' \in Nat /\ faults <= faults' /\ faults' <= MaxFaults
      BY SMTT(30), <1>4, <2>1
    <2> QED
      BY ZenonT(30), <1>1, <1>2, <1>3, <1>5, <2>2, TimedOutside
      DEF storeVars, Unsettled, TInv, IInv, TypeOK
  <1>6. CASE Fault("db") /\ \E B \in SUBSET Entries : FetchPending(r, B, FALSE)
    <2>1. faults' \in Nat /\ faults <= faults' /\ faults' <= MaxFaults /\ faults' # 0
      <3>1. faults < MaxFaults /\ faults' = faults + 1
        BY ZenonT(30), <1>6 DEF Fault
      <3> QED
        BY SMTT(30), <1>4, <3>1
    <2>2. PICK B \in SUBSET Entries : FetchPending(r, B, FALSE)
      BY ZenonT(30), <1>6
    <2>3. PICK tok \in [B -> Tokens] :
            /\ \A e \in B : Fresh(e, tok[e])
            /\ row' = Claimed(B, tok)
            /\ remembered' = [remembered EXCEPT ![r] = [e \in Entries |-> @[e]]]
      BY <2>2 DEF FetchPending
    <2>4. remembered' = remembered
      BY <2>3 DEF TInv, IInv, TypeOK
    <2>5. B \subseteq Eligible(r)
      BY <2>2 DEF FetchPending, Oldest
    <2>6. \A x \in Entries :
            /\ row'[x].attempts = row[x].attempts
            /\ x \notin B => row'[x] = row[x]
      BY <2>3, <2>5, ClaimStatement DEF TInv
    <2>7. ASSUME NEW x \in B
          PROVE  Unsettled(x) /\ \A q \in Relays : ~(OnSchedule /\ Live(q, x))
      <3>1. row[x].status = "pending"
        BY ZenonT(30), <2>5 DEF Eligible
      <3> QED
        BY ZenonT(30), <3>1 DEF Unsettled, TInv, TimedInv, BatchIsKept, Owns
    <2>8. \A x \in Entries :
            /\ Unsettled(x)' => Unsettled(x)
            /\ \A q \in Relays : OnSchedule /\ Live(q, x) => row'[x] = row[x]
      BY <2>6, <2>7 DEF Unsettled
    <2> QED
      BY ZenonT(30), <1>1, <1>2, <1>3, <2>1, <2>4, <2>6, <2>8, TimedOutside
  <1> QED
    BY ZenonT(30), <1>5, <1>6 DEF FetchError

LEMMA TimedBeat == ASSUME TInv, NEW r \in Relays, Beat(r) PROVE TInv'
  <1>1. IInv'
    BY StepBeat DEF TInv
  <1>2. /\ UNCHANGED <<remembered, phase, cancelled, job, deliveries>>
        /\ sinceBeat' = [sinceBeat EXCEPT ![r] = 0]
        /\ phase[r] = "publish" /\ ~cancelled[r]
    BY DEF Beat, Heartbeat, storeVars, brokerVars
  <1>3. faults \in Nat /\ faults' \in Nat /\ faults <= faults' /\ faults' <= MaxFaults
    BY SMTT(30) DEF Beat, Fault, TInv, IInv, TypeOK
  <1>4. ASSUME NEW x \in Entries
        PROVE  /\ row[x].age \in Nat /\ row'[x].age \in Nat
               /\ row'[x].attempts = row[x].attempts /\ row'[x].status = row[x].status
               /\ row'[x].token = row[x].token
               /\ row'[x].age <= row[x].age
               /\ faults' = faults /\ Owns(r, x) /\ job[r][x] # "none" => row'[x].age = 0
    <2>1. row[x] \in Row
      BY DEF TInv, IInv, TypeOK
    <2>2. CASE UNCHANGED storeVars /\ faults' = faults + 1
      BY <1>3, <2>1, <2>2 DEF storeVars, Row
    <2>3. CASE Heartbeat(r, Unfinished(r))
      <3>1. row'[x] = IF x \in Unfinished(r) /\ Owns(r, x)
                      THEN [row[x] EXCEPT !.age = 0] ELSE row[x]
        BY <2>3 DEF Heartbeat
      <3>2. job[r][x] # "none" => x \in Unfinished(r)
        BY SMTT(30) DEF Unfinished, InFlight, InState, TInv, IInv, TypeOK, Jobs
      <3> QED
        BY <2>1, <3>1, <3>2 DEF Row
    <2> QED
      BY ZenonT(30), <2>2, <2>3 DEF Beat, Fault
  <1>5. JobsAreOfABatch' /\ SameJobs
    BY ZenonT(30), <1>2 DEF TInv, JobsAreOfABatch, SameJobs, Live, Beating
  <1>6. AbandonsNothing
    <2>1. faults' = 0 => \A q \in Relays : ~cancelled'[q]
      <3>1. faults' = 0 => faults = 0
        BY <1>3
      <3> QED
        BY ZenonT(30), <1>2, <3>1 DEF TInv, NothingIsAbandoned
    <2> QED
      BY ZenonT(30), <1>2, <1>3, <1>4, <2>1 DEF AbandonsNothing, Owns
  <1>7. ASSUME OnSchedule PROVE BatchIsKept'
    <2> SUFFICES ASSUME NEW q \in Relays, NEW x \in Entries, Live(q, x)'
                 PROVE  /\ Owns(q, x)'
                        /\ sinceBeat'[q] <= HeartbeatTicks
                        /\ row'[x].age <= sinceBeat'[q] + HeartbeatTicks * faults'
      BY ZenonT(30) DEF BatchIsKept
    <2>1. Live(q, x) /\ job[q][x] # "none"
      BY ZenonT(30), <1>5 DEF SameJobs, Live
    <2>2. /\ Owns(q, x) /\ sinceBeat[q] <= HeartbeatTicks
          /\ row[x].age <= sinceBeat[q] + HeartbeatTicks * faults
      BY ZenonT(30), <1>7, <2>1 DEF TInv, TimedInv, BatchIsKept
    <2>3. Owns(q, x)'
      BY ZenonT(30), <1>2, <1>4, <2>2 DEF Owns
    <2>4. /\ HeartbeatTicks * faults \in Nat /\ HeartbeatTicks * faults' \in Nat
          /\ HeartbeatTicks * faults <= HeartbeatTicks * faults'
      BY ZenonT(30), <1>3, Monotone
    <2>5. sinceBeat[q] \in Nat /\ sinceBeat'[q] = IF q = r THEN 0 ELSE sinceBeat[q]
      BY ZenonT(30), <1>2 DEF TInv, IInv, TypeOK
    <2>0. /\ row[x].age \in Nat /\ row'[x].age \in Nat /\ row'[x].age <= row[x].age
          /\ faults' = faults /\ Owns(r, x) /\ job[r][x] # "none" => row'[x].age = 0
      BY ZenonT(30), <1>4
    <2>6. CASE q # r
      <3>1. sinceBeat'[q] = sinceBeat[q]
        BY ZenonT(30), <2>5, <2>6
      <3>2. row'[x].age <= sinceBeat[q] + HeartbeatTicks * faults'
        BY <2>0, <2>2, <2>4, <2>5
      <3> QED
        BY ZenonT(30), <2>2, <2>3, <3>1, <3>2
    <2>7. CASE q = r /\ faults' = faults
      BY <2>0, <2>1, <2>2, <2>3, <2>4, <2>5, <2>7
    <2>8. CASE q = r /\ faults' = faults + 1
      <3>1. faults \in Nat /\ faults <= MaxFaults
        BY ZenonT(30), Steady
      <3>2. HeartbeatTicks * faults' = HeartbeatTicks * faults + HeartbeatTicks
        BY ZenonT(30), <1>7, <2>8, <3>1, Slack
      <3> QED
        BY <2>0, <2>2, <2>3, <2>4, <2>5, <2>8, <3>2
    <2> QED
      BY ZenonT(30), <2>6, <2>7, <2>8 DEF Beat, Fault
  <1>8. \A x \in Entries : row[x].attempts <= row'[x].attempts /\ (Unsettled(x)' => Unsettled(x))
    BY ZenonT(30), <1>4, Steady DEF Unsettled
  <1> QED
    BY <1>1, <1>2, <1>3, <1>5, <1>6, <1>7, <1>8, Quiet

LEMMA TimedTick == ASSUME TInv, Tick PROVE TInv'
  <1>1. IInv'
    BY StepTick DEF TInv
  <1>2. /\ UNCHANGED <<remembered, phase, cancelled, job, deliveries, faults>>
        /\ Timely => \A q \in Relays : Beating(q) => sinceBeat[q] < HeartbeatTicks
        /\ sinceBeat' = [q \in Relays |-> IF Timely /\ Beating(q) THEN sinceBeat[q] + 1 ELSE 0]
    BY ZenonT(30) DEF Tick, brokerVars
  <1>3. ASSUME NEW x \in Entries
        PROVE  /\ row[x].age \in Nat /\ row'[x].age \in Nat
               /\ row'[x].attempts = row[x].attempts /\ row'[x].status = row[x].status
               /\ row'[x].token = row[x].token
               /\ row'[x].age <= row[x].age + 1
    <2>1. row[x] \in Row
      BY ZenonT(30) DEF TInv, IInv, TypeOK
    <2>2. row'[x] = row[x] \/ row'[x] = [row[x] EXCEPT !.age = @ + 1]
      BY DEF Tick, Aged
    <2> QED
      BY <2>1, <2>2 DEF Row
  <1>4. JobsAreOfABatch' /\ SameJobs
    BY ZenonT(30), <1>2 DEF TInv, JobsAreOfABatch, SameJobs, Live, Beating
  <1>5. AbandonsNothing
    <2>1. faults \in Nat /\ (faults' = 0 => \A q \in Relays : ~cancelled'[q])
      BY ZenonT(30), <1>2 DEF TInv, NothingIsAbandoned, IInv, TypeOK
    <2> QED
      BY ZenonT(30), <1>2, <1>3, <2>1, Steady DEF AbandonsNothing, Owns
  <1>6. ASSUME OnSchedule PROVE BatchIsKept'
    <2> SUFFICES ASSUME NEW q \in Relays, NEW x \in Entries, Live(q, x)'
                 PROVE  /\ Owns(q, x)'
                        /\ sinceBeat'[q] <= HeartbeatTicks
                        /\ row'[x].age <= sinceBeat'[q] + HeartbeatTicks * faults'
      BY ZenonT(30) DEF BatchIsKept
    <2>1. Live(q, x) /\ Beating(q)
      BY ZenonT(30), <1>4 DEF SameJobs, Live
    <2>2. Owns(q, x) /\ row[x].age <= sinceBeat[q] + HeartbeatTicks * faults
      BY ZenonT(30), <1>6, <2>1 DEF TInv, TimedInv, BatchIsKept
    <2>3. Owns(q, x)'
      BY ZenonT(30), <1>2, <1>3, <2>2 DEF Owns
    <2>4. faults \in Nat /\ HeartbeatTicks * faults \in Nat
      BY ZenonT(30), Slack, <1>6 DEF TInv, IInv, TypeOK
    <2>5. /\ sinceBeat[q] \in Nat /\ sinceBeat[q] < HeartbeatTicks
          /\ sinceBeat'[q] = sinceBeat[q] + 1
      BY ZenonT(30), <1>2, <1>6, <2>1 DEF OnSchedule, TInv, IInv, TypeOK
    <2>6. row[x].age \in Nat /\ row'[x].age \in Nat /\ row'[x].age <= row[x].age + 1 /\ faults' = faults
      BY ZenonT(30), <1>2, <1>3
    <2> QED
      BY <2>2, <2>3, <2>4, <2>5, <2>6
  <1>7. \A x \in Entries : row[x].attempts <= row'[x].attempts /\ (Unsettled(x)' => Unsettled(x))
    BY ZenonT(30), <1>3, Steady DEF Unsettled
  <1>8. faults' <= MaxFaults
    BY ZenonT(30), <1>2 DEF TInv
  <1> QED
    BY ZenonT(30), <1>1, <1>2, <1>4, <1>5, <1>6, <1>7, <1>8, Quiet

LEMMA TimedPollEnd == ASSUME TInv, NEW r \in Relays, PollEnd(r) PROVE TInv'
  <1>1. IInv'
    BY StepPollEnd DEF TInv
  <1>2. /\ UNCHANGED <<row, remembered, cancelled, sinceBeat, deliveries, faults>>
        /\ phase' = [phase EXCEPT ![r] = "idle"]
        /\ job' = [job EXCEPT ![r] = NoJobs]
    BY ZenonT(30) DEF PollEnd, storeVars, brokerVars
  <1>3. \A q \in Relays, x \in Entries :
          /\ phase'[q] = IF q = r THEN "idle" ELSE phase[q]
          /\ job'[q][x] = IF q = r THEN "none" ELSE job[q][x]
          /\ q = r => job[q][x] = "none" \/ (job[q][x] = "queued" /\ cancelled[r])
    <2>1. /\ phase \in [Relays -> Phases] /\ job \in [Relays -> [Entries -> Jobs]]
      BY ZenonT(30) DEF TInv, IInv, TypeOK
    <2>2. \A x \in Entries : job[r][x] = "none" \/ (job[r][x] = "queued" /\ cancelled[r])
      BY <2>1 DEF PollEnd, InFlight, InState, Jobs
    <2> QED
      BY ZenonT(30), <1>2, <2>1, <2>2 DEF NoJobs
  <1>4. JobsAreOfABatch'
    BY ZenonT(30), <1>3 DEF TInv, JobsAreOfABatch
  <1>5. SameJobs
    BY SMTT(30), <1>2, <1>3 DEF SameJobs, Live, Beating
  <1>6. AbandonsNothing
    <2>1. faults \in Nat /\ (faults' = 0 => \A q \in Relays : ~cancelled'[q])
      BY ZenonT(30), <1>2 DEF TInv, NothingIsAbandoned, IInv, TypeOK
    <2>2. ASSUME faults' = 0, NEW q \in Relays, NEW x \in Entries
          PROVE  job'[q][x] = job[q][x]
      <3>1. ~cancelled[q]
        BY ZenonT(30), <1>2, <2>1, <2>2
      <3> QED
        BY ZenonT(30), <1>3, <3>1
    <2> QED
      BY ZenonT(30), <1>2, <2>1, <2>2, Steady DEF AbandonsNothing, Owns
  <1>7. \A x \in Entries : row[x].attempts <= row'[x].attempts
    BY ZenonT(30), <1>2, Steady
  <1> QED
    BY ZenonT(30), <1>1, <1>2, <1>4, <1>5, <1>6, <1>7, Aside DEF Unsettled, TInv

LEMMA TimedShutdown == ASSUME TInv, NEW r \in Relays, Shutdown(r) PROVE TInv'
  <1>1. IInv'
    BY StepShutdown DEF TInv
  <1>2. /\ phase[r] = "idle" /\ cancelled[r]
        /\ UNCHANGED <<row, deliveries, faults>>
        /\ ProcessEnds(r)
    BY ZenonT(30) DEF Shutdown, ResetPending, brokerVars
  <1>3. \A q \in Relays, x \in Entries :
          /\ phase'[q] = IF q = r THEN "down" ELSE phase[q]
          /\ q # r => cancelled'[q] = cancelled[q]
          /\ q # r => remembered'[q][x] = remembered[q][x] /\ sinceBeat'[q] = sinceBeat[q]
    BY ZenonT(30), <1>2 DEF ProcessEnds, TInv, IInv, TypeOK
  <1>0. \A q \in Relays, x \in Entries : job'[q][x] = job[q][x] /\ job[r][x] = "none"
    BY ZenonT(30), <1>2 DEF ProcessEnds, NoJobs, TInv, JobsAreOfABatch, IInv, TypeOK
  <1>4. JobsAreOfABatch'
    <2> SUFFICES ASSUME NEW q \in Relays, NEW x \in Entries, phase'[q] # "publish"
                 PROVE  job'[q][x] = "none"
      BY ZenonT(30) DEF JobsAreOfABatch
    <2>1. CASE q = r
      BY ZenonT(30), <1>0, <2>1
    <2>2. CASE q # r
      <3>1. phase[q] # "publish" /\ job'[q][x] = job[q][x]
        BY ZenonT(30), <1>0, <1>3, <2>2
      <3> QED
        BY ZenonT(30), <3>1 DEF TInv, JobsAreOfABatch
    <2> QED
      BY ZenonT(30), <2>1, <2>2
  <1>5. SameJobs
    BY ZenonT(30), <1>0, <1>2, <1>3 DEF SameJobs, Live, Beating
  <1>6. faults \in Nat /\ faults # 0
    BY ZenonT(30), <1>2 DEF TInv, NothingIsAbandoned, IInv, TypeOK
  <1>7. AbandonsNothing
    BY <1>2, <1>6 DEF AbandonsNothing
  <1>8. \A x \in Entries : row[x].attempts <= row'[x].attempts
    BY <1>2 DEF TInv, IInv, TypeOK, Row
  <1>9. \A q \in Relays, x \in Entries : Live(q, x) => q # r
    BY ZenonT(30), <1>0 DEF Live
  <1> QED
    BY ZenonT(30), <1>1, <1>2, <1>3, <1>4, <1>5, <1>7, <1>8, <1>9, Aside DEF Unsettled, TInv

LEMMA TimedFetch == ASSUME TInv, NEW r \in Relays, Fetch(r) PROVE TInv'
  <1>1. IInv'
    BY StepFetch DEF TInv
  <1>2. PICK B \in SUBSET Entries :
          /\ FetchPending(r, B, TRUE)
          /\ phase' = [phase EXCEPT ![r] = IF B = {} THEN "idle" ELSE "publish"]
          /\ job' = [job EXCEPT ![r] = [e \in Entries |-> IF e \in B THEN "queued" ELSE "none"]]
    BY ZenonT(30) DEF Fetch
  <1>3. PICK tok \in [B -> Tokens] :
          /\ \A e \in B : Fresh(e, tok[e])
          /\ row' = Claimed(B, tok)
          /\ remembered' = [remembered EXCEPT ![r] =
               [e \in Entries |-> IF e \in B THEN tok[e] ELSE @[e]]]
    BY ZenonT(30), <1>2 DEF FetchPending
  <1>4. /\ phase[r] = "fetch"
        /\ sinceBeat' = [sinceBeat EXCEPT ![r] = 0]
        /\ UNCHANGED <<cancelled, deliveries, faults>>
    BY ZenonT(30) DEF Fetch, brokerVars
  <1>5. B \subseteq Eligible(r)
    BY ZenonT(30), <1>2 DEF FetchPending, Oldest
  <1>6. \A x \in Entries :
          /\ row'[x].attempts = row[x].attempts
          /\ x \in B => row'[x].status = "processing" /\ row'[x].token = tok[x]
          /\ x \notin B => row'[x] = row[x]
    BY ZenonT(30), <1>3, <1>5, ClaimStatement DEF TInv
  <1>7. \A x \in B : row[x].status = "pending" /\ row'[x].age = 0 /\ tok[x] # NoToken
    <2> SUFFICES ASSUME NEW x \in B
                 PROVE  row[x].status = "pending" /\ row'[x].age = 0 /\ tok[x] # NoToken
      BY ZenonT(30)
    <2>1. row[x] \in Row /\ row[x].status = "pending"
      BY ZenonT(30), <1>5 DEF Eligible, TInv, IInv, TypeOK
    <2>2. row'[x] = [row[x] EXCEPT !.status = "processing", !.age = 0, !.token = tok[x]]
      BY ZenonT(30), <1>3 DEF Claimed
    <2> QED
      BY <2>1, <2>2, StoreAssumption DEF Row
  <1>8. \A q \in Relays, x \in Entries :
          /\ job'[q][x] = IF q = r THEN (IF x \in B THEN "queued" ELSE "none") ELSE job[q][x]
          /\ phase'[q] = IF q = r THEN (IF B = {} THEN "idle" ELSE "publish") ELSE phase[q]
          /\ remembered'[q][x] = IF q = r /\ x \in B THEN tok[x] ELSE remembered[q][x]
          /\ sinceBeat'[q] = IF q = r THEN 0 ELSE sinceBeat[q]
          /\ job[r][x] = "none"
    BY ZenonT(30), <1>2, <1>3, <1>4 DEF TInv, JobsAreOfABatch, IInv, TypeOK
  <1>9. JobsAreOfABatch'
    <2> SUFFICES ASSUME NEW q \in Relays, NEW x \in Entries, phase'[q] # "publish"
                 PROVE  job'[q][x] = "none"
      BY ZenonT(30) DEF JobsAreOfABatch
    <2>1. CASE q = r
      <3>1. B = {}
        BY ZenonT(30), <1>8, <2>1
      <3> QED
        BY ZenonT(30), <1>8, <2>1, <3>1
    <2>2. CASE q # r
      <3>1. phase'[q] = phase[q] /\ job'[q][x] = job[q][x]
        BY ZenonT(30), <1>8, <2>2
      <3> QED
        BY ZenonT(30), <3>1 DEF TInv, JobsAreOfABatch
    <2> QED
      BY ZenonT(30), <2>1, <2>2
  <1>10. NothingIsAbandoned'
    <2> SUFFICES ASSUME faults' = 0, NEW x \in Entries, row'[x].status = "processing"
                 PROVE  \E q \in Relays : Owns(q, x)' /\ job'[q][x] # "none"
      BY ZenonT(30), <1>4 DEF TInv, NothingIsAbandoned
    <2>1. CASE x \in B
      <3>1. remembered'[r][x] = tok[x] /\ job'[r][x] = "queued"
        BY ZenonT(30), <1>8, <2>1
      <3>2. Owns(r, x)'
        BY ZenonT(30), <1>6, <1>7, <2>1, <3>1 DEF Owns
      <3> QED
        BY ZenonT(30), <3>1, <3>2
    <2>2. CASE x \notin B
      <3>1. PICK q \in Relays : Owns(q, x) /\ job[q][x] # "none"
        BY ZenonT(30), <1>4, <1>6, <2>2 DEF TInv, NothingIsAbandoned
      <3>2. q # r
        BY ZenonT(30), <1>8, <3>1
      <3>3. /\ row'[x] = row[x] /\ remembered'[q][x] = remembered[q][x]
            /\ job'[q][x] = job[q][x]
        BY ZenonT(30), <1>6, <1>8, <2>2, <3>2
      <3> QED
        BY ZenonT(30), <3>1, <3>3 DEF Owns
    <2> QED
      BY ZenonT(30), <2>1, <2>2
  <1>11. ASSUME OnSchedule PROVE BatchIsKept'
    <2> SUFFICES ASSUME NEW q \in Relays, NEW x \in Entries, Live(q, x)'
                 PROVE  /\ Owns(q, x)'
                        /\ sinceBeat'[q] <= HeartbeatTicks
                        /\ row'[x].age <= sinceBeat'[q] + HeartbeatTicks * faults'
      BY ZenonT(30) DEF BatchIsKept
    <2>1. HeartbeatTicks * faults \in Nat /\ faults' = faults
      BY ZenonT(30), <1>4, <1>11, Slack DEF TInv, IInv, TypeOK
    <2>2. CASE q = r
      <3>1. x \in B
        BY ZenonT(30), <1>8, <2>2 DEF Live
      <3>2. remembered'[r][x] = tok[x] /\ sinceBeat'[r] = 0
        BY ZenonT(30), <1>8, <3>1
      <3>3. Owns(r, x)'
        BY ZenonT(30), <1>6, <1>7, <3>1, <3>2 DEF Owns
      <3>4. row'[x].age = 0
        BY ZenonT(30), <1>7, <3>1
      <3> QED
        BY <2>1, <2>2, <3>2, <3>3, <3>4
    <2>3. CASE q # r
      <3>1. Live(q, x)
        BY ZenonT(30), <1>4, <1>8, <2>3 DEF Live, Beating
      <3>2. /\ Owns(q, x) /\ sinceBeat[q] <= HeartbeatTicks
            /\ row[x].age <= sinceBeat[q] + HeartbeatTicks * faults
        BY ZenonT(30), <1>11, <3>1 DEF TInv, TimedInv, BatchIsKept
      <3>3. x \notin B
        BY ZenonT(30), <1>7, <3>2 DEF Owns
      <3>4. /\ row'[x] = row[x] /\ remembered'[q][x] = remembered[q][x]
            /\ sinceBeat'[q] = sinceBeat[q]
        BY ZenonT(30), <1>6, <1>8, <2>3, <3>3
      <3> QED
        BY ZenonT(30), <2>1, <3>2, <3>4 DEF Owns
    <2> QED
      BY ZenonT(30), <2>2, <2>3
  <1>12. ASSUME OnSchedule, NEW x \in Entries PROVE Account(x)'
    <2>1. /\ Account(x) /\ faults \in Nat /\ faults' = faults
          /\ deliveries[x] \in Nat /\ deliveries'[x] = deliveries[x]
      <3>1. IInv /\ Account(x) /\ UNCHANGED <<deliveries, faults>>
        BY ZenonT(30), <1>4, <1>12 DEF TInv, TimedInv
      <3> QED
        BY ZenonT(30), <3>1, Numbers
    <2>0. row[x].attempts \in Nat /\ row'[x].attempts = row[x].attempts
      BY ZenonT(30), <1>6 DEF TInv, IInv, TypeOK, Row
    <2>2. Unsettled(x)' => Unsettled(x)
      BY ZenonT(30), <1>6, <1>7 DEF Unsettled
    <2>3. \A q \in Relays, j \in {"publishing", "sent", "errored"} :
            /\ job'[q][x] = j <=> job[q][x] = j
            /\ job[q][x] = j => (Beating(q)' <=> Beating(q))
      <3> SUFFICES ASSUME NEW q \in Relays, NEW j \in {"publishing", "sent", "errored"}
                   PROVE  /\ job'[q][x] = j <=> job[q][x] = j
                          /\ job[q][x] = j => (Beating(q)' <=> Beating(q))
        BY ZenonT(30)
      <3>1. CASE q = r
        BY ZenonT(30), <1>8, <3>1
      <3>2. CASE q # r
        BY ZenonT(30), <1>4, <1>8, <3>2 DEF Beating
      <3> QED
        BY ZenonT(30), <3>1, <3>2
    <2>4. /\ Working(x)' <=> Working(x)
          /\ Failing(x)' <=> Failing(x)
          /\ Publishing(x)' = Publishing(x)
      BY ZenonT(30), <2>3 DEF Working, Failing, Publishing
    <2> QED
      BY ZenonT(30), <2>0, <2>1, <2>2, <2>4, Steady, SameAccount
  <1> QED
    BY ZenonT(30), <1>1, <1>4, <1>9, <1>10, <1>11, <1>12 DEF TInv, TimedInv
================================================================================
