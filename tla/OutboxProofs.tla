------------------------------ MODULE OutboxProofs ------------------------------
(***************************************************************************)
(* Proofs about OutboxRelay, for any number of entries, relays, attempts   *)
(* and faults: type correctness, the fencing invariant, and that the       *)
(* relays implement OutboxDelivery.                                        *)
(***************************************************************************)
EXTENDS OutboxRelay, TLAPS

\* No two processes remember the same token for a row.
TokensDistinct ==
    \A e \in Entries, r, q \in Relays :
        r # q /\ remembered[r][e] # NoToken => remembered[r][e] # remembered[q][e]

\* What a process knows of a row it owns and is working on: the attempts it read
\* are the row's, and if its publish failed that failure is not yet among them.
OwnerKnows ==
    \A e \in Entries, r \in Relays : Owns(r, e) /\ job[r][e] # "none" =>
        /\ seen[r][e] = row[e].attempts
        /\ job[r][e] = "errored" => row[e].attempts < errors[e]

\* What holds of a job whoever owns its row by now.
JobFacts ==
    \A e \in Entries, r \in Relays :
        /\ job[r][e] # "none" => row[e].status # "absent"
        /\ job[r][e] = "sent" => deliveries[e] > 0

\* Attempts are counted after the publish that failed.
AttemptsCounted == \A e \in Entries : row[e].attempts <= errors[e]

IInv == TypeOK /\ TokensDistinct /\ OwnerKnows /\ JobFacts /\ AttemptsCounted

USE StoreAssumption, RelayAssumption

LEMMA InitIInv == Init => IInv
  BY DEF Init, StoreInit, IInv, TypeOK, TokensDistinct, OwnerKnows, JobFacts,
         AttemptsCounted, Owns, Row, Status, Phases, Jobs, NoJobs

\* Each kind of update the store makes to a row yields a row.
LEMMA RowUpdates ==
  ASSUME NEW w \in Row, NEW s \in Status, NEW t \in Tokens \cup {NoToken},
         NEW n \in Nat
  PROVE  /\ [w EXCEPT !.status = s] \in Row
         /\ [w EXCEPT !.due = TRUE] \in Row
         /\ [w EXCEPT !.age = 0] \in Row
         /\ [w EXCEPT !.age = @ + 1] \in Row
         /\ [w EXCEPT !.status = s, !.age = 0] \in Row
         /\ [w EXCEPT !.status = s, !.age = 0, !.token = t] \in Row
         /\ [w EXCEPT !.status = s, !.token = t, !.age = 0] \in Row
         /\ [w EXCEPT !.status = s, !.attempts = n, !.age = 0,
                      !.due = FALSE, !.token = t] \in Row
  <1>1. [w EXCEPT !.status = s] \in Row
    BY DEF Row
  <1>2. [w EXCEPT !.due = TRUE] \in Row
    BY ZenonT(30) DEF Row
  <1>3. [w EXCEPT !.age = 0] \in Row /\ [w EXCEPT !.age = @ + 1] \in Row
    BY DEF Row
  <1>4. [w EXCEPT !.status = s, !.age = 0] \in Row
    BY ZenonT(30) DEF Row
  <1>5. [w EXCEPT !.status = s, !.age = 0, !.token = t] \in Row
    BY ZenonT(30) DEF Row
  <1>6. [w EXCEPT !.status = s, !.token = t, !.age = 0] \in Row
    BY ZenonT(30) DEF Row
  <1>7. [w EXCEPT !.status = s, !.attempts = n, !.age = 0,
                  !.due = FALSE, !.token = t] \in Row
    BY ZenonT(30) DEF Row
  <1> QED
    BY <1>1, <1>2, <1>3, <1>4, <1>5, <1>6, <1>7

\* A step that claims row x for nobody: if the row is processing afterwards then it
\* was, under the same token and with the same attempts.
ClaimsNothing(x) ==
    /\ row'[x].status = "processing" =>
         /\ row[x].status = "processing"
         /\ row'[x].token = row[x].token /\ row'[x].attempts = row[x].attempts
    /\ row'[x].attempts <= errors[x]
    /\ row[x].status # "absent" => row'[x].status # "absent"

\* A step in which r learns nothing about x: its token and its job stay or go.
LearnsNothing(r, x) ==
    /\ remembered'[r][x] \in {remembered[r][x], NoToken}
    /\ job'[r][x] # "none" => job'[r][x] = job[r][x] /\ seen'[r][x] = seen[r][x]

\* The steps that neither claim nor publish preserve the invariant.
LEMMA NoNewClaim ==
  ASSUME IInv, TypeOK', UNCHANGED brokerVars,
         \A x \in Entries : ClaimsNothing(x),
         \A x \in Entries, r \in Relays : LearnsNothing(r, x)
  PROVE  IInv'
  <1> USE DEF IInv, brokerVars
  <1>1. \A x \in Entries, r \in Relays : Owns(r, x)' => Owns(r, x)
    BY ZenonT(30) DEF Owns, ClaimsNothing, LearnsNothing
  <1>2. TokensDistinct'
    <2> SUFFICES ASSUME NEW x \in Entries, NEW r \in Relays, NEW q \in Relays, r # q,
                        remembered'[r][x] # NoToken
                 PROVE  remembered'[r][x] # remembered'[q][x]
      BY ZenonT(30) DEF TokensDistinct
    <2>1. remembered'[r][x] = remembered[r][x]
      BY ZenonT(30) DEF LearnsNothing
    <2>2. remembered'[q][x] = remembered[q][x] \/ remembered'[q][x] = NoToken
      BY ZenonT(30) DEF LearnsNothing
    <2> QED
      BY ZenonT(30), <2>1, <2>2 DEF TokensDistinct
  <1>3. OwnerKnows'
    <2> SUFFICES ASSUME NEW x \in Entries, NEW r \in Relays, Owns(r, x)', job'[r][x] # "none"
                 PROVE  /\ seen'[r][x] = row'[x].attempts
                        /\ job'[r][x] = "errored" => row'[x].attempts < errors'[x]
      BY DEF OwnerKnows
    <2>1. Owns(r, x) /\ row'[x].attempts = row[x].attempts
      BY ZenonT(30), <1>1 DEF Owns, ClaimsNothing
    <2>2. job'[r][x] = job[r][x] /\ seen'[r][x] = seen[r][x]
      BY DEF LearnsNothing
    <2>3. /\ seen[r][x] = row[x].attempts
          /\ job[r][x] = "errored" => row[x].attempts < errors[x]
      BY ZenonT(30), <2>1, <2>2 DEF OwnerKnows
    <2> QED
      BY <2>1, <2>2, <2>3
  <1>4. JobFacts'
    <2> SUFFICES ASSUME NEW x \in Entries, NEW r \in Relays, job'[r][x] # "none"
                 PROVE  /\ row'[x].status # "absent"
                        /\ job'[r][x] = "sent" => deliveries'[x] > 0
      BY ZenonT(30) DEF JobFacts
    <2>1. job'[r][x] = job[r][x]
      BY DEF LearnsNothing
    <2>2. row[x].status # "absent" /\ (job[r][x] = "sent" => deliveries[x] > 0)
      BY <2>1 DEF JobFacts
    <2> QED
      BY <2>1, <2>2 DEF ClaimsNothing
  <1>5. AttemptsCounted'
    BY DEF AttemptsCounted, ClaimsNothing
  <1> QED
    BY <1>2, <1>3, <1>4, <1>5

\* The same for a step of a relay's goroutine that touches neither the table nor
\* the tokens nor the batch.
LEMMA ProcessOnly ==
  ASSUME IInv, TypeOK', UNCHANGED <<storeVars, job, seen, brokerVars>>
  PROVE  IInv'
  <1>1. \A x \in Entries : ClaimsNothing(x)
    BY DEF IInv, TypeOK, Row, AttemptsCounted, ClaimsNothing, storeVars
  <1>2. \A x \in Entries, r \in Relays : LearnsNothing(r, x)
    BY DEF LearnsNothing, storeVars
  <1> QED
    BY <1>1, <1>2, NoNewClaim

LEMMA StepWrite == ASSUME IInv, NEW e \in Entries, Write(e) PROVE IInv'
  <1> USE DEF Write, Insert, procVars, brokerVars
  <1>1. row' \in [Entries -> Row]
    BY ZenonT(30), RowUpdates DEF IInv, TypeOK, Status
  <1>2. \A x \in Entries : row'[x].attempts = row[x].attempts /\ ClaimsNothing(x)
    BY DEF IInv, TypeOK, Row, AttemptsCounted, ClaimsNothing
  <1>3. TypeOK'
    BY <1>1, <1>2 DEF IInv, TypeOK
  <1> QED
    BY <1>2, <1>3, NoNewClaim DEF LearnsNothing

LEMMA StepBackoff == ASSUME IInv, NEW e \in Entries, Backoff(e) PROVE IInv'
  <1> USE DEF Backoff, BackoffElapses, procVars, brokerVars
  <1>1. row' \in [Entries -> Row]
    BY ZenonT(30), RowUpdates DEF IInv, TypeOK, Status
  <1>2. \A x \in Entries : row'[x].attempts = row[x].attempts /\ ClaimsNothing(x)
    BY DEF IInv, TypeOK, Row, AttemptsCounted, ClaimsNothing
  <1>3. TypeOK'
    BY <1>1, <1>2 DEF IInv, TypeOK
  <1> QED
    BY <1>2, <1>3, NoNewClaim DEF LearnsNothing

LEMMA StepTick == ASSUME IInv, Tick PROVE IInv'
  <1> USE DEF Tick, Aged, brokerVars
  <1>1. row' \in [Entries -> Row]
    BY ZenonT(30), RowUpdates DEF IInv, TypeOK, Status
  <1>2. \A x \in Entries : row'[x].attempts = row[x].attempts /\ ClaimsNothing(x)
    BY DEF IInv, TypeOK, Row, AttemptsCounted, ClaimsNothing
  <1>3. TypeOK'
    BY <1>1, <1>2 DEF IInv, TypeOK
  <1> QED
    BY <1>2, <1>3, NoNewClaim DEF LearnsNothing

LEMMA StepStart == ASSUME IInv, NEW r \in Relays, Start(r) PROVE IInv'
  <1>1. TypeOK'
    BY DEF Start, Poll, IInv, TypeOK, storeVars, brokerVars, Phases
  <1> QED
    BY <1>1, ProcessOnly DEF Start

LEMMA StepBeginPoll == ASSUME IInv, NEW r \in Relays, BeginPoll(r) PROVE IInv'
  <1>1. TypeOK'
    BY DEF BeginPoll, Poll, IInv, TypeOK, storeVars, brokerVars, Phases
  <1> QED
    BY <1>1, ProcessOnly DEF BeginPoll

LEMMA StepStop == ASSUME IInv, NEW r \in Relays, Stop(r) PROVE IInv'
  <1>1. TypeOK'
    BY DEF Stop, Fault, IInv, TypeOK, storeVars, brokerVars
  <1> QED
    BY <1>1, ProcessOnly DEF Stop

LEMMA StepRecoverStale == ASSUME IInv, NEW r \in Relays, RecoverStale(r) PROVE IInv'
  <1> USE DEF RecoverStale, Fault, brokerVars
  <1>1. CASE UNCHANGED storeVars
    <2>1. TypeOK'
      BY <1>1 DEF IInv, TypeOK, storeVars, Phases
    <2> QED
      BY <1>1, <2>1, ProcessOnly
  <1>2. CASE ResetStaleProcessing(r) /\ UNCHANGED faults
    <2> USE <1>2 DEF ResetStaleProcessing
    <2>1. row' \in [Entries -> Row]
      BY ZenonT(30), RowUpdates DEF IInv, TypeOK, Status
    <2>2. ASSUME NEW x \in Entries
          PROVE  row'[x].attempts = row[x].attempts /\ ClaimsNothing(x)
      <3>1. /\ row[x] \in Row
            /\ row[x].attempts <= errors[x]
        BY ZenonT(30) DEF IInv, TypeOK, AttemptsCounted
      <3>2. \/ row'[x] = row[x]
            \/ row'[x] = [row[x] EXCEPT !.status = "pending", !.token = NoToken, !.age = 0]
        BY ZenonT(30)
      <3> QED
        BY ZenonT(30), <3>1, <3>2 DEF Row, ClaimsNothing
    <2>3. TypeOK'
      BY ZenonT(30), <2>1, <2>2 DEF IInv, TypeOK, Phases
    <2> QED
      BY ZenonT(30), <2>2, <2>3, NoNewClaim DEF LearnsNothing
  <1> QED
    BY <1>1, <1>2

LEMMA StepBeat == ASSUME IInv, NEW r \in Relays, Beat(r) PROVE IInv'
  <1> USE DEF Beat, Fault, brokerVars
  <1>1. CASE UNCHANGED storeVars
    <2>1. TypeOK'
      BY <1>1 DEF IInv, TypeOK, storeVars
    <2> QED
      BY <1>1, <2>1, ProcessOnly
  <1>2. CASE Heartbeat(r, Unfinished(r)) /\ UNCHANGED faults
    <2> USE <1>2 DEF Heartbeat
    <2>1. row' \in [Entries -> Row]
      BY ZenonT(30), RowUpdates DEF IInv, TypeOK, Status
    <2>2. \A x \in Entries : row'[x].attempts = row[x].attempts /\ ClaimsNothing(x)
      BY DEF IInv, TypeOK, Row, AttemptsCounted, ClaimsNothing
    <2>3. TypeOK'
      BY <2>1, <2>2 DEF IInv, TypeOK
    <2> QED
      BY <2>2, <2>3, NoNewClaim DEF LearnsNothing
  <1> QED
    BY <1>1, <1>2

LEMMA StepCleanup == ASSUME IInv, NEW r \in Relays, Cleanup(r) PROVE IInv'
  <1> USE DEF DeleteBefore, procVars, brokerVars
  <1>1. PICK D \in SUBSET Entries : DeleteBefore(r, D)
    BY ZenonT(30) DEF Cleanup
  <1>2. UNCHANGED <<procVars, brokerVars, faults>>
    BY DEF Cleanup
  <1>3. row' \in [Entries -> Row]
    BY ZenonT(30), <1>1, RowUpdates DEF IInv, TypeOK, Status
  <1>4. ASSUME NEW x \in Entries
        PROVE  row'[x].attempts = row[x].attempts /\ ClaimsNothing(x)
    <2>1. /\ row[x] \in Row
          /\ row[x].attempts <= errors[x]
      BY DEF IInv, TypeOK, AttemptsCounted
    <2>2. \/ row'[x] = row[x]
          \/ row'[x] = [row[x] EXCEPT !.status = "deleted"]
      BY <1>1
    <2> QED
      BY <2>1, <2>2 DEF Row, ClaimsNothing
  <1>5. TypeOK'
    BY <1>1, <1>2, <1>3, <1>4 DEF IInv, TypeOK
  <1> QED
    BY <1>1, <1>2, <1>4, <1>5, NoNewClaim DEF LearnsNothing

LEMMA StepPollEnd == ASSUME IInv, NEW r \in Relays, PollEnd(r) PROVE IInv'
  <1> USE DEF PollEnd, NoJobs, storeVars, brokerVars
  <1>1. TypeOK'
    BY DEF IInv, TypeOK, Phases, Jobs
  <1>2. \A x \in Entries : ClaimsNothing(x)
    BY DEF IInv, TypeOK, Row, AttemptsCounted, ClaimsNothing
  <1>3. \A x \in Entries, q \in Relays : LearnsNothing(q, x)
    BY DEF IInv, TypeOK, LearnsNothing
  <1> QED
    BY <1>1, <1>2, <1>3, NoNewClaim

\* A process ends, in a crash or after a shutdown, and the table stays.
LEMMA StepProcessEnds ==
  ASSUME IInv, NEW r \in Relays, ProcessEnds(r), UNCHANGED <<row, brokerVars>>, faults' \in Nat
  PROVE  IInv'
  <1> USE DEF ProcessEnds, NoJobs, brokerVars
  <1>1. TypeOK'
    BY DEF IInv, TypeOK, Phases, Jobs
  <1>2. \A x \in Entries : ClaimsNothing(x)
    BY DEF IInv, TypeOK, Row, AttemptsCounted, ClaimsNothing
  <1>3. \A x \in Entries, q \in Relays : LearnsNothing(q, x)
    BY DEF IInv, TypeOK, LearnsNothing
  <1> QED
    BY <1>1, <1>2, <1>3, NoNewClaim

LEMMA StepShutdown == ASSUME IInv, NEW r \in Relays, Shutdown(r) PROVE IInv'
  BY StepProcessEnds DEF Shutdown, ResetPending, IInv, TypeOK

LEMMA StepCrash == ASSUME IInv, NEW r \in Relays, Crash(r) PROVE IInv'
  BY StepProcessEnds DEF Crash, Fault, IInv, TypeOK

\* The claiming statement of FetchPending, whether or not its result is read.
LEMMA ClaimStatement ==
  ASSUME IInv, NEW r \in Relays, NEW B \in SUBSET Entries, NEW tok \in [B -> Tokens],
         B \subseteq Eligible(r), \A e \in B : Fresh(e, tok[e]), row' = Claimed(B, tok)
  PROVE  /\ row' \in [Entries -> Row]
         /\ \A x \in Entries :
              /\ row'[x].attempts = row[x].attempts
              /\ row[x].status # "absent" => row'[x].status # "absent"
              /\ x \in B => row'[x].status = "processing" /\ row'[x].token = tok[x]
              /\ x \notin B => row'[x] = row[x]
  <1> USE DEF Claimed
  <1>1. row' \in [Entries -> Row]
    BY ZenonT(30), RowUpdates DEF IInv, TypeOK, Status
  <1>2. ASSUME NEW x \in Entries
        PROVE  /\ row'[x].attempts = row[x].attempts
               /\ row[x].status # "absent" => row'[x].status # "absent"
               /\ x \in B => row'[x].status = "processing" /\ row'[x].token = tok[x]
               /\ x \notin B => row'[x] = row[x]
    <2>1. row[x] \in Row
      BY ZenonT(30) DEF IInv, TypeOK
    <2>2. CASE x \in B
      <3>1. row'[x] = [row[x] EXCEPT !.status = "processing", !.age = 0, !.token = tok[x]]
        BY ZenonT(30), <2>2
      <3> QED
        BY ZenonT(30), <2>1, <2>2, <3>1 DEF Row
    <2>3. CASE x \notin B
      BY ZenonT(30), <2>3
    <2> QED
      BY ZenonT(30), <2>2, <2>3
  <1> QED
    BY ZenonT(30), <1>1, <1>2

LEMMA StepFetch == ASSUME IInv, NEW r \in Relays, Fetch(r) PROVE IInv'
  <1> USE DEF brokerVars
  <1>1. PICK B \in SUBSET Entries :
          /\ FetchPending(r, B, TRUE)
          /\ phase' = [phase EXCEPT ![r] = IF B = {} THEN "idle" ELSE "publish"]
          /\ job' = [job EXCEPT ![r] = [e \in Entries |-> IF e \in B THEN "queued" ELSE "none"]]
          /\ seen' = [seen EXCEPT ![r] = [e \in Entries |-> IF e \in B THEN row[e].attempts ELSE 0]]
          /\ claimed' = [claimed EXCEPT ![r] = @ \cup B]
    BY ZenonT(30) DEF Fetch
  <1>2. PICK tok \in [B -> Tokens] :
          /\ \A e \in B : Fresh(e, tok[e])
          /\ row' = Claimed(B, tok)
          /\ remembered' = [remembered EXCEPT ![r] =
               [e \in Entries |-> IF e \in B THEN tok[e] ELSE @[e]]]
    BY ZenonT(30), <1>1 DEF FetchPending
  <1>3. /\ sinceBeat' = [sinceBeat EXCEPT ![r] = 0]
        /\ UNCHANGED <<cancelled, pollCount, brokerVars, faults>>
    BY ZenonT(30) DEF Fetch
  <1>4. B \subseteq Eligible(r)
    BY <1>1 DEF FetchPending, Oldest
  <1>5. /\ row' \in [Entries -> Row]
        /\ \A x \in Entries :
             /\ row'[x].attempts = row[x].attempts
             /\ row[x].status # "absent" => row'[x].status # "absent"
             /\ x \in B => row'[x].status = "processing" /\ row'[x].token = tok[x]
             /\ x \notin B => row'[x] = row[x]
    BY SMTT(30), <1>2, <1>4, ClaimStatement
  <1>6. TypeOK'
    <2>1. /\ remembered' \in [Relays -> [Entries -> Tokens \cup {NoToken}]]
          /\ job' \in [Relays -> [Entries -> Jobs]]
      <3>1. remembered' \in [Relays -> [Entries -> Tokens \cup {NoToken}]]
        <4>1. remembered \in [Relays -> [Entries -> Tokens \cup {NoToken}]]
          BY ZenonT(30) DEF IInv, TypeOK
        <4>2. [e \in Entries |-> IF e \in B THEN tok[e] ELSE remembered[r][e]]
                \in [Entries -> Tokens \cup {NoToken}]
          BY ZenonT(30), <1>2, <4>1
        <4> QED
          BY ZenonT(30), <1>2, <4>1, <4>2
      <3>2. job' \in [Relays -> [Entries -> Jobs]]
        BY ZenonT(30), <1>1 DEF IInv, TypeOK, Jobs
      <3> QED
        BY <3>1, <3>2
    <2>2. seen' \in [Relays -> [Entries -> Nat]]
      <3>1. \A x \in Entries : row[x].attempts \in Nat
        BY DEF IInv, TypeOK, Row
      <3> QED
        BY ZenonT(30), <1>1, <3>1 DEF IInv, TypeOK
    <2> QED
      BY ZenonT(30), <1>1, <1>3, <1>5, <2>1, <2>2 DEF IInv, TypeOK, Phases
  <1>7. \A x \in Entries, q \in Relays :
          /\ remembered'[q][x] = IF q = r /\ x \in B THEN tok[x] ELSE remembered[q][x]
          /\ q # r => job'[q][x] = job[q][x] /\ seen'[q][x] = seen[q][x]
          /\ job'[r][x] = IF x \in B THEN "queued" ELSE "none"
          /\ x \in B => seen'[r][x] = row[x].attempts
    BY ZenonT(30), <1>1, <1>2 DEF IInv, TypeOK
  <1>8. TokensDistinct'
    BY SMTT(30), <1>2, <1>7 DEF IInv, TypeOK, TokensDistinct, Fresh
  <1>9. OwnerKnows'
    <2> SUFFICES ASSUME NEW x \in Entries, NEW q \in Relays, Owns(q, x)', job'[q][x] # "none"
                 PROVE  /\ seen'[q][x] = row'[x].attempts
                        /\ job'[q][x] = "errored" => row'[x].attempts < errors'[x]
      BY DEF OwnerKnows
    <2>1. CASE q = r
      BY <1>5, <1>7, <2>1
    <2>2. CASE q # r
      <3>1. remembered'[q][x] = remembered[q][x] /\ remembered'[q][x] = row'[x].token
        BY <1>7, <2>2 DEF Owns
      <3>2. x \in B => row'[x].token # remembered[q][x]
        <4>1. x \in B => Fresh(x, tok[x])
          BY <1>2
        <4> QED
          BY <1>5, <4>1 DEF Fresh
      <3>3. x \notin B
        BY <3>1, <3>2
      <3>4. /\ row'[x] = row[x] /\ errors'[x] = errors[x]
            /\ job'[q][x] = job[q][x] /\ seen'[q][x] = seen[q][x]
        BY ZenonT(30), <1>3, <1>5, <1>7, <2>2, <3>3
      <3>5. Owns(q, x) /\ job[q][x] # "none"
        BY <3>1, <3>4 DEF Owns
      <3> QED
        BY <3>4, <3>5 DEF IInv, OwnerKnows
    <2> QED
      BY <2>1, <2>2
  <1>10. JobFacts'
    <2> SUFFICES ASSUME NEW x \in Entries, NEW q \in Relays, job'[q][x] # "none"
                 PROVE  /\ row'[x].status # "absent"
                        /\ job'[q][x] = "sent" => deliveries'[x] > 0
      BY ZenonT(30) DEF JobFacts
    <2>1. CASE q = r
      BY <1>5, <1>7, <2>1
    <2>2. CASE q # r
      <3>1. job[q][x] = job'[q][x]
        BY <1>7, <2>2
      <3>2. row[x].status # "absent" /\ (job[q][x] = "sent" => deliveries[x] > 0)
        BY ZenonT(30), <3>1 DEF IInv, JobFacts
      <3> QED
        BY ZenonT(30), <1>3, <1>5, <3>1, <3>2
    <2> QED
      BY <2>1, <2>2
  <1>11. AttemptsCounted'
    BY ZenonT(30), <1>3, <1>5 DEF IInv, AttemptsCounted
  <1> QED
    BY <1>6, <1>8, <1>9, <1>10, <1>11 DEF IInv

LEMMA StepFetchError == ASSUME IInv, NEW r \in Relays, FetchError(r) PROVE IInv'
  <1> USE DEF brokerVars
  <1>1. /\ phase' = [phase EXCEPT ![r] = "idle"]
        /\ faults' \in Nat
        /\ UNCHANGED <<cancelled, pollCount, job, seen, claimed, sinceBeat, brokerVars>>
    <2>1. faults \in Nat
      BY DEF IInv, TypeOK
    <2>2. \/ faults' = faults
          \/ faults' = faults + 1
      BY Zenon DEF FetchError, Fault
    <2>3. /\ phase' = [phase EXCEPT ![r] = "idle"]
          /\ UNCHANGED <<cancelled, pollCount, job, seen, claimed, sinceBeat, brokerVars>>
      BY Zenon DEF FetchError
    <2> QED
      BY <2>1, <2>2, <2>3
  <1>2. CASE UNCHANGED storeVars
    <2>1. TypeOK'
      BY <1>1, <1>2 DEF IInv, TypeOK, storeVars, Phases
    <2> QED
      BY <1>1, <1>2, <2>1, ProcessOnly
  <1>3. CASE \E B \in SUBSET Entries : FetchPending(r, B, FALSE)
    <2>1. PICK B \in SUBSET Entries : FetchPending(r, B, FALSE)
      BY ZenonT(30), <1>3
    <2>2. PICK tok \in [B -> Tokens] :
            /\ \A e \in B : Fresh(e, tok[e])
            /\ row' = Claimed(B, tok)
            /\ remembered' = [remembered EXCEPT ![r] = [e \in Entries |-> @[e]]]
      BY <2>1 DEF FetchPending
    <2>3. remembered' = remembered
      BY <2>2 DEF IInv, TypeOK
    <2>4. B \subseteq Eligible(r)
      BY <2>1 DEF FetchPending, Oldest
    <2>5. /\ row' \in [Entries -> Row]
          /\ \A x \in Entries :
               /\ row'[x].attempts = row[x].attempts
               /\ row[x].status # "absent" => row'[x].status # "absent"
               /\ x \in B => row'[x].status = "processing" /\ row'[x].token = tok[x]
               /\ x \notin B => row'[x] = row[x]
      BY ZenonT(30), <2>2, <2>4, ClaimStatement
    <2>6. TypeOK'
      BY ZenonT(30), <1>1, <2>3, <2>5 DEF IInv, TypeOK, Phases
    <2>7. \A x \in Entries, q \in Relays : Owns(q, x)' => x \notin B /\ Owns(q, x)
      BY <2>2, <2>3, <2>5 DEF Owns, Fresh
    <2>8. OwnerKnows'
      BY ZenonT(30), <1>1, <2>5, <2>7 DEF IInv, OwnerKnows
    <2>9. TokensDistinct' /\ JobFacts' /\ AttemptsCounted'
      BY ZenonT(30), <1>1, <2>3, <2>5 DEF IInv, TokensDistinct, JobFacts, AttemptsCounted
    <2> QED
      BY <2>6, <2>8, <2>9 DEF IInv
  <1> QED
    BY ZenonT(30), <1>2, <1>3 DEF FetchError

LEMMA StepPublishStart ==
  ASSUME IInv, NEW r \in Relays, NEW e \in Entries, PublishStart(r, e) PROVE IInv'
  <1> USE DEF PublishStart, storeVars, brokerVars
  <1>1. TypeOK'
    BY DEF IInv, TypeOK, Jobs
  <1>2. \A x \in Entries, q \in Relays :
          job'[q][x] = IF q = r /\ x = e THEN "publishing" ELSE job[q][x]
    BY DEF IInv, TypeOK
  <1>3. job[r][e] = "queued"
    BY DEF InState
  <1>4. OwnerKnows'
    BY <1>2, <1>3 DEF IInv, OwnerKnows, Owns
  <1>5. JobFacts'
    BY <1>2, <1>3 DEF IInv, JobFacts
  <1> QED
    BY <1>1, <1>4, <1>5 DEF IInv, TokensDistinct, AttemptsCounted

LEMMA StepPublishReturn ==
  ASSUME IInv, NEW r \in Relays, NEW e \in Entries, PublishReturn(r, e) PROVE IInv'
  <1>1. PICK accepted \in BOOLEAN, ok \in BOOLEAN :
          /\ ok => accepted
          /\ job' = [job EXCEPT ![r][e] = IF ok THEN "sent" ELSE "errored"]
          /\ deliveries' = [deliveries EXCEPT ![e] =
               IF accepted /\ @ < DeliveryCap THEN @ + 1 ELSE @]
          /\ errors' = [errors EXCEPT ![e] = IF ~ok /\ @ < MaxAttempts THEN @ + 1 ELSE @]
    BY ZenonT(30) DEF PublishReturn
  <1>2. /\ job[r][e] = "publishing"
        /\ UNCHANGED <<row, remembered, phase, cancelled, pollCount, seen, claimed,
                       sinceBeat, faults>>
    BY DEF PublishReturn, storeVars
  <1>3. \A x \in Entries : /\ deliveries[x] \in 0 .. DeliveryCap
                           /\ errors[x] \in 0 .. MaxAttempts
                           /\ row[x].attempts \in Nat /\ row[x].attempts < MaxAttempts
    BY DEF IInv, TypeOK, Row
  <1>4. TypeOK'
    BY SMTT(30), <1>1, <1>2, <1>3 DEF IInv, TypeOK, Jobs
  <1>5. \A x \in Entries, q \in Relays :
          job'[q][x] = IF q = r /\ x = e THEN (IF ok THEN "sent" ELSE "errored")
                       ELSE job[q][x]
    BY <1>1 DEF IInv, TypeOK
  <1>6. \A x \in Entries : /\ errors'[x] \in Nat /\ deliveries'[x] \in Nat
                           /\ errors'[x] >= errors[x] /\ deliveries'[x] >= deliveries[x]
                           /\ x = e /\ ok => deliveries'[x] > 0
                           /\ x = e /\ ~ok => row[x].attempts < errors'[x]
    BY <1>1, <1>3 DEF IInv, TypeOK, AttemptsCounted
  <1>7. OwnerKnows'
    <2> SUFFICES ASSUME NEW x \in Entries, NEW q \in Relays, Owns(q, x)', job'[q][x] # "none"
                 PROVE  /\ seen'[q][x] = row'[x].attempts
                        /\ job'[q][x] = "errored" => row'[x].attempts < errors'[x]
      BY ZenonT(30) DEF OwnerKnows
    <2>1. Owns(q, x) /\ job[q][x] # "none"
      BY <1>2, <1>5 DEF Owns
    <2>2. /\ seen[q][x] = row[x].attempts
          /\ job[q][x] = "errored" => row[x].attempts < errors[x]
      BY ZenonT(30), <2>1 DEF IInv, OwnerKnows
    <2>3. job'[q][x] = "errored" => job[q][x] = "errored" \/ (x = e /\ ~ok)
      BY <1>5
    <2>4. /\ row[x].attempts \in Nat /\ errors[x] \in Nat /\ errors'[x] \in Nat
          /\ errors'[x] >= errors[x]
          /\ x = e /\ ~ok => row[x].attempts < errors'[x]
      BY <1>3, <1>6
    <2>5. job'[q][x] = "errored" => row[x].attempts < errors'[x]
      BY SMTT(30), <2>2, <2>3, <2>4
    <2>6. seen'[q][x] = seen[q][x] /\ row'[x].attempts = row[x].attempts
      BY <1>2
    <2> QED
      BY <2>2, <2>5, <2>6
  <1>8. JobFacts'
    <2> SUFFICES ASSUME NEW x \in Entries, NEW q \in Relays, job'[q][x] # "none"
                 PROVE  /\ row'[x].status # "absent"
                        /\ job'[q][x] = "sent" => deliveries'[x] > 0
      BY DEF JobFacts
    <2>1. job[q][x] # "none"
      BY <1>2, <1>5
    <2>2. row[x].status # "absent" /\ (job[q][x] = "sent" => deliveries[x] > 0)
      BY <2>1 DEF IInv, JobFacts
    <2>3. job'[q][x] = "sent" => job[q][x] = "sent" \/ (x = e /\ ok)
      BY <1>5
    <2>4. /\ deliveries[x] \in Nat /\ deliveries'[x] \in Nat
          /\ deliveries'[x] >= deliveries[x]
          /\ x = e /\ ok => deliveries'[x] > 0
      <3>1. deliveries[x] \in 0 .. DeliveryCap
        BY ZenonT(30), <1>3
      <3>2. deliveries[x] \in Nat
        BY <3>1
      <3> QED
        BY ZenonT(30), <1>6, <3>2
    <2>5. job'[q][x] = "sent" => deliveries'[x] > 0
      BY <2>2, <2>3, <2>4
    <2>6. row'[x].status = row[x].status
      BY <1>2
    <2> QED
      BY <2>2, <2>5, <2>6
  <1>9. TokensDistinct'
    BY <1>2 DEF IInv, TokensDistinct
  <1>10. AttemptsCounted'
    <2> SUFFICES ASSUME NEW x \in Entries PROVE row'[x].attempts <= errors'[x]
      BY ZenonT(30) DEF AttemptsCounted
    <2>1. row[x].attempts <= errors[x]
      BY DEF IInv, AttemptsCounted
    <2> QED
      BY <1>2, <1>3, <1>6, <2>1
  <1> QED
    BY <1>4, <1>7, <1>8, <1>9, <1>10 DEF IInv

\* What the owner of a row is about to write: a row nobody owns, with attempts
\* still below the limit, published only if the broker has the message and failed
\* only if MaxAttempts publishes failed.
LEMMA OutcomeFacts ==
  ASSUME IInv, NEW r \in Relays, NEW e \in Entries, Owns(r, e),
         job[r][e] \in {"sent", "errored"}
  PROVE  LET new == OutcomeRow(r, e)
         IN  /\ new \in Row
             /\ new.attempts < MaxAttempts /\ new.attempts <= errors[e]
             /\ \/ new.status = "published" /\ deliveries[e] > 0
                \/ new.status = "failed" /\ errors[e] = MaxAttempts
                \/ new.status = "pending"
  <1>0. row[e] \in Row
    BY DEF IInv, TypeOK
  <1>1. /\ row[e].attempts \in Nat
        /\ row[e].attempts < MaxAttempts /\ row[e].attempts <= errors[e]
        /\ errors[e] \in 0 .. MaxAttempts
    BY DEF IInv, TypeOK, Row, AttemptsCounted
  <1>2. /\ seen[r][e] = row[e].attempts
        /\ job[r][e] = "errored" => row[e].attempts < errors[e]
    BY ZenonT(30) DEF IInv, OwnerKnows
  <1>3. CASE job[r][e] = "sent"
    <2>1. OutcomeRow(r, e) = [row[e] EXCEPT !.status = "published", !.age = 0]
      BY <1>3 DEF OutcomeRow, MarkPublished
    <2>2. deliveries[e] > 0
      BY ZenonT(30), <1>3 DEF IInv, JobFacts
    <2>3. OutcomeRow(r, e) \in Row
      <3>1. [row[e] EXCEPT !.status = "published", !.age = 0] \in Row
        BY ZenonT(30), <1>0, RowUpdates DEF Status
      <3> QED
        BY <2>1, <3>1
    <2> QED
      BY <1>0, <1>1, <2>1, <2>2, <2>3 DEF Row
  <1>4. CASE job[r][e] = "errored" /\ seen[r][e] + 1 >= MaxAttempts
    <2>1. OutcomeRow(r, e) = [row[e] EXCEPT !.status = "failed", !.age = 0]
      BY <1>4 DEF OutcomeRow, MarkFailed
    <2>2. errors[e] = MaxAttempts
      BY <1>1, <1>2, <1>4
    <2>3. OutcomeRow(r, e) \in Row
      <3>1. [row[e] EXCEPT !.status = "failed", !.age = 0] \in Row
        BY ZenonT(30), <1>0, RowUpdates DEF Status
      <3> QED
        BY <2>1, <3>1
    <2> QED
      BY <1>0, <1>1, <2>1, <2>2, <2>3 DEF Row
  <1>5. CASE job[r][e] = "errored" /\ ~(seen[r][e] + 1 >= MaxAttempts)
    <2>1. OutcomeRow(r, e) =
            [row[e] EXCEPT !.status = "pending", !.attempts = row[e].attempts + 1,
                           !.age = 0, !.due = FALSE, !.token = NoToken]
      BY <1>5 DEF OutcomeRow, IncrementAttempts
    <2>2. /\ OutcomeRow(r, e).attempts = row[e].attempts + 1
          /\ OutcomeRow(r, e).status = "pending"
      BY <1>0, <2>1 DEF Row
    <2>3. OutcomeRow(r, e) \in Row
      <3>1. /\ "pending" \in Status /\ row[e].attempts + 1 \in Nat
            /\ NoToken \in Tokens \cup {NoToken}
        BY <1>1 DEF Status
      <3>2. [row[e] EXCEPT !.status = "pending", !.attempts = row[e].attempts + 1,
                           !.age = 0, !.due = FALSE, !.token = NoToken] \in Row
        BY ZenonT(30), <1>0, <3>1, RowUpdates
      <3> QED
        BY <2>1, <3>2
    <2> QED
      BY <1>1, <1>2, <1>5, <2>2, <2>3
  <1> QED
    BY ZenonT(30), <1>3, <1>4, <1>5

LEMMA StepOutcome ==
  ASSUME IInv, NEW r \in Relays, NEW e \in Entries, Outcome(r, e) PROVE IInv'
  <1> USE DEF brokerVars
  <1>1. /\ job[r][e] \in {"sent", "errored"}
        /\ job' = [job EXCEPT ![r][e] = "none"]
        /\ UNCHANGED <<phase, cancelled, pollCount, seen, sinceBeat, brokerVars>>
    BY DEF Outcome
  <1>2. /\ \/ Owns(r, e) /\ row' = [row EXCEPT ![e] = OutcomeRow(r, e)]
           \/ row' = row
        /\ \/ remembered' = [remembered EXCEPT ![r][e] = NoToken]
           \/ remembered' = remembered
        /\ claimed' = [claimed EXCEPT ![r] = @ \ {e}] \/ claimed' = claimed
        /\ faults' = faults + 1 \/ faults' = faults
    BY DEF Outcome, Transition, TransitionError, Forget, Fault, storeVars
  <1>3. row' \in [Entries -> Row] /\ \A x \in Entries : row'[x].attempts < MaxAttempts
    <2>1. Owns(r, e) => OutcomeRow(r, e) \in Row /\ OutcomeRow(r, e).attempts < MaxAttempts
      BY <1>1, OutcomeFacts
    <2> QED
      BY ZenonT(30), <1>2, <2>1 DEF IInv, TypeOK
  <1>4. TypeOK'
    <2>1. job' \in [Relays -> [Entries -> Jobs]]
      BY <1>1 DEF IInv, TypeOK, Jobs
    <2>2. remembered' \in [Relays -> [Entries -> Tokens \cup {NoToken}]]
      <3>1. remembered \in [Relays -> [Entries -> Tokens \cup {NoToken}]]
        BY DEF IInv, TypeOK
      <3> QED
        BY SMTT(30), <1>2, <3>1
    <2>3. claimed' \in [Relays -> SUBSET Entries] /\ faults' \in Nat
      <3>1. claimed \in [Relays -> SUBSET Entries] /\ faults \in Nat
        BY DEF IInv, TypeOK
      <3> QED
        BY <1>2, <3>1
    <2> QED
      BY ZenonT(30), <1>1, <1>3, <2>1, <2>2, <2>3 DEF IInv, TypeOK
  <1>5. ASSUME NEW x \in Entries PROVE ClaimsNothing(x)
    <2>1. row[x] \in Row /\ row[x].attempts <= errors[x]
      BY DEF IInv, TypeOK, AttemptsCounted
    <2>2. CASE row'[x] = row[x]
      BY <2>1, <2>2 DEF ClaimsNothing
    <2>3. CASE x = e /\ Owns(r, e) /\ row'[x] = OutcomeRow(r, e)
      BY <1>1, <2>3, OutcomeFacts DEF ClaimsNothing
    <2> QED
      BY <1>2, <2>2, <2>3 DEF IInv, TypeOK
  <1>6. \A x \in Entries, q \in Relays : LearnsNothing(q, x)
    BY <1>1, <1>2 DEF IInv, TypeOK, LearnsNothing
  <1> QED
    BY <1>1, <1>4, <1>5, <1>6, NoNewClaim

LEMMA StepRelay == ASSUME IInv, NEW r \in Relays, RelayStep(r) PROVE IInv'
  BY StepStart, StepBeginPoll, StepRecoverStale, StepFetch, StepFetchError,
     StepPublishStart, StepPublishReturn, StepOutcome, StepBeat, StepPollEnd,
     StepShutdown DEF RelayStep

LEMMA NextIInv == IInv /\ [Next]_vars => IInv'
  <1> SUFFICES ASSUME IInv, [Next]_vars PROVE IInv'
    OBVIOUS
  <1>1. CASE UNCHANGED vars
    <2>1. TypeOK'
      BY <1>1 DEF vars, storeVars, procVars, brokerVars, IInv, TypeOK
    <2> QED
      BY <1>1, <2>1, ProcessOnly DEF vars, procVars
  <1>2. CASE Next
    BY <1>2, StepWrite, StepBackoff, StepRelay, StepCleanup, StepStop, StepCrash,
       StepTick DEF Next
  <1> QED
    BY <1>1, <1>2

\* The inductive invariant holds in every reachable state.
THEOREM Invariance == Spec => []IInv
  BY InitIInv, NextIInv, PTL DEF Spec

\* Type correctness, for any constants: in particular no row ever counts
\* MaxAttempts attempts, because handlePublishError turns the last failure into
\* MarkFailed whatever other relays did to the row meanwhile.
THEOREM TypeCorrect == Spec => []TypeOK
  <1>1. IInv => TypeOK
    BY DEF IInv
  <1> QED
    BY <1>1, Invariance, PTL

\* The claim token fences, for any number of relays: at most one process can
\* update a processing row, and what it read of the row at its claim is current.
THEOREM Fencing == Spec => []OwnerIsSoleAndCurrent
  <1>1. IInv => OwnerIsSoleAndCurrent
    <2> SUFFICES ASSUME IInv, NEW e \in Entries, NEW r \in Relays, Owns(r, e)
                 PROVE  /\ \A q \in Relays \ {r} : ~Owns(q, e)
                        /\ job[r][e] # "none" => seen[r][e] = row[e].attempts
      BY DEF OwnerIsSoleAndCurrent
    <2>1. ASSUME NEW q \in Relays \ {r} PROVE ~Owns(q, e)
      BY DEF IInv, TokensDistinct, Owns
    <2>2. job[r][e] # "none" => seen[r][e] = row[e].attempts
      BY DEF IInv, OwnerKnows
    <2> QED
      BY ZenonT(30), <2>1, <2>2
  <1> QED
    BY <1>1, Invariance, PTL

--------------------------------------------------------------------------------
\* A step that settles nothing and does not publish is invisible to the promise.
SameFate(x) ==
    \/ row'[x].status = row[x].status
    \/ /\ row[x].status \in {"pending", "processing"}
       /\ row'[x].status \in {"pending", "processing"}

LEMMA Invisible ==
  ASSUME UNCHANGED brokerVars, \A x \in Entries : SameFate(x)
  PROVE  UNCHANGED Delivery!vars
  <1>1. Fate' = Fate
    BY DEF Fate, SameFate
  <1>2. Accepted' = Accepted /\ errors' = errors
    BY DEF Accepted, brokerVars
  <1> QED
    BY <1>1, <1>2 DEF Delivery!vars

LEMMA InitPromise == Init => Delivery!Init
  <1> SUFFICES ASSUME Init PROVE Delivery!Init
    OBVIOUS
  <1>1. Fate = [e \in Entries |-> "absent"]
    BY DEF Init, StoreInit, Fate
  <1>2. Accepted = [e \in Entries |-> FALSE]
    <2>1. \A e \in Entries : (deliveries[e] > 0) = FALSE
      BY DEF Init
    <2> QED
      BY <2>1, Zenon DEF Accepted
  <1> QED
    BY <1>1, <1>2 DEF Init, Delivery!Init

LEMMA WriteCommits ==
  ASSUME IInv, NEW e \in Entries, Write(e) PROVE Delivery!Commit(e)
  <1>1. row \in [Entries -> Row] /\ row[e] \in Row
    BY DEF IInv, TypeOK
  <1>2. /\ row[e].status = "absent"
        /\ row'[e].status = "pending"
        /\ \A x \in Entries : x # e => row'[x] = row[x]
    BY <1>1 DEF Write, Insert, Row
  <1>3. Fate[e] = "absent" /\ Fate' = [Fate EXCEPT ![e] = "owed"]
    BY ZenonT(30), <1>2 DEF Fate
  <1> QED
    BY <1>3 DEF Write, Delivery!Commit, Accepted, brokerVars

LEMMA ReturnAttempts ==
  ASSUME IInv, NEW r \in Relays, NEW e \in Entries, PublishReturn(r, e)
  PROVE  Delivery!Attempt(e)
  <1>1. PICK accepted \in BOOLEAN, ok \in BOOLEAN :
          /\ deliveries' = [deliveries EXCEPT ![e] =
               IF accepted /\ @ < DeliveryCap THEN @ + 1 ELSE @]
          /\ errors' = [errors EXCEPT ![e] = IF ~ok /\ @ < MaxAttempts THEN @ + 1 ELSE @]
    BY ZenonT(30) DEF PublishReturn
  <1>2. row' = row /\ job[r][e] = "publishing"
    BY DEF PublishReturn, storeVars
  <1>3. Fate' = Fate /\ Fate[e] # "absent"
    BY <1>2 DEF IInv, JobFacts, Fate
  <1>4. deliveries \in [Entries -> 0 .. DeliveryCap] /\ errors \in [Entries -> 0 .. MaxAttempts]
    BY DEF IInv, TypeOK
  <1>5. \/ Accepted' = [Accepted EXCEPT ![e] = TRUE]
        \/ Accepted' = Accepted
    <2>1. CASE accepted /\ deliveries[e] < DeliveryCap
      <3>1. /\ deliveries'[e] > 0
            /\ \A x \in Entries : x # e => deliveries'[x] = deliveries[x]
        BY <1>1, <1>4, <2>1
      <3> QED
        BY ZenonT(30), <3>1 DEF Accepted
    <2>2. CASE ~(accepted /\ deliveries[e] < DeliveryCap)
      <3>1. deliveries' = deliveries
        BY <1>1, <1>4, <2>2
      <3> QED
        BY <3>1 DEF Accepted
    <2> QED
      BY <2>1, <2>2
  <1>6. \/ errors' = [errors EXCEPT ![e] = @ + 1] /\ errors[e] < MaxAttempts
        \/ errors' = errors
    BY ZenonT(30), <1>1, <1>4
  <1> QED
    BY <1>3, <1>5, <1>6 DEF Delivery!Attempt

LEMMA OutcomeSettles ==
  ASSUME IInv, NEW r \in Relays, NEW e \in Entries, Outcome(r, e)
  PROVE  Delivery!Settle(e) \/ UNCHANGED Delivery!vars
  <1>1. job[r][e] \in {"sent", "errored"} /\ UNCHANGED brokerVars
    BY DEF Outcome
  <1>2. \/ Owns(r, e) /\ row' = [row EXCEPT ![e] = OutcomeRow(r, e)]
        \/ row' = row
    BY DEF Outcome, Transition, TransitionError, storeVars
  <1>3. CASE row' = row
    BY <1>1, <1>3, Invisible DEF SameFate
  <1>4. CASE Owns(r, e) /\ row' = [row EXCEPT ![e] = OutcomeRow(r, e)]
    <2>1. /\ row[e].status = "processing"
          /\ row'[e] = OutcomeRow(r, e)
          /\ \A x \in Entries : x # e => row'[x] = row[x]
      BY ZenonT(30), <1>4 DEF IInv, TypeOK, Owns
    <2>2. \/ row'[e].status = "published" /\ deliveries[e] > 0
          \/ row'[e].status = "failed" /\ errors[e] = MaxAttempts
          \/ row'[e].status = "pending"
      BY ZenonT(30), <1>1, <1>4, <2>1, OutcomeFacts
    <2>3. Fate[e] = "owed" /\ Accepted[e] = (deliveries[e] > 0)
      BY <2>1 DEF Fate, Accepted
    <2>4. CASE row'[e].status = "pending"
      BY <1>1, <2>1, <2>4, Invisible DEF SameFate
    <2>5. CASE row'[e].status = "published" /\ deliveries[e] > 0
      <3>1. Fate' = [Fate EXCEPT ![e] = "published"]
        BY ZenonT(30), <2>1, <2>5 DEF Fate
      <3> QED
        BY ZenonT(30), <1>1, <2>3, <2>5, <3>1 DEF Delivery!Settle, Accepted, brokerVars
    <2>6. CASE row'[e].status = "failed" /\ errors[e] = MaxAttempts
      <3>1. Fate' = [Fate EXCEPT ![e] = "failed"]
        BY ZenonT(30), <2>1, <2>6 DEF Fate
      <3> QED
        BY ZenonT(30), <1>1, <2>3, <2>6, <3>1 DEF Delivery!Settle, Accepted, brokerVars
    <2> QED
      BY ZenonT(30), <2>2, <2>4, <2>5, <2>6
  <1> QED
    BY <1>2, <1>3, <1>4

LEMMA CleanupForgets ==
  ASSUME IInv, NEW r \in Relays, Cleanup(r)
  PROVE  \E D \in SUBSET Entries : Delivery!Forget(D)
  <1>1. PICK D \in SUBSET Entries : DeleteBefore(r, D)
    BY ZenonT(30) DEF Cleanup
  <1>2. UNCHANGED brokerVars
    BY DEF Cleanup
  <1>3. \A x \in D : row[x].status \in {"published", "failed"}
    BY <1>1 DEF DeleteBefore
  <1>4. \A x \in Entries : IF x \in D THEN row'[x].status = "deleted"
                           ELSE row'[x] = row[x]
    <2>1. \A x \in Entries : row[x] \in Row
      BY DEF IInv, TypeOK
    <2> QED
      BY <1>1, <2>1 DEF DeleteBefore, Row
  <1>5. /\ \A x \in D : Fate[x] \in {"published", "failed"}
        /\ Fate' = [x \in Entries |-> IF x \in D THEN "deleted" ELSE Fate[x]]
    BY <1>3, <1>4 DEF Fate
  <1>6. Delivery!Forget(D)
    BY <1>2, <1>5 DEF Delivery!Forget, Accepted, brokerVars
  <1> QED
    BY <1>6

\* The steps of the store and of a relay's own goroutine that the promise does not
\* see.
LEMMA StoreStepsInvisible ==
  ASSUME IInv, NEW r \in Relays,
         RecoverStale(r) \/ Fetch(r) \/ FetchError(r) \/ Beat(r)
  PROVE  UNCHANGED Delivery!vars
  <1>0. row \in [Entries -> Row] /\ \A x \in Entries : row[x] \in Row
    BY DEF IInv, TypeOK
  <1>1. CASE RecoverStale(r)
    <2>1. UNCHANGED row \/ ResetStaleProcessing(r)
      BY ZenonT(30), <1>1 DEF RecoverStale, storeVars
    <2>2. \A x \in Entries : SameFate(x)
      BY ZenonT(30), <1>0, <2>1 DEF ResetStaleProcessing, Row, SameFate
    <2> QED
      BY ZenonT(30), <1>1, <2>2, Invisible DEF RecoverStale
  <1>2. CASE Fetch(r) \/ FetchError(r)
    <2>1. ASSUME NEW B \in SUBSET Entries, NEW clean \in BOOLEAN, FetchPending(r, B, clean)
          PROVE  \A x \in Entries : SameFate(x)
      <3>1. PICK tok \in [B -> Tokens] : row' = Claimed(B, tok)
        BY <2>1 DEF FetchPending
      <3>2. \A x \in B : row[x].status = "pending"
        BY ZenonT(30), <2>1 DEF FetchPending, Oldest, Eligible
      <3> QED
        BY ZenonT(30), <1>0, <3>1, <3>2 DEF Claimed, Row, SameFate
    <2>2. UNCHANGED row => \A x \in Entries : SameFate(x)
      BY DEF SameFate
    <2>3. Fetch(r) => \E B \in SUBSET Entries : FetchPending(r, B, TRUE)
      BY ZenonT(30) DEF Fetch
    <2>4. FetchError(r) =>
            UNCHANGED row \/ \E B \in SUBSET Entries : FetchPending(r, B, FALSE)
      BY Zenon DEF FetchError, storeVars
    <2>5. UNCHANGED brokerVars
      BY <1>2, Zenon DEF Fetch, FetchError
    <2>6. \A x \in Entries : SameFate(x)
      BY ZenonT(30), <1>2, <2>1, <2>2, <2>3, <2>4
    <2> QED
      BY <2>5, <2>6, Invisible
  <1>3. CASE Beat(r)
    <2>1. UNCHANGED row \/ Heartbeat(r, Unfinished(r))
      BY ZenonT(30), <1>3 DEF Beat, storeVars
    <2>2. \A x \in Entries : SameFate(x)
      BY <1>0, <2>1 DEF Heartbeat, Row, SameFate
    <2> QED
      BY ZenonT(30), <1>3, <2>2, Invisible DEF Beat
  <1> QED
    BY <1>1, <1>2, <1>3

LEMMA TimeInvisible ==
  ASSUME IInv, Tick \/ \E e \in Entries : Backoff(e)
  PROVE  UNCHANGED Delivery!vars
  <1>0. row \in [Entries -> Row] /\ \A x \in Entries : row[x] \in Row
    BY DEF IInv, TypeOK
  <1>1. CASE Tick
    <2>1. \A x \in Entries : SameFate(x)
      BY <1>0, <1>1 DEF Tick, Aged, Row, SameFate
    <2> QED
      BY ZenonT(30), <1>1, <2>1, Invisible DEF Tick
  <1>2. CASE \E e \in Entries : Backoff(e)
    <2>1. \A x \in Entries : SameFate(x)
      BY SMTT(30), <1>0, <1>2 DEF Backoff, BackoffElapses, Row, SameFate
    <2> QED
      BY <1>2, <2>1, Invisible DEF Backoff
  <1> QED
    BY <1>1, <1>2

LEMMA ProcessStepsInvisible ==
  ASSUME NEW r \in Relays,
         \/ Start(r) \/ BeginPoll(r) \/ PollEnd(r) \/ Shutdown(r) \/ Stop(r) \/ Crash(r)
         \/ \E e \in Entries : PublishStart(r, e)
  PROVE  UNCHANGED Delivery!vars
  <1>1. UNCHANGED <<row, brokerVars>>
    BY ZenonT(30) DEF Start, BeginPoll, PollEnd, Shutdown, ResetPending, Stop, Crash, PublishStart,
           storeVars
  <1> QED
    BY ZenonT(30), <1>1, Invisible DEF SameFate

LEMMA NextPromise == IInv /\ [Next]_vars => [Delivery!Next]_(Delivery!vars)
  <1> SUFFICES ASSUME IInv, [Next]_vars PROVE Delivery!Next \/ UNCHANGED Delivery!vars
    OBVIOUS
  <1>1. CASE UNCHANGED vars
    BY ZenonT(30), <1>1, Invisible DEF vars, storeVars, SameFate
  <1>2. ASSUME NEW e \in Entries, Write(e) PROVE Delivery!Next
    BY <1>2, WriteCommits DEF Delivery!Next
  <1>3. ASSUME NEW r \in Relays, Cleanup(r) PROVE Delivery!Next
    BY <1>3, CleanupForgets DEF Delivery!Next
  <1>4. ASSUME NEW r \in Relays, NEW e \in Entries, PublishReturn(r, e)
        PROVE  Delivery!Next
    BY <1>4, ReturnAttempts DEF Delivery!Next
  <1>5. ASSUME NEW r \in Relays, NEW e \in Entries, Outcome(r, e)
        PROVE  Delivery!Next \/ UNCHANGED Delivery!vars
    BY <1>5, OutcomeSettles DEF Delivery!Next
  <1> QED
    BY ZenonT(30), <1>1, <1>2, <1>3, <1>4, <1>5, StoreStepsInvisible, ProcessStepsInvisible,
       TimeInvisible DEF Next, RelayStep

\* The relays implement at-least-once delivery, for any number of entries, relays,
\* attempts and faults.
THEOREM Refinement == Spec => KeepsPromise
  <1>1. Spec => Delivery!Init /\ [][Delivery!Next]_(Delivery!vars)
    BY InitPromise, NextPromise, Invariance, PTL DEF Spec
  <1> QED
    BY <1>1 DEF KeepsPromise, Delivery!Spec
================================================================================
