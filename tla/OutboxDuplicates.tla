---------------------------- MODULE OutboxDuplicates ----------------------------
(***************************************************************************)
(* Proofs about OutboxRelay with heartbeats on schedule: no two relays     *)
(* publish a row at once, and every duplicate the broker sees has an error *)
(* or a fault that explains it.  First the steps of OutboxTiming's         *)
(* invariant that start or end a publish, then the theorems.               *)
(***************************************************************************)
EXTENDS OutboxTiming

USE Bounds

\* What a step of one relay leaves alone for the entry x: every other relay's job, and
\* its own unless it is live on x or publishing x.
OthersKeep(r, x) ==
    \A q \in Relays \ {r} : job'[q][x] = job[q][x] /\ (Beating(q)' <=> Beating(q))

\* The account of x after a step of r that is not about x.
LEMMA OtherAccount ==
  ASSUME TInv, OnSchedule, NEW r \in Relays, NEW x \in Entries, OthersKeep(r, x),
         job'[r][x] = job[r][x], Beating(r)' <=> Beating(r),
         row'[x] = row[x], deliveries'[x] = deliveries[x],
         faults' \in Nat, faults <= faults'
  PROVE  Account(x)'
  <1>1. Account(x)
    BY DEF TInv, TimedInv
  <1>0. /\ faults \in Nat /\ deliveries[x] \in Nat
        /\ row[x].attempts \in Nat /\ row'[x].attempts = row[x].attempts
    BY Numbers DEF TInv
  <1>2. \A q \in Relays : job'[q][x] = job[q][x] /\ (Beating(q)' <=> Beating(q))
    BY DEF OthersKeep
  <1>3. /\ Working(x)' <=> Working(x)
        /\ Failing(x)' <=> Failing(x)
        /\ Publishing(x)' = Publishing(x)
    BY <1>2 DEF Working, Failing, Publishing
  <1>4. Unsettled(x)' => Unsettled(x)
    BY DEF Unsettled
  <1> QED
    BY <1>0, <1>1, <1>3, <1>4, SameAccount

\* What the account of x knows of r, before and after a step of r.
LEMMA AccountOf ==
  ASSUME TInv, OnSchedule, NEW r \in Relays, NEW x \in Entries, OthersKeep(r, x)
  PROVE  /\ Live(r, x) =>
              /\ Unsettled(x)
              /\ Working(x) <=> job[r][x] \in {"publishing", "sent"}
              /\ Failing(x) <=> job[r][x] = "errored"
              /\ Working(x)' <=> Beating(r)' /\ job'[r][x] \in {"publishing", "sent"}
              /\ Failing(x)' <=> Beating(r)' /\ job'[r][x] = "errored"
         /\ ~Live(r, x) /\ ~Live(r, x)' =>
              (Working(x)' <=> Working(x)) /\ (Failing(x)' <=> Failing(x))
         /\ ~Live(r, x) /\ Owns(r, x) => ~Working(x) /\ ~Failing(x)
         /\ LET c == Cardinality(Publishing(x))
                d == Cardinality(Publishing(x)')
            IN  /\ c \in Nat /\ d \in Nat
                /\ job[r][x] = "publishing" /\ job'[r][x] # "publishing" => d = c - 1
                /\ job[r][x] # "publishing" /\ job'[r][x] = "publishing" => d = c + 1
                /\ (job[r][x] = "publishing") = (job'[r][x] = "publishing") => d = c
  <1>1. ASSUME Live(r, x)
        PROVE  /\ Unsettled(x)
               /\ Working(x) <=> job[r][x] \in {"publishing", "sent"}
               /\ Failing(x) <=> job[r][x] = "errored"
               /\ Working(x)' <=> Beating(r)' /\ job'[r][x] \in {"publishing", "sent"}
               /\ Failing(x)' <=> Beating(r)' /\ job'[r][x] = "errored"
    <2>1. /\ row[x].status = "processing"
          /\ \A q \in Relays : Live(q, x) => q = r
          /\ Working(x) <=> job[r][x] \in {"publishing", "sent"}
          /\ Failing(x) <=> job[r][x] = "errored"
      BY <1>1, SoleWorker DEF TInv, TimedInv
    <2>2. \A q \in Relays \ {r} : ~Live(q, x)'
      BY <2>1 DEF OthersKeep, Live
    <2> QED
      BY <2>1, <2>2 DEF Unsettled, Working, Failing, Live
  <1>2. ASSUME ~Live(r, x), ~Live(r, x)'
        PROVE  (Working(x)' <=> Working(x)) /\ (Failing(x)' <=> Failing(x))
    BY <1>2 DEF Working, Failing, Live, OthersKeep
  <1>3. ASSUME ~Live(r, x), Owns(r, x) PROVE ~Working(x) /\ ~Failing(x)
    <2>1. \A q \in Relays : ~Live(q, x)
      BY <1>3 DEF TInv, TimedInv, BatchIsKept, IInv, TokensDistinct, Owns
    <2> QED
      BY <2>1 DEF Working, Failing, Live
  <1> DEFINE P == Publishing(x)
             Q == Publishing(x)'
  <1>4. IsFiniteSet(P) /\ Cardinality(P) \in Nat /\ IsFiniteSet(Q) /\ Cardinality(Q) \in Nat
    BY Counts
  <1>5. job[r][x] = "publishing" /\ job'[r][x] # "publishing" => r \in P /\ Q = P \ {r}
    BY DEF Publishing, OthersKeep
  <1>6. job[r][x] # "publishing" /\ job'[r][x] = "publishing" => r \notin P /\ Q = P \cup {r}
    BY DEF Publishing, OthersKeep
  <1>7. (job[r][x] = "publishing") = (job'[r][x] = "publishing") => Q = P
    BY DEF Publishing, OthersKeep
  <1> HIDE DEF P, Q
  <1>8. /\ job[r][x] = "publishing" /\ job'[r][x] # "publishing" =>
             Cardinality(Q) = Cardinality(P) - 1
        /\ job[r][x] # "publishing" /\ job'[r][x] = "publishing" =>
             Cardinality(Q) = Cardinality(P) + 1
        /\ (job[r][x] = "publishing") = (job'[r][x] = "publishing") =>
             Cardinality(Q) = Cardinality(P)
    BY <1>4, <1>5, <1>6, <1>7, FS_RemoveElement, FS_AddElement
  <1> QED
    BY <1>1, <1>2, <1>3, <1>4, <1>8 DEF P, Q

LEMMA TimedPublishStart ==
  ASSUME TInv, NEW r \in Relays, NEW e \in Entries, PublishStart(r, e) PROVE TInv'
  <1>1. IInv'
    BY StepPublishStart DEF TInv
  <1>2. /\ UNCHANGED <<row, remembered, phase, cancelled, sinceBeat, deliveries, faults>>
        /\ phase[r] = "publish" /\ ~cancelled[r] /\ job[r][e] = "queued"
        /\ job' = [job EXCEPT ![r][e] = "publishing"]
    BY DEF PublishStart, storeVars, brokerVars, InState
  <1>3. \A q \in Relays, x \in Entries :
          /\ job'[q][x] = IF q = r /\ x = e THEN "publishing" ELSE job[q][x]
          /\ job'[q][x] # "none" <=> job[q][x] # "none"
    BY <1>2 DEF TInv, IInv, TypeOK
  <1>4. /\ \A q \in Relays : Beating(q)' <=> Beating(q)
        /\ \A q \in Relays, x \in Entries : Live(q, x)' <=> Live(q, x)
        /\ \A q \in Relays, x \in Entries : Owns(q, x)' <=> Owns(q, x)
    BY <1>2, <1>3 DEF Live, Beating, Owns
  <1>5. JobsAreOfABatch' /\ NothingIsAbandoned' /\ (OnSchedule => BatchIsKept')
    BY <1>2, <1>3, <1>4
    DEF TInv, TimedInv, JobsAreOfABatch, NothingIsAbandoned, BatchIsKept
  <1>6. ASSUME OnSchedule, NEW x \in Entries PROVE Account(x)'
    <2>1. OthersKeep(r, x)
      BY <1>3, <1>4 DEF OthersKeep
    <2>2. /\ faults \in Nat /\ deliveries[x] \in Nat /\ row[x].attempts \in Nat
          /\ faults' = faults /\ deliveries'[x] = deliveries[x] /\ row'[x] = row[x]
      BY <1>2, Numbers DEF TInv
    <2>3. CASE x # e
      <3>1. job'[r][x] = job[r][x]
        BY <1>3, <2>3
      <3> QED
        BY <1>4, <1>6, <2>1, <2>2, <3>1, OtherAccount
    <2>4. CASE x = e
      <3>1. Live(r, x) /\ job'[r][x] = "publishing" /\ job[r][x] = "queued"
        BY <1>2, <1>3, <2>4 DEF Live, Beating
      <3>2. Beating(r)'
        BY <1>4, <3>1 DEF Live
      <3>3. /\ Unsettled(x) /\ ~Working(x) /\ ~Failing(x) /\ Working(x)' /\ ~Failing(x)'
            /\ Cardinality(Publishing(x)) \in Nat
            /\ Cardinality(Publishing(x)') = Cardinality(Publishing(x)) + 1
        BY ZenonT(30), <1>6, <2>1, <3>1, <3>2, AccountOf
      <3>4. Account(x)
        BY <1>6 DEF TInv, TimedInv
      <3>5. /\ One(Open(x)) = 1 /\ One(Failing(x)) = 0
            /\ One(Open(x))' = 0 /\ One(Failing(x))' = 0
        BY <3>3 DEF Open, One
      <3> QED
        BY <2>2, <3>3, <3>4, <3>5 DEF Account
    <2> QED
      BY <2>3, <2>4
  <1>7. faults' <= MaxFaults
    BY <1>2 DEF TInv
  <1> QED
    BY <1>1, <1>5, <1>6, <1>7 DEF TInv, TimedInv

LEMMA TimedPublishReturn ==
  ASSUME TInv, NEW r \in Relays, NEW e \in Entries, PublishReturn(r, e) PROVE TInv'
  <1>1. IInv'
    BY StepPublishReturn DEF TInv
  <1>2. /\ UNCHANGED <<row, remembered, phase, cancelled, sinceBeat, faults>>
        /\ job[r][e] = "publishing"
    BY DEF PublishReturn, storeVars
  <1>3. PICK accepted \in BOOLEAN, ok \in BOOLEAN :
          /\ job' = [job EXCEPT ![r][e] = IF ok THEN "sent" ELSE "errored"]
          /\ deliveries' = [deliveries EXCEPT ![e] =
               IF accepted /\ @ < DeliveryCap THEN @ + 1 ELSE @]
    BY ZenonT(30) DEF PublishReturn
  <1>4. \A q \in Relays, x \in Entries :
          /\ q # r \/ x # e => job'[q][x] = job[q][x]
          /\ job'[r][e] \in {"sent", "errored"}
    BY ZenonT(30), <1>3 DEF TInv, IInv, TypeOK
  <1>5. \A q \in Relays, x \in Entries : job'[q][x] # "none" <=> job[q][x] # "none"
    BY <1>2, <1>4
  <1>6. /\ \A q \in Relays : Beating(q)' <=> Beating(q)
        /\ \A q \in Relays, x \in Entries : Live(q, x)' <=> Live(q, x)
        /\ \A q \in Relays, x \in Entries : Owns(q, x)' <=> Owns(q, x)
    BY <1>2, <1>5 DEF Live, Beating, Owns
  <1>7. JobsAreOfABatch' /\ NothingIsAbandoned' /\ (OnSchedule => BatchIsKept')
    BY SMTT(30), <1>2, <1>5, <1>6
    DEF TInv, TimedInv, JobsAreOfABatch, NothingIsAbandoned, BatchIsKept
  <1>8. ASSUME OnSchedule, NEW x \in Entries PROVE Account(x)'
    <2>1. OthersKeep(r, x)
      BY ZenonT(30), <1>4, <1>6 DEF OthersKeep
    <2>2. /\ faults \in Nat /\ deliveries[x] \in Nat /\ row[x].attempts \in Nat
          /\ faults' = faults /\ row'[x] = row[x]
      BY <1>2, Numbers DEF TInv
    <2>3. CASE x # e
      <3>1. job'[r][x] = job[r][x] /\ deliveries'[x] = deliveries[x]
        BY ZenonT(30), <1>3, <1>4, <2>3 DEF TInv, IInv, TypeOK
      <3>2. /\ Beating(r)' <=> Beating(r)
            /\ row'[x] = row[x] /\ faults' \in Nat /\ faults <= faults'
        BY <1>6, <2>2
      <3> QED
        BY <1>8, <2>1, <3>1, <3>2, OtherAccount
    <2>4. CASE x = e
      <3>1. job[r][x] = "publishing" /\ job'[r][x] \in {"sent", "errored"}
        BY SMTT(10), ZenonT(30), <1>2, <1>4, <2>4
      <3>2. deliveries'[x] \in Nat /\ deliveries'[x] <= deliveries[x] + 1
        <4>1. deliveries'[x] \in {deliveries[x], deliveries[x] + 1}
          BY ZenonT(30), <1>3, <2>4 DEF TInv, IInv, TypeOK
        <4> QED
          BY <2>2, <4>1
      <3>3. /\ Cardinality(Publishing(x)) \in Nat
            /\ Cardinality(Publishing(x)') = Cardinality(Publishing(x)) - 1
        BY ZenonT(30), <1>8, <2>1, <3>1, AccountOf
      <3>4. Account(x) /\ (Unsettled(x)' <=> Unsettled(x))
        BY ZenonT(30), <1>8, <2>2 DEF TInv, TimedInv, Unsettled
      <3>5. CASE Live(r, x)
        <4>1. Beating(r)'
          BY ZenonT(30), <1>6, <3>5 DEF Live
        <4>2. /\ Unsettled(x) /\ Working(x) /\ ~Failing(x)
              /\ (Working(x)' /\ ~Failing(x)') \/ (~Working(x)' /\ Failing(x)')
          BY ZenonT(30), <1>8, <2>1, <3>1, <3>5, <4>1, AccountOf
        <4>3. One(Open(x)) = 0 /\ One(Failing(x)) = 0 /\ One(Open(x))' = One(Failing(x))'
          BY <3>4, <4>2 DEF Open, One
        <4>4. One(Failing(x))' \in Nat
          BY DEF One
        <4> QED
          BY SMTT(30), <2>2, <3>2, <3>3, <3>4, <4>3, <4>4 DEF Account
      <3>6. CASE ~Live(r, x)
        <4>1. (Working(x)' <=> Working(x)) /\ (Failing(x)' <=> Failing(x))
          BY ZenonT(30), <1>6, <1>8, <2>1, <3>6, AccountOf
        <4>2. /\ One(Open(x)) \in Nat /\ One(Failing(x)) \in Nat
              /\ One(Open(x))' = One(Open(x)) /\ One(Failing(x))' = One(Failing(x))
          BY <3>4, <4>1 DEF Open, One
        <4> QED
          BY SMTT(30), <2>2, <3>2, <3>3, <3>4, <4>2 DEF Account
      <3> QED
        BY <3>5, <3>6
    <2> QED
      BY <2>3, <2>4
  <1>9. faults' <= MaxFaults
    BY ZenonT(30), <1>2 DEF TInv
  <1> QED
    BY <1>1, <1>7, <1>8, <1>9 DEF TInv, TimedInv

\* A fault takes r out of its batch: it is stopped, or its process dies.
LEMMA Gone ==
  ASSUME TInv, IInv', JobsAreOfABatch', NEW r \in Relays,
         \A x \in Entries : OthersKeep(r, x) /\ job'[r][x] \in {job[r][x], "none"},
         ~Beating(r)', UNCHANGED <<row, deliveries>>,
         faults' = faults + 1, faults' <= MaxFaults,
         \A q \in Relays \ {r}, x \in Entries :
            remembered'[q][x] = remembered[q][x] /\ sinceBeat'[q] = sinceBeat[q]
  PROVE  TInv'
  <1>1. faults \in Nat
    BY ZenonT(30) DEF TInv, IInv, TypeOK
  <1>2. NothingIsAbandoned'
    <2>1. faults' # 0
      BY SMTT(30), <1>1
    <2> QED
      BY ZenonT(30), <2>1 DEF NothingIsAbandoned
  <1>3. ASSUME OnSchedule PROVE BatchIsKept'
    <2> SUFFICES ASSUME NEW q \in Relays, NEW x \in Entries, Live(q, x)'
                 PROVE  /\ Owns(q, x)'
                        /\ sinceBeat'[q] <= HeartbeatTicks
                        /\ row'[x].age <= sinceBeat'[q] + HeartbeatTicks * faults'
      BY ZenonT(30) DEF BatchIsKept
    <2>1. q # r /\ Live(q, x)
      BY ZenonT(30) DEF Live, OthersKeep
    <2>2. /\ Owns(q, x) /\ sinceBeat[q] <= HeartbeatTicks
          /\ row[x].age <= sinceBeat[q] + HeartbeatTicks * faults
      BY ZenonT(30), <1>3, <2>1 DEF TInv, TimedInv, BatchIsKept
    <2>3. remembered'[q][x] = remembered[q][x] /\ sinceBeat'[q] = sinceBeat[q]
      BY ZenonT(30), <2>1
    <2>4. /\ HeartbeatTicks * faults \in Nat /\ HeartbeatTicks * faults' \in Nat
          /\ HeartbeatTicks * faults <= HeartbeatTicks * faults'
      <3>1. faults' \in Nat /\ faults <= faults'
        BY <1>1
      <3> QED
        BY ZenonT(30), <1>1, <3>1, Monotone
    <2>5. row[x].age \in Nat /\ sinceBeat[q] \in Nat
      BY ZenonT(30) DEF TInv, IInv, TypeOK, Row
    <2>6. row[x].age <= sinceBeat[q] + HeartbeatTicks * faults'
      BY <2>2, <2>4, <2>5
    <2> QED
      BY ZenonT(30), <2>2, <2>3, <2>6 DEF Owns
  <1>4. ASSUME OnSchedule, NEW x \in Entries PROVE Account(x)'
    <2>1. OthersKeep(r, x) /\ job'[r][x] \in {job[r][x], "none"} /\ ~Live(r, x)'
      BY ZenonT(30) DEF Live
    <2>2. /\ deliveries[x] \in Nat /\ row[x].attempts \in Nat
          /\ deliveries'[x] = deliveries[x] /\ row'[x] = row[x]
      BY ZenonT(30), Numbers DEF TInv
    <2>3. /\ Cardinality(Publishing(x)) \in Nat /\ Cardinality(Publishing(x)') \in Nat
          /\ Cardinality(Publishing(x)') <= Cardinality(Publishing(x))
      <3>1. Cardinality(Publishing(x)) \in Nat /\ Cardinality(Publishing(x)') \in Nat
        BY ZenonT(30), Counts
      <3>2. \/ Cardinality(Publishing(x)') = Cardinality(Publishing(x))
            \/ Cardinality(Publishing(x)') = Cardinality(Publishing(x)) - 1
        BY ZenonT(30), <1>4, <2>1, AccountOf
      <3> QED
        BY <3>1, <3>2
    <2>4. Account(x) /\ (Unsettled(x)' <=> Unsettled(x))
      BY ZenonT(30), <1>4, <2>2 DEF TInv, TimedInv, Unsettled
    <2>5. CASE Live(r, x)
      <3>1. /\ Unsettled(x) /\ ~(Working(x) /\ Failing(x)) /\ ~Working(x)' /\ ~Failing(x)'
        BY ZenonT(30), <1>4, <2>1, <2>5, AccountOf
      <3>2. /\ One(Open(x)) \in Nat /\ One(Failing(x)) \in Nat
            /\ One(Failing(x)) <= One(Open(x)) /\ One(Open(x))' = 1 /\ One(Failing(x))' = 0
        <4>1. (Failing(x) => Open(x)) /\ Open(x)' /\ ~Failing(x)'
          BY ZenonT(30), <2>4, <3>1 DEF Open
        <4> QED
          BY <4>1 DEF One
      <3> QED
        BY SMTT(30), <1>1, <2>2, <2>3, <2>4, <3>2 DEF Account
    <2>6. CASE ~Live(r, x)
      <3>1. (Working(x)' <=> Working(x)) /\ (Failing(x)' <=> Failing(x))
        BY ZenonT(30), <1>4, <2>1, <2>6, AccountOf
      <3>2. /\ One(Open(x)) \in Nat /\ One(Failing(x)) \in Nat
            /\ One(Open(x))' = One(Open(x)) /\ One(Failing(x))' = One(Failing(x))
        BY ZenonT(30), <2>4, <3>1 DEF Open, One
      <3> QED
        BY SMTT(30), <1>1, <2>2, <2>3, <2>4, <3>2 DEF Account
    <2> QED
      BY ZenonT(30), <2>5, <2>6
  <1> QED
    BY ZenonT(30), <1>2, <1>3, <1>4 DEF TInv, TimedInv

LEMMA TimedStop == ASSUME TInv, NEW r \in Relays, Stop(r) PROVE TInv'
  <1>1. IInv'
    BY StepStop DEF TInv
  <1>2. /\ UNCHANGED <<row, remembered, phase, job, sinceBeat, deliveries>>
        /\ cancelled' = [cancelled EXCEPT ![r] = TRUE]
        /\ faults < MaxFaults /\ faults' = faults + 1
    BY DEF Stop, Fault, storeVars, brokerVars
  <1>3. /\ ~Beating(r)'
        /\ \A q \in Relays \ {r} : Beating(q)' <=> Beating(q)
    BY ZenonT(30), <1>2 DEF Beating, TInv, IInv, TypeOK
  <1>4. JobsAreOfABatch'
    BY <1>2 DEF TInv, JobsAreOfABatch
  <1>5. \A x \in Entries : OthersKeep(r, x) /\ job'[r][x] \in {job[r][x], "none"}
    BY ZenonT(30), <1>2, <1>3 DEF OthersKeep
  <1>6. faults' <= MaxFaults
    <2>1. faults \in Nat
      BY ZenonT(30), Steady
    <2> QED
      BY <1>2, <2>1
  <1> QED
    BY ZenonT(30), <1>1, <1>2, <1>3, <1>4, <1>5, <1>6, Gone

LEMMA TimedCrash == ASSUME TInv, NEW r \in Relays, Crash(r) PROVE TInv'
  <1>1. IInv'
    BY StepCrash DEF TInv
  <1>2. /\ UNCHANGED <<row, deliveries>> /\ ProcessEnds(r)
        /\ faults < MaxFaults /\ faults' = faults + 1
    BY DEF Crash, Fault, brokerVars
  <1>3. \A q \in Relays, x \in Entries :
          /\ phase'[q] = IF q = r THEN "down" ELSE phase[q]
          /\ q # r => cancelled'[q] = cancelled[q]
          /\ job'[q][x] = IF q = r THEN "none" ELSE job[q][x]
          /\ q # r => remembered'[q][x] = remembered[q][x] /\ sinceBeat'[q] = sinceBeat[q]
    BY ZenonT(30), <1>2 DEF ProcessEnds, NoJobs, TInv, IInv, TypeOK
  <1>4. /\ \A q \in Relays : phase'[q] = IF q = r THEN "down" ELSE phase[q]
        /\ \A q \in Relays \ {r} : cancelled'[q] = cancelled[q]
    BY ZenonT(30), <1>2 DEF ProcessEnds, TInv, IInv, TypeOK
  <1>5. ~Beating(r)' /\ \A q \in Relays \ {r} : Beating(q)' <=> Beating(q)
    BY ZenonT(30), <1>4 DEF Beating
  <1>6. JobsAreOfABatch'
    <2> SUFFICES ASSUME NEW q \in Relays, NEW x \in Entries, phase'[q] # "publish"
                 PROVE  job'[q][x] = "none"
      BY DEF JobsAreOfABatch
    <2>1. CASE q # r
      <3>1. phase[q] # "publish" /\ job'[q][x] = job[q][x]
        BY ZenonT(30), <1>3, <1>4, <2>1
      <3> QED
        BY <3>1 DEF TInv, JobsAreOfABatch
    <2> QED
      BY <1>3, <2>1
  <1>7. \A x \in Entries : OthersKeep(r, x) /\ job'[r][x] \in {job[r][x], "none"}
    BY SMTT(10), ZenonT(30), <1>3, <1>5 DEF OthersKeep
  <1>8. faults' <= MaxFaults
    <2>1. faults \in Nat
      BY ZenonT(30), Steady
    <2> QED
      BY <1>2, <2>1
  <1> QED
    BY ZenonT(30), <1>1, <1>2, <1>3, <1>5, <1>6, <1>7, <1>8, Gone

\* The fields of a row that an outcome rewrites.
LEMMA Settled ==
  ASSUME NEW w \in Row, NEW s \in {"published", "failed"}, NEW v,
         v = [w EXCEPT !.status = s, !.age = 0]
  PROVE  v.status = s /\ v.attempts = w.attempts
  BY DEF Row

LEMMA Incremented ==
  ASSUME NEW w \in Row, NEW v,
         v = [w EXCEPT !.status = "pending", !.attempts = w.attempts + 1, !.age = 0,
                       !.due = FALSE, !.token = NoToken]
  PROVE  v.status = "pending" /\ v.attempts = w.attempts + 1
  BY DEF Row

\* What an outcome does to the row of its entry.
LEMMA OutcomeUpdate ==
  ASSUME IInv, NEW r \in Relays, NEW e \in Entries, Owns(r, e),
         job[r][e] \in {"sent", "errored"}, row' = [row EXCEPT ![e] = OutcomeRow(r, e)]
  PROVE  /\ job[r][e] = "sent" =>
              row'[e].status = "published" /\ row'[e].attempts = row[e].attempts
         /\ job[r][e] = "errored" =>
              \/ row'[e].status = "failed" /\ row'[e].attempts = row[e].attempts
              \/ row'[e].status = "pending" /\ row'[e].attempts = row[e].attempts + 1
         /\ \A x \in Entries \ {e} : row'[x] = row[x]
  <1>1. row[e] \in Row /\ row'[e] = OutcomeRow(r, e) /\ \A x \in Entries \ {e} : row'[x] = row[x]
    BY ZenonT(30) DEF IInv, TypeOK
  <1>2. CASE job[r][e] = "sent"
    <2>1. row'[e] = MarkPublished(e)
      BY ZenonT(30), <1>1, <1>2 DEF OutcomeRow
    <2>2. row'[e].status = "published" /\ row'[e].attempts = row[e].attempts
      BY ZenonT(30), <1>1, <2>1, Settled DEF MarkPublished
    <2> QED
      BY ZenonT(30), <1>1, <1>2, <2>2
  <1>3. CASE job[r][e] = "errored" /\ seen[r][e] + 1 >= MaxAttempts
    <2>1. row'[e] = MarkFailed(e)
      BY ZenonT(30), <1>1, <1>3 DEF OutcomeRow
    <2>2. row'[e].status = "failed" /\ row'[e].attempts = row[e].attempts
      BY ZenonT(30), <1>1, <2>1, Settled DEF MarkFailed
    <2> QED
      BY ZenonT(30), <1>1, <1>3, <2>2
  <1>4. CASE job[r][e] = "errored" /\ ~(seen[r][e] + 1 >= MaxAttempts)
    <2>1. row'[e] = IncrementAttempts(e)
      BY ZenonT(30), <1>1, <1>4 DEF OutcomeRow
    <2>2. row'[e].status = "pending" /\ row'[e].attempts = row[e].attempts + 1
      BY ZenonT(30), <1>1, <2>1, Incremented DEF IncrementAttempts
    <2> QED
      BY ZenonT(30), <1>1, <1>4, <2>2
  <1> QED
    BY ZenonT(30), <1>1, <1>2, <1>3, <1>4

LEMMA TimedOutcome ==
  ASSUME TInv, NEW r \in Relays, NEW e \in Entries, Outcome(r, e) PROVE TInv'
  <1>1. IInv'
    BY StepOutcome DEF TInv
  <1>2. /\ job[r][e] \in {"sent", "errored"}
        /\ job' = [job EXCEPT ![r][e] = "none"]
        /\ UNCHANGED <<phase, cancelled, sinceBeat, deliveries>>
    BY ZenonT(30) DEF Outcome, brokerVars
  <1>3. \/ /\ ~cancelled[r] /\ faults' = faults
           /\ remembered' = [remembered EXCEPT ![r][e] = NoToken]
           /\ row' = IF Owns(r, e) THEN [row EXCEPT ![e] = OutcomeRow(r, e)] ELSE row
        \/ cancelled[r] /\ UNCHANGED <<row, remembered, faults>>
        \/ /\ faults < MaxFaults /\ faults' = faults + 1 /\ remembered' = remembered
           /\ \/ Owns(r, e) /\ row' = [row EXCEPT ![e] = OutcomeRow(r, e)]
              \/ row' = row
    BY ZenonT(30) DEF Outcome, Transition, TransitionError, Forget, Fault, storeVars
  <1>4. /\ faults \in Nat /\ faults' \in Nat /\ faults <= faults' /\ faults' <= MaxFaults
        /\ faults' # faults => faults' = faults + 1
    <2>1. faults' = faults \/ (faults < MaxFaults /\ faults' = faults + 1)
      BY ZenonT(30), <1>3
    <2>2. faults \in Nat /\ faults <= MaxFaults
      BY ZenonT(30), Steady
    <2> QED
      BY <2>1, <2>2
  <1>5. \A q \in Relays, x \in Entries :
          /\ job'[q][x] = IF q = r /\ x = e THEN "none" ELSE job[q][x]
          /\ q # r \/ x # e => remembered'[q][x] = remembered[q][x]
    BY SMTT(30), <1>2, <1>3 DEF TInv, IInv, TypeOK
  <1>6. /\ \/ Owns(r, e) /\ row' = [row EXCEPT ![e] = OutcomeRow(r, e)]
           \/ row' = row
        /\ \A x \in Entries \ {e} : row'[x] = row[x]
    BY ZenonT(30), <1>3 DEF TInv, IInv, TypeOK
  <1>7. /\ row'[e] = row[e] \/ (Owns(r, e) /\ row'[e].status # "processing")
        /\ row[e].attempts <= row'[e].attempts /\ row'[e].attempts \in Nat
    BY <1>2, <1>6, OutcomeUpdate, Numbers DEF TInv
  <1>8. \A q \in Relays : Beating(q)' <=> Beating(q)
    BY <1>2 DEF Beating
  <1>9. JobsAreOfABatch'
    <2> SUFFICES ASSUME NEW q \in Relays, NEW x \in Entries, phase'[q] # "publish"
                 PROVE  job'[q][x] = "none"
      BY ZenonT(30) DEF JobsAreOfABatch
    <2>1. job[q][x] = "none"
      BY ZenonT(30), <1>2 DEF TInv, JobsAreOfABatch
    <2> QED
      BY ZenonT(30), <1>5, <2>1
  <1>10. NothingIsAbandoned'
    <2> SUFFICES ASSUME faults' = 0, NEW x \in Entries, row'[x].status = "processing"
                 PROVE  \E q \in Relays : Owns(q, x)' /\ job'[q][x] # "none"
      BY SMTT(30), <1>2, <1>4 DEF TInv, NothingIsAbandoned
    <2>1. faults = 0 /\ faults' = faults /\ ~cancelled[r]
      BY <1>4 DEF TInv, NothingIsAbandoned
    <2>2. row'[x] = row[x]
      BY ZenonT(30), <1>6, <1>7
    <2>3. PICK q \in Relays : Owns(q, x) /\ job[q][x] # "none"
      BY ZenonT(30), <2>1, <2>2 DEF TInv, NothingIsAbandoned
    <2>4. ~(q = r /\ x = e)
      <3> SUFFICES ASSUME q = r, x = e PROVE FALSE
        BY ZenonT(30)
      <3>1. row' = [row EXCEPT ![e] = OutcomeRow(r, e)]
        BY SMTT(30), <1>3, <2>1, <2>3
      <3> QED
        BY ZenonT(30), <1>2, <2>3, <3>1, OutcomeUpdate DEF TInv
    <2> QED
      BY ZenonT(30), <1>5, <2>2, <2>3, <2>4 DEF Owns
  <1>11. ASSUME OnSchedule PROVE BatchIsKept'
    <2> SUFFICES ASSUME NEW q \in Relays, NEW x \in Entries, Live(q, x)'
                 PROVE  /\ Owns(q, x)'
                        /\ sinceBeat'[q] <= HeartbeatTicks
                        /\ row'[x].age <= sinceBeat'[q] + HeartbeatTicks * faults'
      BY ZenonT(30) DEF BatchIsKept
    <2>1. ~(q = r /\ x = e) /\ Live(q, x)
      BY ZenonT(30), <1>5, <1>8 DEF Live
    <2>2. /\ Owns(q, x) /\ sinceBeat[q] <= HeartbeatTicks
          /\ row[x].age <= sinceBeat[q] + HeartbeatTicks * faults
      BY ZenonT(30), <1>11, <2>1 DEF TInv, TimedInv, BatchIsKept
    <2>3. row'[x] = row[x]
      <3>1. x = e => ~Owns(r, e)
        BY ZenonT(30), <2>1, <2>2 DEF TInv, IInv, TokensDistinct, Owns
      <3> QED
        BY ZenonT(30), <1>6, <1>7, <3>1
    <2>4. /\ HeartbeatTicks * faults \in Nat /\ HeartbeatTicks * faults' \in Nat
          /\ HeartbeatTicks * faults <= HeartbeatTicks * faults'
      BY ZenonT(30), <1>4, Monotone
    <2>5. row[x].age \in Nat /\ sinceBeat[q] \in Nat
      BY ZenonT(30) DEF TInv, IInv, TypeOK, Row
    <2>6. remembered'[q][x] = remembered[q][x] /\ sinceBeat'[q] = sinceBeat[q]
      BY ZenonT(30), <1>2, <1>5, <2>1
    <2> QED
      BY <2>2, <2>3, <2>4, <2>5, <2>6 DEF Owns
  <1>12. ASSUME OnSchedule, NEW x \in Entries PROVE Account(x)'
    <2>1. OthersKeep(r, x)
      BY ZenonT(30), <1>5, <1>8 DEF OthersKeep
    <2>2. /\ deliveries[x] \in Nat /\ row[x].attempts \in Nat
          /\ deliveries'[x] = deliveries[x]
      BY ZenonT(30), <1>2, Numbers DEF TInv
    <2>3. CASE x # e
      <3>1. job'[r][x] = job[r][x] /\ row'[x] = row[x]
        BY ZenonT(30), <1>5, <1>6, <2>3
      <3> QED
        BY ZenonT(30), <1>4, <1>8, <1>12, <2>1, <2>2, <3>1, OtherAccount
    <2>4. CASE x = e
      <3>1. job[r][x] \in {"sent", "errored"} /\ job'[r][x] = "none"
        BY ZenonT(30), <1>2, <1>5, <2>4
      <3>2. /\ Cardinality(Publishing(x)) \in Nat
            /\ Cardinality(Publishing(x)') = Cardinality(Publishing(x))
        BY ZenonT(30), <1>12, <2>1, <3>1, AccountOf
      <3>3. Account(x)
        BY <1>12 DEF TInv, TimedInv
      <3>4. CASE Live(r, x)
        <4>1. Owns(r, x)
          BY ZenonT(30), <1>12, <3>4 DEF TInv, TimedInv, BatchIsKept
        <4>2. /\ Unsettled(x)
              /\ Working(x) <=> job[r][x] = "sent"
              /\ Failing(x) <=> job[r][x] = "errored"
              /\ ~Working(x)' /\ ~Failing(x)'
          BY ZenonT(30), <1>12, <2>1, <3>1, <3>4, AccountOf
        <4>3. CASE faults' = faults + 1
          <5>1. /\ One(Open(x)) \in {0, 1} /\ One(Failing(x)) \in {0, 1}
                /\ One(Failing(x)) = 1 => One(Open(x)) = 1
                /\ One(Open(x))' \in {0, 1} /\ One(Failing(x))' = 0
            <6>1. Failing(x) => Open(x)
              BY ZenonT(30), <3>1, <4>2 DEF Open
            <6> QED
              BY ZenonT(30), <4>2, <6>1 DEF One
          <5>2. row[x].attempts <= row'[x].attempts /\ row'[x].attempts \in Nat
            BY ZenonT(30), <1>7, <2>4
          <5> QED
            BY <1>4, <2>2, <3>2, <3>3, <4>3, <5>1, <5>2 DEF Account
        <4>4. CASE faults' = faults
          <5>1. row' = [row EXCEPT ![x] = OutcomeRow(r, x)]
            BY SMTT(30), <1>3, <1>4, <2>4, <3>4, <4>1, <4>4 DEF Live, Beating
          <5>2. /\ job[r][x] = "sent" => ~Unsettled(x)' /\ row'[x].attempts = row[x].attempts
                /\ job[r][x] = "errored" =>
                     \/ ~Unsettled(x)' /\ row'[x].attempts = row[x].attempts
                     \/ row'[x].attempts = row[x].attempts + 1
            BY ZenonT(30), <1>2, <2>4, <4>1, <5>1, OutcomeUpdate DEF TInv, Unsettled
          <5>3. CASE job[r][x] = "sent"
            <6>1. One(Open(x)) = 0 /\ One(Failing(x)) = 0 /\ One(Open(x))' = 0 /\ One(Failing(x))' = 0
              BY ZenonT(30), <4>2, <5>2, <5>3 DEF Open, One
            <6> QED
              BY ZenonT(30), <1>4, <2>2, <3>2, <3>3, <4>4, <5>2, <5>3, <6>1 DEF Account
          <5>4. CASE job[r][x] = "errored"
            <6>1. /\ One(Open(x)) = 1 /\ One(Failing(x)) = 1 /\ One(Failing(x))' = 0
                  /\ One(Open(x))' \in {0, 1} /\ (~Unsettled(x)' => One(Open(x))' = 0)
              BY ZenonT(30), <4>2, <5>4 DEF Open, One
            <6> QED
              BY SMTT(30), <1>4, <2>2, <3>2, <3>3, <4>4, <5>2, <5>4, <6>1 DEF Account
          <5> QED
            BY ZenonT(30), <3>1, <5>3, <5>4
        <4> QED
          BY SMTT(10), ZenonT(30), <1>4, <4>3, <4>4
      <3>5. CASE ~Live(r, x)
        <4>1. (Working(x)' <=> Working(x)) /\ (Failing(x)' <=> Failing(x))
          BY ZenonT(30), <1>12, <2>1, <3>1, <3>5, AccountOf DEF Live
        <4>2. Unsettled(x)' => Unsettled(x)
          BY ZenonT(30), <1>7, <2>4 DEF Unsettled, Owns
        <4>3. /\ One(Open(x)) \in Nat /\ One(Failing(x)) \in Nat /\ One(Open(x))' \in Nat
              /\ One(Open(x))' <= One(Open(x)) /\ One(Failing(x))' = One(Failing(x))
          BY SMTT(30), <4>1, <4>2 DEF Open, One
        <4>4. row[x].attempts <= row'[x].attempts /\ row'[x].attempts \in Nat
          BY ZenonT(30), <1>7, <2>4
        <4> QED
          BY <1>4, <2>2, <3>2, <3>3, <4>3, <4>4 DEF Account
      <3> QED
        BY <3>4, <3>5
    <2> QED
      BY <2>3, <2>4
  <1> QED
    BY ZenonT(30), <1>1, <1>4, <1>9, <1>10, <1>11, <1>12 DEF TInv, TimedInv

LEMMA TimedRelay == ASSUME TInv, NEW r \in Relays, RelayStep(r) PROVE TInv'
  BY ZenonT(30), TimedStart, TimedBeginPoll, TimedRecoverStale, TimedFetch, TimedFetchError,
     TimedPublishStart, TimedPublishReturn, TimedOutcome, TimedBeat, TimedPollEnd,
     TimedShutdown DEF RelayStep

LEMMA InitTInv == Init => TInv
  <1> SUFFICES ASSUME Init PROVE TInv
    OBVIOUS
  <1>1. IInv
    BY InitIInv
  <1>2. /\ \A r \in Relays : phase[r] = "down" /\ ~cancelled[r]
        /\ \A r \in Relays, e \in Entries : job[r][e] = "none"
        /\ \A e \in Entries : row[e].status = "absent" /\ row[e].attempts = 0
        /\ \A e \in Entries : deliveries[e] = 0
        /\ faults = 0
    BY ZenonT(30) DEF Init, StoreInit, NoJobs
  <1>3. JobsAreOfABatch /\ NothingIsAbandoned /\ faults <= MaxFaults /\ BatchIsKept
    <2>1. JobsAreOfABatch /\ BatchIsKept
      BY ZenonT(30), <1>2 DEF JobsAreOfABatch, BatchIsKept, Live
    <2>2. NothingIsAbandoned
      BY ZenonT(30), <1>2 DEF NothingIsAbandoned
    <2> QED
      BY SMTT(30), <1>2, <2>1, <2>2
  <1>4. ASSUME NEW e \in Entries PROVE Account(e)
    <2>1. Publishing(e) = {} /\ ~Failing(e)
      BY ZenonT(30), <1>2 DEF Publishing, Failing
    <2>2. Cardinality(Publishing(e)) = 0
      BY <2>1, FS_EmptySet
    <2> QED
      BY <1>2, <2>1, <2>2 DEF Account, One
  <1> QED
    BY <1>1, <1>3, <1>4 DEF TInv, TimedInv

LEMMA NextTInv == TInv /\ [Next]_vars => TInv'
  <1> SUFFICES ASSUME TInv, [Next]_vars PROVE TInv'
    OBVIOUS
  <1>1. CASE UNCHANGED vars
    <2>1. IInv'
      BY <1>1, NextIInv DEF TInv
    <2> QED
      BY ZenonT(30), <1>1, <2>1, Steady, TimedOutside
      DEF vars, storeVars, procVars, brokerVars, Unsettled
  <1>2. CASE Next
    BY ZenonT(30), <1>2, TimedWrite, TimedBackoff, TimedRelay, TimedCleanup, TimedStop, TimedCrash,
       TimedTick DEF Next
  <1> QED
    BY <1>1, <1>2

LEMMA TimedInvariance == Spec => []TInv
  BY InitTInv, NextTInv, PTL DEF Spec

\* While nothing has failed, a row in processing belongs to a relay that is still
\* working on it, whatever the timing: poll, publishEntry and the stale sweep lose no
\* claim by themselves.
THEOREM NoClaimIsLost == Spec => []ProcessingIsOwned
  <1>1. TInv => ProcessingIsOwned
    <2> SUFFICES ASSUME TInv, NEW e \in Entries, NEW r \in Relays, job[r][e] # "none"
                 PROVE  e \in Unfinished(r)
      BY ZenonT(30) DEF TInv, NothingIsAbandoned, ProcessingIsOwned
    <2> QED
      BY SMTT(30) DEF Unfinished, InFlight, InState, TInv, IInv, TypeOK, Jobs
  <1> QED
    BY <1>1, TimedInvariance, PTL

\* With heartbeats on schedule, and the stale window long enough for the heartbeats
\* that fail (staleDuration / 3 is enough for two), no two live relays ever publish the
\* same row at once, however long a publish takes.
THEOREM PublishesAreExclusive ==
  ASSUME OnSchedule
  PROVE  Spec => []PublishIsOwned
  <1>1. TInv => ExclusivePublish
    <2> SUFFICES ASSUME TInv, NEW e \in Entries, NEW r \in Relays, NEW q \in Relays, r # q,
                        ~cancelled[r], ~cancelled[q],
                        job[r][e] = "publishing", job[q][e] = "publishing"
                 PROVE  FALSE
      BY ZenonT(30) DEF ExclusivePublish
    <2>1. Live(r, e) /\ Live(q, e)
      BY ZenonT(30) DEF TInv, JobsAreOfABatch, Live, Beating
    <2> QED
      BY ZenonT(30), <2>1, SoleWorker DEF TInv, TimedInv
  <1> QED
    BY <1>1, TimedInvariance, NoClaimIsLost, PTL DEF PublishIsOwned

\* Under the same assumption every delivery of a row after its first is explained by an
\* error that a publish of it returned, or by a fault, one for each.
THEOREM DuplicatesHaveCauses ==
  ASSUME OnSchedule
  PROVE  Spec => []DuplicatesAreExplained
  <1>1. TInv => DuplicatesAreExplained
    <2> SUFFICES ASSUME TInv, NEW e \in Entries
                 PROVE  deliveries[e] <= 1 + errors[e] + faults
      BY ZenonT(30) DEF DuplicatesAreExplained
    <2>1. /\ Cardinality(Publishing(e)) \in Nat /\ Account(e)
          /\ deliveries[e] \in Nat /\ row[e].attempts \in Nat /\ faults \in Nat
      BY ZenonT(30), Counts, Numbers DEF TInv, TimedInv
    <2>2. errors[e] \in Nat /\ row[e].attempts + One(Failing(e)) <= errors[e]
      <3>1. errors[e] \in 0 .. MaxAttempts
        BY ZenonT(30) DEF TInv, IInv, TypeOK
      <3>2. row[e].attempts <= errors[e]
        BY ZenonT(30) DEF TInv, IInv, AttemptsCounted
      <3>3. ASSUME Failing(e) PROVE row[e].attempts < errors[e]
        <4>1. PICK r \in Relays : Beating(r) /\ job[r][e] = "errored"
          BY ZenonT(30), <3>3 DEF Failing
        <4>2. Owns(r, e)
          BY ZenonT(30), <4>1, SoleWorker DEF Live, TInv, TimedInv
        <4> QED
          BY ZenonT(30), <4>1, <4>2 DEF TInv, IInv, OwnerKnows
      <3>4. One(Failing(e)) = 0 \/ (One(Failing(e)) = 1 /\ Failing(e))
        BY ZenonT(30) DEF One
      <3> QED
        BY <2>1, <3>1, <3>2, <3>3, <3>4
    <2>3. One(Failing(e)) \in {0, 1} /\ One(Open(e)) \in {0, 1}
      BY ZenonT(30) DEF One
    <2> QED
      BY <2>1, <2>2, <2>3 DEF Account
  <1> QED
    BY <1>1, TimedInvariance, PTL
================================================================================
