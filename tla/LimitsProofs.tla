----------------------------- MODULE LimitsProofs -----------------------------
(*****************************************************************************)
(* The limits hold for every cap, rate, burst and window, and for every set  *)
(* of callers: data/budget, data/ratelimit and httpx/middleware/ratelimit.   *)
(*****************************************************************************)
EXTENDS Limits, TLAPS

\* A sequence that is appended to: every element keeps its place.
LEMMA Appended ==
    ASSUME NEW S, NEW s \in Seq(S), NEW e \in S
    PROVE  /\ Append(s, e) \in Seq(S) /\ Len(Append(s, e)) = Len(s) + 1 /\ Len(s) \in Nat
           /\ \A i \in 1 .. Len(s) : Append(s, e)[i] = s[i]
           /\ Append(s, e)[Len(s) + 1] = e
OBVIOUS

\* A sequence one element of which is replaced.
LEMMA Replaced ==
    ASSUME NEW S, NEW s \in Seq(S), NEW k \in 1 .. Len(s), NEW e \in S
    PROVE  /\ [s EXCEPT ![k] = e] \in Seq(S) /\ Len([s EXCEPT ![k] = e]) = Len(s) /\ Len(s) \in Nat
           /\ [s EXCEPT ![k] = e][k] = e
           /\ \A i \in 1 .. Len(s) : i # k => [s EXCEPT ![k] = e][i] = s[i]
OBVIOUS

\* An element of a sequence over S is in S.
LEMMA ElementOf == ASSUME NEW S, NEW q \in Seq(S), NEW i \in 1 .. Len(q) PROVE q[i] \in S
  OBVIOUS

-------------------------------------------------------------------------------
(*****************************************************************************)
(* data/budget: what was admitted in a period is on record.                  *)
(*****************************************************************************)

\* What a bucket of the memory budget holds, and a call of Consume under way.
Bucket == [period : Periods, used : 0 .. Cap]
Call == [step : {"idle", "load", "lock", "charged"}, period : Periods,
         amount : 0 .. Cap + 1, bucket : 0 .. MaxBuckets]

\* The types, with the mapped bucket one of those made.
BudgetTypes ==
    /\ backend \in {"memory", "redis"} /\ now \in Periods
    /\ buckets \in Seq(Bucket) /\ mapped \in 0 .. Len(buckets) /\ Len(buckets) <= MaxBuckets
    /\ counter \in [Periods -> [used : 0 .. Cap, touched : Periods]]
    /\ spender \in [Spenders -> Call]
    /\ sweepAt \in -1 .. MaxPeriod /\ net \in [Periods -> 0 .. MaxNet] /\ lateCharges \subseteq Periods

\* No clock that was read is ahead of the clock, and a call holds a bucket that was made.
BudgetClocks ==
    /\ sweepAt <= now
    /\ \A b \in 1 .. Len(buckets) : buckets[b].period <= now
    /\ \A p \in Periods : counter[p].used # 0 => counter[p].touched >= p
    /\ \A c \in Spenders : spender[c].period <= now
    /\ \A c \in Spenders : spender[c].step = "lock" => spender[c].bucket \in 1 .. Len(buckets)

\* What the budget has on record for a period: the counter, or the mapped bucket.
Charged(p) ==
    IF backend = "redis" THEN counter[p].used
    ELSE IF mapped # 0 /\ buckets[mapped].period = p THEN buckets[mapped].used ELSE 0

\* Charges are on record: no less than what was admitted in the period the clock is in,
\* and nothing in a later one. A period that is over keeps what it had.
Accounts ==
    \A p \in Periods \ lateCharges :
        /\ net[p] <= Cap
        /\ p > now => net[p] = 0
        /\ p = now => net[p] <= Charged(p)

\* The inductive invariant of the budgets.
BudgetInv == BudgetTypes /\ BudgetClocks /\ Accounts

\* The bounds of a budget are numbers.
LEMMA Bounds == Cap \in Nat /\ MaxPeriod \in Nat /\ MaxBuckets \in Nat
BY BudgetAssumption

\* Periods are numbers that start at 0.
LEMMA PeriodsAreNumbers == 0 \in Periods /\ Periods \subseteq Nat /\ Periods \subseteq -1 .. MaxPeriod
BY Bounds DEF Periods

\* A budget starts with nothing charged.
LEMMA BudgetStarts == BudgetInit => BudgetInv
<1> SUFFICES ASSUME BudgetInit PROVE BudgetInv
    OBVIOUS
<1>1. Idle \in Call
    BY Bounds DEF Idle, Call, Periods
<1>2. BudgetTypes
    BY <1>1, Bounds DEF BudgetInit, BudgetTypes, MaxNet, Periods
<1>3. BudgetClocks
    BY DEF BudgetInit, BudgetClocks, Idle, Periods
<1>4. Accounts
    BY Bounds DEF BudgetInit, Accounts, Charged, Periods
<1> QED
    BY <1>2, <1>3, <1>4 DEF BudgetInv

\* A call that moves on keeps its place, its period and its bucket in range.
LEMMA CallMoves ==
    ASSUME BudgetInv, NEW c \in Spenders, NEW r \in Call, spender' = [spender EXCEPT ![c] = r],
           now' = now, Len(buckets') >= Len(buckets), Len(buckets') \in Nat,
           r.period <= now, r.step = "lock" => r.bucket \in 1 .. Len(buckets')
    PROVE  /\ spender' \in [Spenders -> Call]
           /\ \A d \in Spenders : spender'[d].period <= now'
           /\ \A d \in Spenders : spender'[d].step = "lock" => spender'[d].bucket \in 1 .. Len(buckets')
<1>1. spender \in [Spenders -> Call] /\ Len(buckets) \in Nat
    BY DEF BudgetInv, BudgetTypes
<1>2. /\ spender' \in [Spenders -> Call] /\ spender'[c] = r
      /\ \A d \in Spenders : d # c => spender'[d] = spender[d]
    BY <1>1
<1>3. \A d \in Spenders : spender[d].step = "lock" => spender[d].bucket \in 1 .. Len(buckets')
    BY <1>1 DEF BudgetInv, BudgetClocks
<1> QED
    BY <1>2, <1>3 DEF BudgetInv, BudgetClocks

\* A step that moves one call only, of no effect on what was charged, keeps the invariant.
LEMMA OnlyTheCallMoves ==
    ASSUME BudgetInv, NEW c \in Spenders, NEW r \in Call, spender' = [spender EXCEPT ![c] = r],
           UNCHANGED <<backend, now, buckets, mapped, counter, sweepAt, net, lateCharges>>,
           r.period <= now, r.step # "lock"
    PROVE  BudgetInv'
<1>1. now' = now /\ Len(buckets') >= Len(buckets) /\ Len(buckets') \in Nat
    BY DEF BudgetInv, BudgetTypes
<1>2. /\ spender' \in [Spenders -> Call]
      /\ \A d \in Spenders : spender'[d].period <= now'
      /\ \A d \in Spenders : spender'[d].step = "lock" => spender'[d].bucket \in 1 .. Len(buckets')
    BY ZenonT(30), <1>1, CallMoves
<1>3. BudgetTypes'
    BY <1>2 DEF BudgetInv, BudgetTypes
<1>4. BudgetClocks'
    BY <1>2 DEF BudgetInv, BudgetClocks
<1>5. Accounts'
    BY DEF BudgetInv, Accounts, Charged
<1> QED
    BY <1>3, <1>4, <1>5 DEF BudgetInv

\* A caller at rest is one of the calls.
LEMMA IdleIsACall == Idle \in Call /\ Idle.period = 0 /\ Idle.step = "idle"
BY Bounds DEF Idle, Call, Periods

\* What is charged to a period is a number within the cap.
LEMMA ChargedIsANumber ==
    /\ BudgetTypes => \A p \in Periods : Charged(p) \in Nat
    /\ BudgetTypes' => \A p \in Periods : Charged(p)' \in Nat
<1>1. BudgetTypes => \A p \in Periods : Charged(p) \in Nat
  <2> SUFFICES ASSUME BudgetTypes, NEW p \in Periods PROVE Charged(p) \in Nat
    OBVIOUS
  <2>1. counter[p].used \in Nat
    BY Bounds DEF BudgetTypes
  <2>2. mapped # 0 => buckets[mapped] \in Bucket
    BY DEF BudgetTypes
  <2>3. mapped # 0 => buckets[mapped].used \in Nat
    BY <2>2, Bounds DEF Bucket
  <2> QED
    BY <2>1, <2>3 DEF Charged
<1>2. BudgetTypes' => \A p \in Periods : Charged(p)' \in Nat
  <2> SUFFICES ASSUME BudgetTypes', NEW p \in Periods PROVE Charged(p)' \in Nat
    OBVIOUS
  <2>1. counter'[p].used \in Nat
    BY Bounds DEF BudgetTypes
  <2>2. mapped' # 0 => buckets'[mapped'] \in Bucket
    BY DEF BudgetTypes
  <2>3. mapped' # 0 => buckets'[mapped'].used \in Nat
    BY <2>2, Bounds DEF Bucket
  <2> QED
    BY <2>1, <2>3 DEF Charged
<1> QED
    BY <1>1, <1>2

\* Consume reads the clock.
LEMMA ReadClockKeeps == ASSUME BudgetInv, NEW c \in Spenders, ReadClock(c) PROVE BudgetInv'
<1>1. PICK n \in 1 .. Cap + 1 :
          spender' = [spender EXCEPT ![c] = [step |-> "load", period |-> now, amount |-> n, bucket |-> 0]]
    BY ZenonT(30) DEF ReadClock
<1> DEFINE r == [step |-> "load", period |-> now, amount |-> n, bucket |-> 0]
<1>2. r \in Call /\ r.period <= now /\ r.step # "lock"
    BY Bounds DEF BudgetInv, BudgetTypes, Call, Periods
<1>3. spender' = [spender EXCEPT ![c] = r]
    BY <1>1
<1>4. UNCHANGED <<backend, now, buckets, mapped, counter, sweepAt, net, lateCharges>>
    BY DEF ReadClock
<1> HIDE DEF r
<1> QED
    BY ZenonT(30), <1>2, <1>3, <1>4, OnlyTheCallMoves

\* The charge of a call is kept.
LEMMA KeepKeeps == ASSUME BudgetInv, NEW c \in Spenders, Keep(c) PROVE BudgetInv'
<1>1. 0 <= now
    BY DEF BudgetInv, BudgetTypes, Periods
<1> QED
    BY ZenonT(30), <1>1, IdleIsACall, OnlyTheCallMoves DEF Keep

\* LoadOrStore: the mapped bucket, or a new one.
LEMMA LoadBucketKeeps == ASSUME BudgetInv, NEW c \in Spenders, LoadBucket(c) PROVE BudgetInv'
<1> DEFINE r == [spender[c] EXCEPT !.step = "lock", !.bucket = mapped']
           new == [period |-> spender[c].period, used |-> 0]
<1>1. /\ UNCHANGED <<backend, now, counter, sweepAt, net, lateCharges>> /\ backend = "memory"
      /\ spender' = [spender EXCEPT ![c] = r]
      /\ mapped # 0 => UNCHANGED <<buckets, mapped>>
      /\ mapped = 0 => buckets' = Append(buckets, new) /\ mapped' = Len(buckets) + 1
         /\ Len(buckets) < MaxBuckets
    BY ZenonT(30) DEF LoadBucket
<1>2. spender[c] \in Call /\ spender[c].period <= now /\ new \in Bucket
      /\ new.period = spender[c].period
    BY Bounds DEF BudgetInv, BudgetTypes, BudgetClocks, Call, Bucket
<1> HIDE DEF new
<1>3. /\ buckets' \in Seq(Bucket) /\ mapped' \in 1 .. Len(buckets') /\ Len(buckets') <= MaxBuckets
      /\ Len(buckets') >= Len(buckets) /\ Len(buckets') \in Nat
      /\ \A b \in 1 .. Len(buckets') : buckets'[b].period <= now
  <2>1. CASE mapped # 0
    BY <1>1, <2>1 DEF BudgetInv, BudgetTypes, BudgetClocks
  <2>2. CASE mapped = 0
    <3>1. /\ buckets' \in Seq(Bucket) /\ Len(buckets') = Len(buckets) + 1 /\ Len(buckets) \in Nat
          /\ \A b \in 1 .. Len(buckets) : buckets'[b] = buckets[b]
          /\ buckets'[Len(buckets) + 1] = new
      <4>1. buckets \in Seq(Bucket) /\ buckets' = Append(buckets, new)
        BY <1>1, <2>2 DEF BudgetInv, BudgetTypes
      <4> QED
        BY <1>2, <4>1, Appended
    <3>2. \A b \in 1 .. Len(buckets') : b \in 1 .. Len(buckets) \/ b = Len(buckets) + 1
      BY <3>1
    <3> QED
      BY <1>1, <1>2, <2>2, <3>1, <3>2, Bounds DEF BudgetInv, BudgetClocks
  <2> QED
    BY <2>1, <2>2
<1>4. r \in Call /\ r.period = spender[c].period /\ r.step = "lock" /\ r.bucket = mapped'
  <2>1. mapped' \in 0 .. MaxBuckets
    BY <1>3, Bounds
  <2> QED
    BY ZenonT(30), <1>2, <2>1 DEF Call
<1> HIDE DEF r
<1>5. /\ spender' \in [Spenders -> Call]
      /\ \A d \in Spenders : spender'[d].period <= now'
      /\ \A d \in Spenders : spender'[d].step = "lock" => spender'[d].bucket \in 1 .. Len(buckets')
    BY ZenonT(30), <1>1, <1>2, <1>3, <1>4, CallMoves
<1>6. BudgetTypes'
    BY <1>1, <1>3, <1>5 DEF BudgetInv, BudgetTypes
<1>8. BudgetClocks'
    BY <1>1, <1>3, <1>5 DEF BudgetInv, BudgetClocks
<1>9. Accounts'
  <2>1. CASE mapped # 0
    BY <1>1, <2>1 DEF BudgetInv, Accounts, Charged
  <2>2. CASE mapped = 0
    <3>1. \A p \in Periods : Charged(p)' >= 0
      <4>1. buckets'[mapped'] \in Bucket
        BY <1>3
      <4> QED
        BY <1>1, <4>1 DEF Charged, Bucket
    <3>2. \A p \in Periods : Charged(p) = 0
      BY <1>1, <2>2 DEF Charged
    <3> QED
      BY <1>1, <3>1, <3>2 DEF BudgetInv, BudgetTypes, Accounts, Periods
  <2> QED
    BY <2>1, <2>2
<1> QED
    BY <1>6, <1>8, <1>9 DEF BudgetInv

\* What Answer does to the call and to the account of its period.
LEMMA Answered ==
    ASSUME BudgetInv, NEW c \in Spenders, NEW fits \in BOOLEAN, NEW touched \in SUBSET Periods,
           Answer(c, fits, spender[c].period, touched), now' = now, Len(buckets') = Len(buckets)
    PROVE  /\ spender' \in [Spenders -> Call]
           /\ \A d \in Spenders : spender'[d].period <= now'
           /\ \A d \in Spenders : spender'[d].step = "lock" => spender'[d].bucket \in 1 .. Len(buckets')
           /\ net' \in [Periods -> 0 .. MaxNet]
           /\ net'[spender[c].period] = net[spender[c].period] + IF fits THEN spender[c].amount ELSE 0
           /\ \A p \in Periods : p # spender[c].period => net'[p] = net[p]
           /\ lateCharges' = IF spender[c].period < now THEN lateCharges \cup touched ELSE lateCharges
<1> DEFINE s == spender[c]
           paid == [s EXCEPT !.step = "charged", !.bucket = 0]
           r == IF fits THEN paid ELSE Idle
           more == IF fits THEN s.amount ELSE 0
<1>1. /\ s \in Call /\ s.period \in Periods /\ s.amount \in 0 .. Cap + 1 /\ s.period <= now /\ 0 <= now
      /\ spender \in [Spenders -> Call] /\ net \in [Periods -> 0 .. MaxNet]
    BY DEF BudgetInv, BudgetTypes, BudgetClocks, Call, Periods
<1>2. paid \in Call /\ paid.period = s.period /\ paid.step = "charged"
  <2>1. 0 \in 0 .. MaxBuckets
    BY Bounds
  <2> QED
    BY ZenonT(30), <1>1, <2>1 DEF Call
<1>3. /\ spender' = [spender EXCEPT ![c] = r]
      /\ net' = [net EXCEPT ![s.period] = @ + more] /\ net'[s.period] <= MaxNet
      /\ lateCharges' = IF s.period < now THEN lateCharges \cup touched ELSE lateCharges
    BY DEF Answer
<1> HIDE DEF paid
<1>4. r \in Call /\ r.period <= now /\ r.step # "lock"
    BY <1>1, <1>2, IdleIsACall
<1>5. now' = now /\ Len(buckets') >= Len(buckets) /\ Len(buckets') \in Nat
    BY DEF BudgetInv, BudgetTypes
<1>6. more \in 0 .. Cap + 1
    BY <1>1, Bounds
<1> HIDE DEF r, more
<1>7. /\ spender' \in [Spenders -> Call]
      /\ \A d \in Spenders : spender'[d].period <= now'
      /\ \A d \in Spenders : spender'[d].step = "lock" => spender'[d].bucket \in 1 .. Len(buckets')
    BY ZenonT(30), <1>3, <1>4, <1>5, CallMoves
<1>8. /\ net'[s.period] = net[s.period] + more
      /\ \A p \in Periods : p # s.period => net'[p] = net[p]
    BY <1>1, <1>3
<1>9. net' \in [Periods -> 0 .. MaxNet]
  <2>1. net[s.period] \in 0 .. MaxNet
    BY <1>1
  <2>2. net[s.period] + more \in 0 .. MaxNet
    BY <1>3, <1>6, <1>8, <2>1, Bounds DEF MaxNet
  <2> QED
    BY <1>1, <1>3, <2>2
<1> QED
    BY <1>3, <1>7, <1>8, <1>9 DEF more

\* A difference that is taken down to 0 at most.
LEMMA Lowered ==
  ASSUME NEW u \in 0 .. Cap, NEW n \in Nat
  PROVE  u \in Nat /\ u >= u - n /\ u >= 0
  BY Bounds

\* A charge under the lock of the bucket, which may have been swept or belong to another period.
LEMMA ChargeKeeps == ASSUME BudgetInv, NEW c \in Spenders, Charge(c) PROVE BudgetInv'
<1> DEFINE s == spender[c]
           b == buckets[s.bucket]
           used == IF b.period = s.period THEN b.used ELSE 0
           fits == s.amount <= Cap - used
<1>1. /\ s \in Call /\ s.period \in Periods /\ s.amount \in 0 .. Cap + 1 /\ s.period <= now
      /\ now \in Periods /\ backend = "memory" /\ s.bucket \in 1 .. Len(buckets)
      /\ buckets \in Seq(Bucket) /\ Len(buckets) \in Nat /\ s.step = "lock"
      /\ UNCHANGED <<backend, now, mapped, counter, sweepAt>>
    BY DEF BudgetInv, BudgetTypes, BudgetClocks, Call, Charge
<1>2. CASE ~Live(s.bucket)
  <2> DEFINE r == [s EXCEPT !.step = "load"]
  <2>1. r \in Call /\ r.period <= now /\ r.step # "lock"
    BY <1>1 DEF Call
  <2>2. spender' = [spender EXCEPT ![c] = r] /\ UNCHANGED <<buckets, net, lateCharges>>
    BY <1>2 DEF Charge
  <2> HIDE DEF r
  <2> QED
    BY ZenonT(30), <1>1, <2>1, <2>2, OnlyTheCallMoves
<1>3. CASE Live(s.bucket)
  <2> DEFINE new == [period |-> s.period, used |-> IF fits THEN used + s.amount ELSE used]
             touched == {s.period, b.period}
  <2>1. mapped = s.bucket /\ buckets' = [buckets EXCEPT ![s.bucket] = new]
        /\ Answer(c, fits, s.period, touched)
    BY <1>3 DEF Charge, Live
  <2>2. b \in Bucket /\ b.period \in Periods /\ b.used \in 0 .. Cap /\ used \in 0 .. Cap
        /\ b.period <= now
    <3>1. b \in Bucket /\ b.period <= now
      BY <1>1 DEF BudgetInv, BudgetClocks
    <3> QED
      BY <3>1, Bounds DEF Bucket
  <2> HIDE DEF used
  <2>3. new \in Bucket /\ new.period = s.period /\ fits \in BOOLEAN /\ touched \in SUBSET Periods
    BY SMTT(30), <1>1, <2>2, Bounds DEF Bucket
  <2>4. new.used = used + IF fits THEN s.amount ELSE 0
    <3>1. used \in Nat
      BY <2>2
    <3> QED
      BY <3>1
  <2> HIDE DEF new, fits, touched
  <2>5. /\ buckets' \in Seq(Bucket) /\ Len(buckets') = Len(buckets) /\ buckets'[s.bucket] = new
        /\ \A i \in 1 .. Len(buckets) : i # s.bucket => buckets'[i] = buckets[i]
    BY <1>1, <2>1, <2>3, Replaced
  <2>6. /\ spender' \in [Spenders -> Call]
        /\ \A d \in Spenders : spender'[d].period <= now'
        /\ \A d \in Spenders : spender'[d].step = "lock" => spender'[d].bucket \in 1 .. Len(buckets')
        /\ net' \in [Periods -> 0 .. MaxNet]
        /\ net'[s.period] = net[s.period] + IF fits THEN s.amount ELSE 0
        /\ \A p \in Periods : p # s.period => net'[p] = net[p]
        /\ lateCharges' = IF s.period < now THEN lateCharges \cup touched ELSE lateCharges
    BY ZenonT(30), <1>1, <2>1, <2>3, <2>5, Answered
  <2>7. BudgetTypes'
    BY ZenonT(30), <1>1, <2>3, <2>5, <2>6 DEF BudgetInv, BudgetTypes
  <2>8. BudgetClocks'
    BY ZenonT(30), <1>1, <2>3, <2>5, <2>6 DEF BudgetInv, BudgetClocks
  <2>9. Accounts'
    <3> SUFFICES ASSUME NEW p \in Periods, p \notin lateCharges'
                 PROVE  /\ net'[p] <= Cap
                        /\ p > now => net'[p] = 0
                        /\ p = now => net'[p] <= Charged(p)'
      BY ZenonT(30), <1>1 DEF Accounts
    <3>0. mapped # 0
      BY <1>1, <2>1
    <3>1. Charged(p) = IF b.period = p THEN b.used ELSE 0
      BY ZenonT(30), <1>1, <2>1, <3>0 DEF Charged
    <3>2. Charged(p)' = IF s.period = p THEN new.used ELSE 0
      <4>1. mapped' # 0 /\ backend' = "memory" /\ buckets'[mapped'] = new /\ new.period = s.period
        BY ZenonT(30), <1>1, <2>1, <2>3, <2>5, <3>0
      <4> QED
        BY ZenonT(30), <4>1 DEF Charged
    <3>3. p \notin lateCharges
      BY ZenonT(30), <2>6
    <3>4. net[p] <= Cap /\ (p > now => net[p] = 0) /\ (p = now => net[p] <= Charged(p))
      BY <3>3 DEF BudgetInv, Accounts
    <3>5. CASE s.period < now
      <4>1. p # s.period /\ p # b.period
        BY ZenonT(30), <2>6, <3>5 DEF touched
      <4> QED
        BY ZenonT(30), <2>6, <3>1, <3>2, <3>4, <4>1
    <3>6. CASE s.period = now /\ p # now
      BY ZenonT(30), <2>6, <3>4, <3>6
    <3>7. CASE s.period = now /\ p = now
      <4>1. Charged(p) = used
        BY <3>1, <3>7 DEF used
      <4>2. net[p] \in Nat /\ used \in Nat /\ s.amount \in Nat
        <5>1. net[p] \in 0 .. MaxNet /\ used \in 0 .. Cap /\ s.amount \in 0 .. Cap + 1
          BY ZenonT(30), <1>1, <2>2 DEF BudgetInv, BudgetTypes
        <5> QED
          BY <5>1
      <4>3. CASE fits
        <5>1. s.amount <= Cap - used
          BY ZenonT(30), <4>3 DEF fits
        <5>2. net'[p] = net[p] + s.amount /\ Charged(p)' = used + s.amount
          BY ZenonT(30), <2>4, <2>6, <3>2, <3>7, <4>3
        <5>3. net[p] <= used /\ now \in Nat
          BY ZenonT(30), <1>1, <3>4, <3>7, <4>1, PeriodsAreNumbers
        <5>4. net[p] + s.amount <= Cap /\ net[p] + s.amount <= used + s.amount
          BY <4>2, <5>1, <5>3, Bounds
        <5>5. ~(now > now)
          BY <5>3
        <5> QED
          BY ZenonT(30), <3>7, <5>2, <5>4, <5>5
      <4>4. CASE ~fits
        <5>1. net'[p] = net[p] + 0 /\ Charged(p)' = used + 0
          BY ZenonT(30), <2>4, <2>6, <3>2, <3>7, <4>4
        <5>2. net'[p] = net[p] /\ Charged(p)' = used
          BY <4>2, <5>1
        <5> QED
          BY ZenonT(30), <3>4, <3>7, <4>1, <5>2
      <4> QED
        BY <4>3, <4>4
    <3> QED
      BY <1>1, <3>5, <3>6, <3>7 DEF Periods
  <2> QED
    BY <2>7, <2>8, <2>9 DEF BudgetInv
<1> QED
    BY <1>2, <1>3

\* The script of the Redis budget charges the counter of its period.
LEMMA ScriptKeeps == ASSUME BudgetInv, NEW c \in Spenders, Script(c) PROVE BudgetInv'
<1> DEFINE s == spender[c]
           used == counter[s.period].used
           fits == s.amount <= Cap - used
           new == IF fits THEN [used |-> used + s.amount, touched |-> now]
                  ELSE IF used > 0 THEN [used |-> used, touched |-> now] ELSE counter[s.period]
<1>1. /\ s \in Call /\ s.period \in Periods /\ s.amount \in 0 .. Cap + 1 /\ s.period <= now
      /\ now \in Periods /\ now' = now /\ backend = "redis" /\ Len(buckets') = Len(buckets)
      /\ counter \in [Periods -> [used : 0 .. Cap, touched : Periods]]
      /\ UNCHANGED <<backend, now, buckets, mapped, sweepAt>>
    BY ZenonT(30) DEF BudgetInv, BudgetTypes, BudgetClocks, Call, Script
<1>2. counter' = [counter EXCEPT ![s.period] = new] /\ Answer(c, fits, s.period, {s.period})
    BY ZenonT(30) DEF Script
<1>3. used \in 0 .. Cap
    BY ZenonT(30), <1>1
<1> HIDE DEF used
<1>4. /\ new \in [used : 0 .. Cap, touched : Periods]
      /\ new.used = used + (IF fits THEN s.amount ELSE 0)
      /\ new.used # 0 => new.touched >= s.period
  <2>1. CASE fits
    <3>1. new = [used |-> used + s.amount, touched |-> now]
      BY <2>1
    <3>2. used + s.amount \in 0 .. Cap /\ now \in Periods /\ now >= s.period
      <4>1. s.amount \in 0 .. Cap + 1 /\ used \in 0 .. Cap /\ s.amount <= Cap - used
        BY ZenonT(30), <1>1, <1>3, <2>1
      <4>2. used + s.amount \in 0 .. Cap
        BY <4>1, Bounds
      <4>3. s.period <= now /\ now \in Periods
        BY ZenonT(30), <1>1
      <4> QED
        BY <4>2, <4>3
    <3>3. new.used = used + s.amount /\ new.touched = now
      BY <3>1
    <3>4. new \in [used : 0 .. Cap, touched : Periods]
      BY <3>1, <3>2
    <3> QED
      BY ZenonT(30), <2>1, <3>2, <3>3, <3>4
  <2>2. CASE ~fits /\ used > 0
    <3>1. new = [used |-> used, touched |-> now]
      BY ZenonT(30), <2>2
    <3>2. now >= s.period /\ used = used + 0
      BY <1>1, <1>3 DEF Periods
    <3> QED
      BY ZenonT(30), <1>1, <1>3, <2>2, <3>1, <3>2
  <2>3. CASE ~fits /\ ~(used > 0)
    <3>1. new = counter[s.period]
      BY ZenonT(30), <2>3
    <3>2. used = 0
      BY <1>3, <2>3
    <3>3. new.used = 0 /\ new \in [used : 0 .. Cap, touched : Periods]
      BY ZenonT(30), <1>1, <3>1, <3>2 DEF used
    <3>4. used + (IF fits THEN s.amount ELSE 0) = 0
      BY <2>3, <3>2
    <3> QED
      BY ZenonT(30), <3>3, <3>4
  <2> QED
    BY ZenonT(30), <2>1, <2>2, <2>3
<1>5. {s.period} \in SUBSET Periods /\ fits \in BOOLEAN
    BY <1>1
<1> HIDE DEF new, fits
<1>6. /\ counter' \in [Periods -> [used : 0 .. Cap, touched : Periods]] /\ counter'[s.period] = new
      /\ \A p \in Periods : p # s.period => counter'[p] = counter[p]
    BY ZenonT(30), <1>1, <1>2, <1>4
<1>7. /\ spender' \in [Spenders -> Call]
      /\ \A d \in Spenders : spender'[d].period <= now'
      /\ \A d \in Spenders : spender'[d].step = "lock" => spender'[d].bucket \in 1 .. Len(buckets')
      /\ net' \in [Periods -> 0 .. MaxNet]
      /\ net'[s.period] = net[s.period] + IF fits THEN s.amount ELSE 0
      /\ \A p \in Periods : p # s.period => net'[p] = net[p]
      /\ lateCharges' = IF s.period < now THEN lateCharges \cup {s.period} ELSE lateCharges
    BY ZenonT(30), <1>1, <1>2, <1>5, Answered
<1>8. BudgetTypes'
    BY ZenonT(30), <1>1, <1>6, <1>7 DEF BudgetInv, BudgetTypes
<1>9. BudgetClocks'
    BY ZenonT(30), <1>1, <1>4, <1>6, <1>7 DEF BudgetInv, BudgetClocks
<1>10. Accounts'
  <2> SUFFICES ASSUME NEW p \in Periods, p \notin lateCharges'
               PROVE  /\ net'[p] <= Cap
                      /\ p > now => net'[p] = 0
                      /\ p = now => net'[p] <= counter'[p].used
    BY ZenonT(30), <1>1 DEF Accounts, Charged
  <2>1. p \notin lateCharges
    BY ZenonT(30), <1>7
  <2>2. net[p] <= Cap /\ (p > now => net[p] = 0) /\ (p = now => net[p] <= counter[p].used)
    BY ZenonT(30), <1>1, <2>1 DEF BudgetInv, Accounts, Charged
  <2>3. CASE p # s.period
    BY ZenonT(30), <1>6, <1>7, <2>2, <2>3
  <2>4. CASE p = s.period
    <3>1. ~(s.period < now)
      BY ZenonT(30), <1>7, <2>4
    <3>2. p = now /\ net[p] \in Nat
      BY SMTT(30), <1>1, <2>4, <3>1 DEF BudgetInv, BudgetTypes, Periods
    <3>3. CASE fits
      <4>1. used + s.amount <= Cap
        BY <1>1, <1>3, <3>3, Bounds DEF fits
      <4>2. net'[p] = net[p] + s.amount /\ counter'[p].used = used + s.amount /\ counter[p].used = used
        BY ZenonT(30), <1>4, <1>6, <1>7, <2>4, <3>3 DEF used
      <4> QED
        <5>1. s.amount \in Nat /\ now \in Nat
          BY <1>1 DEF Periods
        <5> QED
          BY SMTT(30), <1>3, <2>2, <3>2, <4>1, <4>2, <5>1, Bounds
    <3>4. CASE ~fits
      <4>1. net'[p] = net[p] /\ counter'[p].used = counter[p].used
        <5>1. net'[p] = net[p] + 0 /\ counter'[p].used = used + 0 /\ counter[p].used = used
          BY ZenonT(30), <1>4, <1>6, <1>7, <2>4, <3>4 DEF used
        <5> QED
          BY <1>3, <3>2, <5>1
      <4> QED
        BY ZenonT(30), <2>2, <3>2, <4>1
    <3> QED
      BY <3>3, <3>4
  <2> QED
    BY ZenonT(30), <2>3, <2>4
<1> QED
    BY <1>8, <1>9, <1>10 DEF BudgetInv

\* A refund, to the bucket or to the counter of the period that was charged.
LEMMA RefundKeeps == ASSUME BudgetInv, NEW c \in Spenders, Refund(c) PROVE BudgetInv'
<1> DEFINE s == spender[c]
           less == net[s.period] - s.amount
<1>1. /\ s.period \in Periods /\ s.amount \in Nat /\ s.period <= now /\ net[s.period] >= s.amount
      /\ now \in Nat /\ net \in [Periods -> 0 .. MaxNet] /\ spender' = [spender EXCEPT ![c] = Idle]
      /\ net' = [net EXCEPT ![s.period] = less]
      /\ UNCHANGED <<backend, now, mapped, sweepAt, lateCharges>>
    BY DEF BudgetInv, BudgetTypes, BudgetClocks, Call, Periods, Refund
<1>2. /\ net' \in [Periods -> 0 .. MaxNet] /\ net'[s.period] = less
      /\ \A p \in Periods : p # s.period => net'[p] = net[p]
  <2>1. less \in 0 .. MaxNet
    BY <1>1, Bounds DEF MaxNet
  <2> QED
    BY ZenonT(30), <1>1, <2>1
<1>3. \A p \in Periods : net'[p] <= net[p] /\ net[p] \in Nat
    BY <1>1, <1>2, Bounds DEF MaxNet
<1>4. \A u \in 0 .. Cap : Less(u, s.amount) \in 0 .. Cap /\ Less(u, s.amount) >= u - s.amount
                          /\ Less(u, s.amount) <= u
    BY <1>1, Bounds DEF Less
<1>5. /\ buckets' \in Seq(Bucket) /\ Len(buckets') = Len(buckets) /\ Len(buckets) \in Nat
      /\ \A i \in 1 .. Len(buckets) : buckets'[i].period = buckets[i].period
      /\ mapped # 0 /\ buckets[mapped].period # s.period => buckets'[mapped] = buckets[mapped]
      /\ mapped # 0 => buckets'[mapped].used >= buckets[mapped].used - s.amount
         /\ buckets'[mapped].used >= 0
  <2>1. buckets \in Seq(Bucket) /\ mapped \in 0 .. Len(buckets) /\ Len(buckets) \in Nat
    BY DEF BudgetInv, BudgetTypes
  <2>2. mapped # 0 => mapped \in 1 .. Len(buckets)
    BY <2>1
  <2>3. CASE backend = "memory" /\ mapped # 0 /\ Refundable(buckets[mapped], s.period)
    <3> DEFINE b == buckets[mapped]
               new == [b EXCEPT !.used = Less(b.used, s.amount)]
    <3>1. b \in Bucket /\ b.period = s.period
      BY ZenonT(30), <2>1, <2>2, <2>3, ElementOf DEF Refundable
    <3>2. new \in Bucket /\ new.period = s.period /\ new.used >= b.used - s.amount /\ new.used >= 0
      BY <1>4, <3>1 DEF Bucket
    <3>3. buckets' = [buckets EXCEPT ![mapped] = new]
      BY SMTT(30), <2>3 DEF Refund
    <3> HIDE DEF new
    <3>4. /\ buckets' \in Seq(Bucket) /\ Len(buckets') = Len(buckets) /\ buckets'[mapped] = new
          /\ \A i \in 1 .. Len(buckets) : i # mapped => buckets'[i] = buckets[i]
      BY <2>1, <2>2, <2>3, <3>2, <3>3, Replaced
    <3> QED
      BY ZenonT(30), <2>1, <3>1, <3>2, <3>4
  <2>4. CASE ~(backend = "memory" /\ mapped # 0 /\ Refundable(buckets[mapped], s.period))
    <3>1. buckets' = buckets
      BY <2>4 DEF Refund
    <3>2. mapped # 0 => buckets[mapped] \in Bucket
      BY ZenonT(30), <2>1, <2>2, ElementOf
    <3>3. mapped # 0 => buckets[mapped].used \in 0 .. Cap
      BY ZenonT(30), <3>2 DEF Bucket
    <3>4. mapped # 0 => /\ buckets[mapped].used >= buckets[mapped].used - s.amount
                        /\ buckets[mapped].used >= 0
      BY ZenonT(30), <1>1, <3>3, Lowered
    <3> QED
      BY ZenonT(30), <2>1, <3>1, <3>4
  <2> QED
    BY ZenonT(30), <2>3, <2>4
<1>6. /\ counter' \in [Periods -> [used : 0 .. Cap, touched : Periods]]
      /\ \A p \in Periods : /\ counter'[p].touched = counter[p].touched
                            /\ counter'[p].used # 0 => counter[p].used # 0
                            /\ p # s.period => counter'[p].used = counter[p].used
                            /\ counter'[p].used >= counter[p].used - s.amount /\ counter'[p].used >= 0
  <2>1. counter \in [Periods -> [used : 0 .. Cap, touched : Periods]]
    BY DEF BudgetInv, BudgetTypes
  <2>2. CASE backend = "redis"
    <3> DEFINE k == counter[s.period]
               new == [k EXCEPT !.used = Less(k.used, s.amount)]
    <3>1. k \in [used : 0 .. Cap, touched : Periods]
      BY ZenonT(30), <1>1, <2>1
    <3>2. /\ new \in [used : 0 .. Cap, touched : Periods] /\ new.touched = k.touched
          /\ new.used >= k.used - s.amount /\ new.used <= k.used
      BY <1>4, <3>1
    <3>3. counter' = [counter EXCEPT ![s.period] = new]
      BY <2>2 DEF Refund
    <3> HIDE DEF new
    <3>4. /\ counter' \in [Periods -> [used : 0 .. Cap, touched : Periods]] /\ counter'[s.period] = new
          /\ \A p \in Periods : p # s.period => counter'[p] = counter[p]
      BY ZenonT(30), <1>1, <2>1, <3>2, <3>3
    <3>5. \A p \in Periods : counter[p].used \in Nat /\ counter'[p].used \in Nat
      BY <2>1, <3>4, Bounds
    <3>6. ASSUME NEW p \in Periods
          PROVE  /\ counter'[p].touched = counter[p].touched
                 /\ counter'[p].used # 0 => counter[p].used # 0
                 /\ p # s.period => counter'[p].used = counter[p].used
                 /\ counter'[p].used >= counter[p].used - s.amount /\ counter'[p].used >= 0
      <4>1. s.amount \in Nat /\ counter[p].used \in Nat /\ counter'[p].used \in Nat
        BY ZenonT(30), <1>1, <3>5
      <4>2. CASE p = s.period
        <5>1. counter'[p] = new /\ counter[p] = k /\ new.used <= k.used
          BY ZenonT(30), <3>2, <3>4, <4>2
        <5>2. (counter'[p].used # 0 => counter[p].used # 0) /\ counter'[p].used >= 0
          BY <4>1, <5>1
        <5> QED
          BY ZenonT(30), <3>2, <4>2, <5>1, <5>2
      <4>3. CASE p # s.period
        <5>1. counter'[p] = counter[p] /\ counter[p].used \in 0 .. Cap
          BY ZenonT(30), <2>1, <3>4, <4>3
        <5> QED
          BY ZenonT(30), <4>1, <4>3, <5>1, Lowered
      <4> QED
        BY ZenonT(30), <4>2, <4>3
    <3> QED
      BY ZenonT(30), <3>4, <3>6
  <2>3. CASE backend # "redis"
    <3>1. counter' = counter
      BY <2>3 DEF Refund
    <3>3. \A p \in Periods : counter[p].used >= counter[p].used - s.amount /\ counter[p].used >= 0
      BY ZenonT(30), <1>1, <2>1, Lowered
    <3> QED
      BY ZenonT(30), <2>1, <3>1, <3>3
  <2> QED
    BY ZenonT(30), <2>2, <2>3
<1>7. /\ spender' \in [Spenders -> Call]
      /\ \A d \in Spenders : spender'[d].period <= now'
      /\ \A d \in Spenders : spender'[d].step = "lock" => spender'[d].bucket \in 1 .. Len(buckets')
  <2>1. /\ now' = now /\ Len(buckets') >= Len(buckets) /\ Len(buckets') \in Nat
        /\ Idle.period <= now /\ Idle.step # "lock"
    <3>1. Len(buckets') = Len(buckets) /\ Len(buckets) \in Nat /\ now' = now /\ now \in Nat
      BY ZenonT(30), <1>1, <1>5
    <3>2. Len(buckets') >= Len(buckets) /\ Len(buckets') \in Nat
      BY <3>1
    <3>3. Idle.period <= now /\ Idle.step # "lock"
      BY <3>1 DEF Idle
    <3> QED
      BY ZenonT(30), <3>1, <3>2, <3>3
  <2> QED
    BY ZenonT(30), <1>1, <2>1, IdleIsACall, CallMoves
<1>8. BudgetTypes'
    BY ZenonT(30), <1>1, <1>2, <1>5, <1>6, <1>7 DEF BudgetInv, BudgetTypes
<1>9. BudgetClocks'
    BY ZenonT(30), <1>1, <1>5, <1>6, <1>7 DEF BudgetInv, BudgetClocks
<1>10. Accounts'
  <2> SUFFICES ASSUME NEW p \in Periods, p \notin lateCharges
               PROVE  /\ net'[p] <= Cap
                      /\ p > now => net'[p] = 0
                      /\ p = now => net'[p] <= Charged(p)'
    BY ZenonT(30), <1>1 DEF Accounts
  <2>1. net[p] <= Cap /\ (p > now => net[p] = 0) /\ (p = now => net[p] <= Charged(p))
    BY DEF BudgetInv, Accounts
  <2>2. net'[p] \in Nat /\ net[p] \in Nat /\ net'[p] <= net[p]
    BY <1>2, <1>3
  <2>3. mapped \in 0 .. Len(buckets) /\ counter[p].used \in Int
        /\ (mapped # 0 => buckets'[mapped].period = buckets[mapped].period)
    BY <1>5, Bounds DEF BudgetInv, BudgetTypes
  <2>4. p # s.period => Charged(p)' = Charged(p)
    BY ZenonT(30), <1>1, <1>5, <1>6, <2>3 DEF Charged
  <2>5. Charged(p)' >= Charged(p) - s.amount /\ Charged(p)' >= 0
    <3>1. CASE backend = "redis"
      BY ZenonT(30), <1>1, <1>6, <3>1 DEF Charged
    <3>2. CASE backend # "redis" /\ mapped # 0 /\ buckets[mapped].period = p
      BY ZenonT(30), <1>1, <1>5, <2>3, <3>2 DEF Charged
    <3>3. CASE backend # "redis" /\ ~(mapped # 0 /\ buckets[mapped].period = p)
      <4>1. Charged(p) = 0 /\ Charged(p)' = 0
        BY ZenonT(30), <1>1, <2>3, <3>3 DEF Charged
      <4>2. 0 >= 0 - s.amount /\ 0 >= 0
        BY <1>1
      <4> QED
        BY ZenonT(30), <4>1, <4>2
    <3> QED
      BY ZenonT(30), <3>1, <3>2, <3>3
  <2>6. Charged(p) \in Int /\ Charged(p)' \in Int
    BY <1>8, ChargedIsANumber DEF BudgetInv
  <2>7. CASE p = s.period
    <3>1. net'[p] = net[p] - s.amount /\ s.amount \in Nat /\ p <= now /\ p \in Nat /\ now \in Nat
      BY ZenonT(30), <1>1, <1>2, <2>7, PeriodsAreNumbers
    <3> QED
      BY <2>1, <2>2, <2>5, <2>6, <3>1, Bounds
  <2>8. CASE p # s.period
    BY ZenonT(30), <1>1, <1>2, <2>1, <2>4, <2>8
  <2> QED
    BY ZenonT(30), <2>7, <2>8
<1> QED
    BY <1>8, <1>9, <1>10 DEF BudgetInv

\* The sweeper reads the clock.
LEMMA BeginSweepKeeps == ASSUME BudgetInv, BeginSweep PROVE BudgetInv'
<1>1. BudgetTypes'
    BY ZenonT(30), PeriodsAreNumbers DEF BeginSweep, BudgetInv, BudgetTypes
<1>2. BudgetClocks'
    BY SMTT(30) DEF BeginSweep, BudgetInv, BudgetTypes, BudgetClocks, Periods
<1>3. Accounts'
    BY ZenonT(30) DEF BeginSweep, BudgetInv, Accounts, Charged
<1> QED
    BY <1>1, <1>2, <1>3 DEF BudgetInv

\* The sweeper unmaps a bucket whose period was over when it read the clock.
LEMMA SweepKeeps == ASSUME BudgetInv, Sweep PROVE BudgetInv'
<1>1. BudgetTypes'
    BY Bounds DEF Sweep, BudgetInv, BudgetTypes
<1>2. BudgetClocks'
    BY DEF Sweep, BudgetInv, BudgetTypes, BudgetClocks, Periods
<1>3. mapped # 0 /\ buckets[mapped].period = now => mapped' = mapped
  <2>1. sweepAt \in Int /\ now \in Int /\ sweepAt <= now
    BY DEF BudgetInv, BudgetTypes, BudgetClocks, Periods
  <2> QED
    BY <2>1 DEF Sweep
<1>4. mapped' \in {0, mapped} /\ UNCHANGED <<backend, now, buckets, counter, net, lateCharges>>
    BY DEF Sweep
<1>5. Charged(now)' = Charged(now)
    BY <1>3, <1>4 DEF Charged
<1>6. Accounts'
    BY <1>4, <1>5 DEF BudgetInv, Accounts
<1> QED
    BY <1>1, <1>2, <1>6 DEF BudgetInv

\* Redis drops the counter of a period that was not touched for two periods.
LEMMA ExpireKeyKeeps == ASSUME BudgetInv, NEW q \in Periods, ExpireKey(q) PROVE BudgetInv'
<1> DEFINE new == [used |-> 0, touched |-> 0]
<1>1. /\ UNCHANGED <<backend, now, buckets, mapped, spender, sweepAt, net, lateCharges>>
      /\ counter' = [counter EXCEPT ![q] = new] /\ counter[q].used # 0 /\ counter[q].touched < now
      /\ backend = "redis"
    BY DEF ExpireKey
<1>2. counter \in [Periods -> [used : 0 .. Cap, touched : Periods]]
      /\ new \in [used : 0 .. Cap, touched : Periods]
    BY Bounds, PeriodsAreNumbers DEF BudgetInv, BudgetTypes
<1>3. new.used = 0
    OBVIOUS
<1> HIDE DEF new
<1>4. /\ counter' \in [Periods -> [used : 0 .. Cap, touched : Periods]] /\ counter'[q] = new
      /\ \A p \in Periods : p # q => counter'[p] = counter[p]
    BY ZenonT(30), <1>1, <1>2
<1>5. BudgetTypes'
    BY ZenonT(30), <1>1, <1>4 DEF BudgetInv, BudgetTypes
<1>6. BudgetClocks'
    BY ZenonT(30), <1>1, <1>3, <1>4 DEF BudgetInv, BudgetClocks
<1>7. q # now
  <2>1. counter[q].touched \in Nat /\ q \in Nat /\ now \in Nat
    BY ZenonT(30), <1>2, PeriodsAreNumbers DEF BudgetInv, BudgetTypes
  <2>2. counter[q].touched >= q
    BY ZenonT(30), <1>1 DEF BudgetInv, BudgetClocks
  <2> QED
    BY <1>1, <2>1, <2>2
<1>8. Accounts'
    BY ZenonT(30), <1>1, <1>4, <1>7 DEF BudgetInv, Accounts, Charged
<1> QED
    BY <1>5, <1>6, <1>8 DEF BudgetInv

\* The clock enters the next period, of which nothing is charged.
LEMMA NextPeriodKeeps == ASSUME BudgetInv, NextPeriod PROVE BudgetInv'
<1>1. /\ UNCHANGED <<backend, buckets, mapped, counter, spender, sweepAt, net, lateCharges>>
      /\ now' = now + 1 /\ now' \in Periods /\ now \in Nat
    BY Bounds DEF NextPeriod, BudgetInv, BudgetTypes, Periods
<1>2. BudgetTypes'
    BY <1>1 DEF BudgetInv, BudgetTypes
<1>3. BudgetClocks'
  <2>1. sweepAt \in Int /\ \A b \in 1 .. Len(buckets) : buckets[b].period \in Nat
    <3>1. \A b \in 1 .. Len(buckets) : buckets[b] \in Bucket
      BY DEF BudgetInv, BudgetTypes
    <3>2. ASSUME NEW b \in Bucket PROVE b.period \in Nat
      <4>1. b.period \in Periods
        BY DEF Bucket
      <4> QED
        BY ZenonT(30), <4>1, PeriodsAreNumbers
    <3>3. sweepAt \in Int
      BY DEF BudgetInv, BudgetTypes
    <3> QED
      BY <3>1, <3>2, <3>3
  <2>2. \A c \in Spenders : spender[c].period \in Int
    BY DEF BudgetInv, BudgetTypes, Call, Periods
  <2>3. \A i \in Int : i <= now => i <= now + 1
    BY <1>1
  <2> QED
    BY <1>1, <2>1, <2>2, <2>3 DEF BudgetInv, BudgetClocks
<1>4. Accounts'
  <2> SUFFICES ASSUME NEW p \in Periods, p \notin lateCharges
               PROVE  /\ net[p] <= Cap
                      /\ p > now + 1 => net[p] = 0
                      /\ p = now + 1 => net[p] <= Charged(p)'
    BY <1>1 DEF Accounts
  <2>1. net[p] <= Cap /\ (p > now => net[p] = 0) /\ p \in Nat
    BY DEF BudgetInv, Accounts, Periods
  <2>2. Charged(p)' \in Nat
    BY <1>2, ChargedIsANumber
  <2> QED
    BY <1>1, <2>1, <2>2
<1> QED
    BY <1>2, <1>3, <1>4 DEF BudgetInv

\* Every step of a budget keeps the invariant.
LEMMA BudgetStep == BudgetInv /\ [BudgetNext]_budgetVars => BudgetInv'
<1> SUFFICES ASSUME BudgetInv, [BudgetNext]_budgetVars PROVE BudgetInv'
    OBVIOUS
<1>1. CASE \E c \in Spenders : ReadClock(c) \/ LoadBucket(c) \/ Charge(c) \/ Script(c) \/ Refund(c) \/ Keep(c)
    BY <1>1, ReadClockKeeps, LoadBucketKeeps, ChargeKeeps, ScriptKeeps, RefundKeeps, KeepKeeps
<1>2. CASE BeginSweep \/ Sweep \/ NextPeriod \/ \E p \in Periods : ExpireKey(p)
    BY <1>2, BeginSweepKeeps, SweepKeeps, NextPeriodKeeps, ExpireKeyKeeps
<1>3. CASE UNCHANGED budgetVars
    BY ZenonT(30), <1>3 DEF budgetVars, budgetState, BudgetInv, BudgetTypes, BudgetClocks,
        Accounts, Charged
<1> QED
    BY <1>1, <1>2, <1>3 DEF BudgetNext

\* A budget never admits more than its cap in a period, whatever is refunded, swept or
\* expired (but for the periods a charge reaches late): the record covers what was admitted.
THEOREM BudgetHolds == BudgetSpec => []BudgetWithinCap
<1>1. BudgetInv => BudgetWithinCap
    BY Zenon DEF BudgetInv, Accounts, BudgetWithinCap
<1> QED
    BY BudgetStarts, BudgetStep, <1>1, PTL DEF BudgetSpec

-------------------------------------------------------------------------------
(*****************************************************************************)
(* data/ratelimit: the arrival time covers what was admitted.                *)
(*****************************************************************************)

\* The arrival time the next event is measured against.
Expected == IF stored = 0 THEN tick ELSE LaterOf(tats[stored], tick)

\* What was admitted and not yet paid off.
Covered == \A i \in 1 .. Len(admitted) : Expected >= admitted[i] + (Len(admitted) - i + 1) * Rate

\* A call of Allow under way.
Allowing == [step : {"idle", "decide"}, now : Nat, bucket : Nat]

\* The types of the limiters.
LimitTypes ==
    /\ limiter \in {"tokenbucket", "gcra", "redis"} /\ tick \in Nat
    /\ tats \in Seq(Nat) /\ stored \in 0 .. Len(tats) /\ keyExpires \in Nat
    /\ allowing \in [LimitCallers -> Allowing]
    /\ admitted \in Seq(Nat)

\* A clock read before a decision is not ahead, and the bucket read is one that was made.
CallsInTime ==
    \A c \in LimitCallers : allowing[c].step = "decide" =>
        /\ allowing[c].now <= tick
        /\ limiter = "tokenbucket" => allowing[c].bucket \in 1 .. Len(tats)

\* The inductive invariant of the limiters; the key of Redis outlives its arrival time.
LimitInv ==
    /\ LimitTypes /\ CallsInTime /\ Covered /\ AdmissionsPaced
    /\ limiter = "redis" /\ stored # 0 => tats[stored] <= keyExpires

\* The rate and the burst are numbers, and a burst costs what its events cost.
LEMMA RateBounds == Rate \in Nat /\ Burst \in Nat /\ Burst * Rate \in Nat /\ (Burst - 1) * Rate \in Nat
                    /\ Burst * Rate = (Burst - 1) * Rate + Rate
BY RateAssumption

\* A limiter starts with nothing admitted.
LEMMA LimitStarts == LimitInit => LimitInv
<1> SUFFICES ASSUME LimitInit PROVE LimitInv
    OBVIOUS
<1>1. LimitTypes
    BY DEF LimitInit, LimitTypes, NotAllowing, Allowing
<1>2. CallsInTime
    BY DEF LimitInit, CallsInTime, NotAllowing
<1>3. Covered /\ AdmissionsPaced
    BY DEF LimitInit, Covered, AdmissionsPaced
<1> QED
    BY <1>1, <1>2, <1>3 DEF LimitInv, LimitInit

\* The arrival time is a number, never earlier than the clock.
LEMMA ExpectedIsANumber ==
    /\ LimitTypes => Expected \in Nat /\ Expected >= tick
    /\ LimitTypes' => Expected' \in Nat /\ Expected' >= tick'
<1>1. LimitTypes => Expected \in Nat /\ Expected >= tick
    BY DEF LimitTypes, Expected, LaterOf
<1>2. LimitTypes' => Expected' \in Nat /\ Expected' >= tick'
    BY DEF LimitTypes, Expected, LaterOf
<1> QED
    BY <1>1, <1>2

\* A step that admits nothing and takes the arrival time no further back keeps the account.
LEMMA NothingAdmitted ==
    ASSUME LimitInv, admitted' = admitted, Expected' \in Nat, Expected' >= Expected
    PROVE  Covered' /\ AdmissionsPaced'
<1>1. Expected \in Nat /\ Len(admitted) \in Nat /\ \A i \in 1 .. Len(admitted) : admitted[i] \in Nat
    BY SMTT(30), ExpectedIsANumber DEF LimitInv, LimitTypes
<1>2. \A i \in 1 .. Len(admitted) : (Len(admitted) - i + 1) * Rate \in Int
    BY <1>1, RateBounds
<1>3. Covered'
    BY <1>1, <1>2 DEF LimitInv, Covered
<1> QED
    BY <1>3 DEF LimitInv, AdmissionsPaced

\* An admitted event moves the arrival time on by its cost, within the burst.
LEMMA OneAdmitted ==
    ASSUME LimitInv, admitted' = Append(admitted, tick), Expected' \in Nat,
           Expected' >= Expected + Rate, tick + (Burst - 1) * Rate >= Expected,
           Expected' >= tick + Rate
    PROVE  Covered' /\ AdmissionsPaced'
<1> DEFINE n == Len(admitted)
<1>1. Expected \in Nat /\ n \in Nat /\ tick \in Nat /\ admitted \in Seq(Nat)
    BY ExpectedIsANumber DEF LimitInv, LimitTypes
<1>2. /\ admitted' \in Seq(Nat) /\ Len(admitted') = n + 1 /\ admitted'[n + 1] = tick
      /\ \A i \in 1 .. n : admitted'[i] = admitted[i] /\ admitted[i] \in Nat
    BY <1>1, Appended
<1> HIDE DEF n
<1>3. ASSUME NEW i \in 1 .. n
      PROVE  Expected >= admitted[i] + (n - i + 1) * Rate /\ (n - i + 1) * Rate \in Nat
             /\ ((n + 1) - i + 1) * Rate = (n - i + 1) * Rate + Rate
    BY <1>1, RateBounds DEF LimitInv, Covered, n
<1>4. Covered'
  <2> SUFFICES ASSUME NEW i \in 1 .. n + 1
               PROVE  Expected' >= admitted'[i] + ((n + 1) - i + 1) * Rate
    BY <1>2 DEF Covered
  <2>1. CASE i \in 1 .. n
    BY SMTT(30), <1>1, <1>2, <1>3, <2>1, RateBounds
  <2>2. CASE i = n + 1
    BY <1>1, <1>2, <2>2, RateBounds
  <2>3. n \in Nat
    BY <1>1
  <2>4. i \in 1 .. n \/ i = n + 1
    BY <2>3
  <2> QED
    BY ZenonT(30), <2>1, <2>2, <2>4
<1>5. AdmissionsPaced'
  <2> SUFFICES ASSUME NEW i \in 1 .. n + 1, NEW j \in 1 .. n + 1, i < j
               PROVE  admitted'[j] + Burst * Rate >= admitted'[i] + (j - i + 1) * Rate
    BY ZenonT(30), <1>2 DEF AdmissionsPaced
  <2>0. n \in Nat
    BY <1>1
  <2>1. i \in 1 .. n /\ (j \in 1 .. n \/ j = n + 1)
    BY <2>0
  <2>2. CASE j \in 1 .. n
    BY <1>2, <2>1, <2>2 DEF LimitInv, AdmissionsPaced, n
  <2>3. CASE j = n + 1
    <3>1. (j - i + 1) * Rate = (n - i + 1) * Rate + Rate
      BY <1>3, <2>1, <2>3
    <3> DEFINE owed == (n - i + 1) * Rate
               tolerance == (Burst - 1) * Rate
    <3>2. /\ owed \in Nat /\ tolerance \in Nat /\ Rate \in Nat /\ tick \in Nat /\ Expected \in Nat
          /\ admitted[i] \in Nat /\ Burst * Rate = tolerance + Rate
          /\ Expected >= admitted[i] + owed /\ tick + tolerance >= Expected
          /\ (j - i + 1) * Rate = owed + Rate /\ admitted'[i] = admitted[i] /\ admitted'[j] = tick
      BY ZenonT(30), <1>1, <1>2, <1>3, <2>1, <2>3, <3>1, RateBounds
    <3> HIDE DEF owed, tolerance
    <3>3. tick + (tolerance + Rate) >= admitted[i] + (owed + Rate)
      BY SMTT(30), <3>2
    <3> QED
      BY SMTT(30), <3>2, <3>3
  <2> QED
    BY ZenonT(30), <2>1, <2>2, <2>3
<1> QED
    BY <1>4, <1>5

\* A call of Allow moves on.
LEMMA CallersMove ==
    ASSUME LimitInv, NEW c \in LimitCallers, NEW r \in Allowing, allowing' = [allowing EXCEPT ![c] = r],
           UNCHANGED <<limiter, tick>>, Len(tats') >= Len(tats), Len(tats') \in Nat,
           r.step = "decide" => r.now <= tick /\ (limiter = "tokenbucket" => r.bucket \in 1 .. Len(tats'))
    PROVE  allowing' \in [LimitCallers -> Allowing] /\ CallsInTime'
<1>1. allowing \in [LimitCallers -> Allowing] /\ Len(tats) \in Nat
    BY DEF LimitInv, LimitTypes
<1>2. /\ allowing' \in [LimitCallers -> Allowing] /\ allowing'[c] = r
      /\ \A d \in LimitCallers : d # c => allowing'[d] = allowing[d]
    BY <1>1
<1>3. \A k : k \in 1 .. Len(tats) => k \in 1 .. Len(tats')
    BY <1>1
<1> QED
    BY <1>2, <1>3 DEF LimitInv, CallsInTime

\* A caller at rest is one of the calls of Allow.
LEMMA RestIsAllowing == NotAllowing \in Allowing /\ NotAllowing.step = "idle"
BY DEF NotAllowing, Allowing

\* Allow reads the clock, and the bucket of its key.
LEMMA BeginAllowKeeps == ASSUME LimitInv, NEW c \in LimitCallers, BeginAllow(c) PROVE LimitInv'
<1> DEFINE new == limiter = "tokenbucket" /\ stored = 0
           bucket == IF new THEN Len(tats) + 1 ELSE stored
           r == [step |-> "decide", now |-> tick, bucket |-> IF limiter = "tokenbucket" THEN bucket ELSE 0]
<1>1. /\ tats' = IF new THEN Append(tats, tick) ELSE tats
      /\ stored' = bucket /\ allowing' = [allowing EXCEPT ![c] = r]
      /\ UNCHANGED <<limiter, tick, keyExpires, admitted>>
    BY DEF BeginAllow
<1>2. tats \in Seq(Nat) /\ Len(tats) \in Nat /\ stored \in 0 .. Len(tats) /\ tick \in Nat
    BY DEF LimitInv, LimitTypes
<1>3. /\ tats' \in Seq(Nat) /\ Len(tats') >= Len(tats) /\ Len(tats') \in Nat
         /\ stored' \in 0 .. Len(tats')
      /\ limiter = "tokenbucket" => stored' \in 1 .. Len(tats')
      /\ new => tats'[stored'] = tick
      /\ ~new => tats' = tats /\ stored' = stored
  <2>1. CASE new
    <3>1. /\ tats' \in Seq(Nat) /\ Len(tats') = Len(tats) + 1 /\ tats'[Len(tats) + 1] = tick
      BY ZenonT(30), <1>1, <1>2, <2>1, Appended
    <3> QED
      BY <1>1, <1>2, <2>1, <3>1
  <2>2. CASE ~new
    BY <1>1, <1>2, <2>2
  <2> QED
    BY <2>1, <2>2
<1>4. r \in Allowing /\ r.now = tick /\ (limiter = "tokenbucket" => r.bucket \in 1 .. Len(tats'))
  <2>1. bucket \in Nat
    BY <1>2
  <2>2. bucket = stored'
    BY <1>1
  <2> HIDE DEF bucket
  <2> QED
    BY <1>2, <1>3, <2>1, <2>2 DEF Allowing
<1> HIDE DEF r
<1>5. allowing' \in [LimitCallers -> Allowing] /\ CallsInTime'
  <2>1. r.now <= tick
    BY <1>2, <1>4
  <2> QED
    BY ZenonT(30), <1>1, <1>3, <1>4, <2>1, CallersMove
<1>6. LimitTypes'
    BY <1>1, <1>3, <1>5 DEF LimitInv, LimitTypes
<1>7. Expected' = Expected
    BY <1>1, <1>2, <1>3 DEF Expected, LaterOf
<1>8. Covered' /\ AdmissionsPaced'
  <2>1. Expected' \in Nat /\ Expected' >= Expected
    BY <1>6, <1>7, ExpectedIsANumber
  <2> QED
    BY <1>1, <2>1, NothingAdmitted
<1>9. limiter' = "redis" /\ stored' # 0 => tats'[stored'] <= keyExpires'
    BY <1>1, <1>3 DEF LimitInv
<1> QED
    BY SMTT(30), <1>5, <1>6, <1>8, <1>9 DEF LimitInv

\* A bucket is evicted, or the key expires, once its arrival time is past.
LEMMA SweepBucketKeeps == ASSUME LimitInv, SweepBucket PROVE LimitInv'
<1>1. /\ UNCHANGED <<limiter, tick, tats, keyExpires, allowing, admitted>> /\ stored # 0 /\ stored' = 0
      /\ IF limiter = "redis" THEN tick >= keyExpires ELSE tats[stored] <= tick
    BY DEF SweepBucket
<1>2. LimitTypes' /\ CallsInTime'
    BY <1>1 DEF LimitInv, LimitTypes, CallsInTime
<1>3. tats[stored] <= tick
  <2>1. tats[stored] \in Nat /\ keyExpires \in Nat /\ tick \in Nat
    BY <1>1 DEF LimitInv, LimitTypes
  <2>2. limiter = "redis" => tats[stored] <= keyExpires
    BY <1>1 DEF LimitInv
  <2> QED
    BY <1>1, <2>1, <2>2
<1>4. Expected' = Expected
  <2>1. tats[stored] \in Nat /\ tick \in Nat
    BY <1>1 DEF LimitInv, LimitTypes
  <2> QED
    BY <1>1, <1>3, <2>1 DEF Expected, LaterOf
<1>5. Expected' \in Nat /\ Expected' >= Expected
    BY <1>2, <1>4, ExpectedIsANumber
<1>6. Covered' /\ AdmissionsPaced'
    BY <1>1, <1>5, NothingAdmitted
<1> QED
    BY <1>1, <1>2, <1>6 DEF LimitInv

\* The clock moves on.
LEMMA LimitTickKeeps == ASSUME LimitInv, LimitTick PROVE LimitInv'
<1>1. UNCHANGED <<limiter, stored, tats, keyExpires, allowing, admitted>> /\ tick' = tick + 1
      /\ tick \in Nat
    BY DEF LimitTick, LimitInv, LimitTypes
<1>2. LimitTypes'
    BY <1>1 DEF LimitInv, LimitTypes
<1>3. CallsInTime'
  <2>1. \A c \in LimitCallers : allowing[c].now \in Nat
    BY DEF LimitInv, LimitTypes, Allowing
  <2>2. \A k \in Nat : k <= tick => k <= tick'
    BY SMTT(30), <1>1
  <2> QED
    BY <1>1, <2>1, <2>2 DEF LimitInv, CallsInTime
<1>4. Expected' \in Nat /\ Expected' >= Expected
  <2>1. stored # 0 => tats[stored] \in Nat
    BY DEF LimitInv, LimitTypes
  <2> QED
    BY <1>1, <1>2, <2>1, ExpectedIsANumber DEF Expected, LaterOf
<1>5. Covered' /\ AdmissionsPaced'
    BY <1>1, <1>4, NothingAdmitted
<1> QED
    BY <1>1, <1>2, <1>3, <1>5 DEF LimitInv

\* The token bucket decides under its lock, with a clock it may have read earlier.
LEMMA DecideTokensKeeps == ASSUME LimitInv, NEW c \in LimitCallers, DecideTokens(c) PROVE LimitInv'
<1> DEFINE b == allowing[c].bucket
           tat == LaterOf(tats[b], tick)
<1>1. /\ limiter = "tokenbucket" /\ DecideOn(b, tick, b = stored)
      /\ allowing' = [allowing EXCEPT ![c] = NotAllowing]
         /\ UNCHANGED <<limiter, tick, stored, keyExpires>>
      /\ allowing[c].step = "decide"
    BY DEF DecideTokens
<1>2. b \in 1 .. Len(tats)
    BY SMTT(30), <1>1 DEF LimitInv, CallsInTime
<1>3. tats \in Seq(Nat) /\ Len(tats) \in Nat /\ stored \in 0 .. Len(tats) /\ tick \in Nat
    BY DEF LimitInv, LimitTypes
<1>4. tats[b] \in Nat /\ tat \in Nat /\ tat >= tick /\ tat >= tats[b]
    BY SMTT(30), <1>2, <1>3 DEF LaterOf
<1>5. CASE ~Allows(tat, tick)
  <2>1. UNCHANGED <<tats, admitted>>
    BY ZenonT(30), <1>1, <1>5 DEF DecideOn
  <2>2. allowing' \in [LimitCallers -> Allowing] /\ CallsInTime'
    <3>1. Len(tats') >= Len(tats) /\ Len(tats') \in Nat
      BY <1>3, <2>1
    <3> QED
      BY ZenonT(30), <1>1, <3>1, CallersMove, RestIsAllowing
  <2> QED
    BY ZenonT(30), <1>1, <2>1, <2>2 DEF LimitInv, LimitTypes, Covered, Expected, AdmissionsPaced
<1>6. CASE Allows(tat, tick)
  <2>1. /\ tats' = [tats EXCEPT ![b] = tat + Rate]
        /\ admitted' = IF b = stored THEN Append(admitted, tick) ELSE admitted
    BY ZenonT(30), <1>1, <1>6 DEF DecideOn
  <2>2. tat + Rate \in Nat
    BY <1>4, RateBounds
  <2> HIDE DEF tat
  <2>3. /\ tats' \in Seq(Nat) /\ Len(tats') = Len(tats) /\ tats'[b] = tat + Rate
        /\ \A i \in 1 .. Len(tats) : i # b => tats'[i] = tats[i]
    BY <1>2, <1>3, <2>1, <2>2, Replaced
  <2>4. allowing' \in [LimitCallers -> Allowing] /\ CallsInTime'
    <3>1. Len(tats') >= Len(tats) /\ Len(tats') \in Nat
      BY <1>3, <2>3
    <3> QED
      BY ZenonT(30), <1>1, <3>1, CallersMove, RestIsAllowing
  <2>5. CASE b = stored
    <3>1. admitted' = Append(admitted, tick) /\ admitted' \in Seq(Nat)
      BY <1>3, <2>1, <2>5, Appended DEF LimitInv, LimitTypes
    <3>2. LimitTypes'
      BY <1>1, <1>3, <2>3, <2>4, <3>1 DEF LimitInv, LimitTypes
    <3>3. Expected = tat /\ Expected' = tat + Rate
      BY SMTT(30), <1>1, <1>2, <1>3, <1>4, <2>3, <2>5, RateBounds DEF Expected, LaterOf, tat
    <3>4. Expected' \in Nat /\ Expected' >= Expected + Rate /\ Expected' >= tick + Rate
      BY <1>3, <1>4, <2>2, <3>3, RateBounds
    <3>5. tick + (Burst - 1) * Rate >= Expected
      BY <1>6, <3>3 DEF Allows
    <3>6. Covered' /\ AdmissionsPaced'
      BY SMTT(30), <3>1, <3>4, <3>5, OneAdmitted
    <3> QED
      BY <1>1, <2>4, <3>2, <3>6 DEF LimitInv
  <2>6. CASE b # stored
    <3>1. admitted' = admitted
      BY SMTT(30), <2>1, <2>6
    <3>2. LimitTypes'
      BY SMTT(30), <1>1, <1>3, <2>3, <2>4, <3>1 DEF LimitInv, LimitTypes
    <3>3. Expected' = Expected
      BY SMTT(30), <1>1, <1>3, <2>3, <2>6 DEF Expected
    <3>4. Expected' \in Nat /\ Expected' >= Expected
      BY <3>2, <3>3, ExpectedIsANumber
    <3>5. Covered' /\ AdmissionsPaced'
      BY <3>1, <3>4, NothingAdmitted
    <3> QED
      BY <1>1, <2>4, <3>2, <3>5 DEF LimitInv
  <2> QED
    BY <2>5, <2>6
<1> QED
    BY <1>5, <1>6

\* GCRA, in memory or in the script, decides on the stored arrival time.
LEMMA DecideGcraKeeps == ASSUME LimitInv, NEW c \in LimitCallers, DecideGcra(c) PROVE LimitInv'
<1> DEFINE time == allowing[c].now
           tat == IF stored = 0 THEN time ELSE LaterOf(tats[stored], time)
<1>1. /\ limiter # "tokenbucket" /\ allowing[c].step = "decide"
      /\ allowing' = [allowing EXCEPT ![c] = NotAllowing] /\ UNCHANGED <<limiter, tick>>
    BY DEF DecideGcra
<1>2. tats \in Seq(Nat) /\ Len(tats) \in Nat /\ stored \in 0 .. Len(tats) /\ tick \in Nat
      /\ keyExpires \in Nat
    BY DEF LimitInv, LimitTypes
<1>3. time \in Nat /\ time <= tick
    BY SMTT(30), <1>1 DEF LimitInv, LimitTypes, CallsInTime, Allowing
<1>4. tat \in Nat /\ tat <= Expected /\ (time = tick => tat = Expected)
      /\ Expected <= LaterOf(tat, tick)
  <2>1. stored # 0 => tats[stored] \in Nat
    BY <1>2
  <2> QED
    BY SMTT(30), <1>2, <1>3, <2>1 DEF Expected, LaterOf
<1>5. CASE ~Allows(tat, time)
  <2>1. UNCHANGED <<tats, stored, keyExpires, admitted>>
    BY <1>5 DEF DecideGcra
  <2>2. allowing' \in [LimitCallers -> Allowing] /\ CallsInTime'
    <3>1. Len(tats') >= Len(tats) /\ Len(tats') \in Nat
      BY <1>2, <2>1
    <3> QED
      BY ZenonT(30), <1>1, <3>1, CallersMove, RestIsAllowing
  <2> QED
    BY <1>1, <2>1, <2>2 DEF LimitInv, LimitTypes, Covered, Expected, AdmissionsPaced
<1>6. CASE Allows(tat, time)
  <2>1. /\ tats' = IF stored = 0 THEN Append(tats, tat + Rate) ELSE [tats EXCEPT ![stored] = tat + Rate]
        /\ stored' = IF stored = 0 THEN Len(tats) + 1 ELSE stored
        /\ keyExpires' = IF limiter = "redis" THEN tick + DebtHorizon ELSE 0
        /\ admitted' = IF time = tick THEN Append(admitted, tick) ELSE admitted
    BY ZenonT(30), <1>6 DEF DecideGcra
  <2>2. time + (Burst - 1) * Rate >= tat
    BY ZenonT(30), <1>6 DEF Allows
  <2>3. tat + Rate \in Nat
    BY <1>4, RateBounds
  <2> HIDE DEF tat, time
  <2>4. /\ tats' \in Seq(Nat) /\ Len(tats') >= Len(tats) /\ Len(tats') \in Nat
        /\ stored' \in 1 .. Len(tats') /\ tats'[stored'] = tat + Rate
    <3>1. CASE stored = 0
      <4>1. /\ tats' \in Seq(Nat) /\ Len(tats') = Len(tats) + 1 /\ tats'[Len(tats) + 1] = tat + Rate
        BY SMTT(30), <1>2, <2>1, <2>3, <3>1, Appended
      <4> QED
        BY SMTT(30), <1>2, <2>1, <3>1, <4>1
    <3>2. CASE stored # 0
      <4>1. stored \in 1 .. Len(tats)
        BY <1>2, <3>2
      <4>2. /\ tats' \in Seq(Nat) /\ Len(tats') = Len(tats) /\ tats'[stored] = tat + Rate
        BY SMTT(30), <1>2, <2>1, <2>3, <3>2, <4>1, Replaced
      <4> QED
        BY <1>2, <2>1, <3>2, <4>1, <4>2
    <3> QED
      BY <3>1, <3>2
  <2>5. allowing' \in [LimitCallers -> Allowing] /\ CallsInTime'
    BY ZenonT(30), <1>1, <2>4, CallersMove, RestIsAllowing
  <2>6. admitted' \in Seq(Nat)
    BY ZenonT(30), <1>2, <2>1, Appended DEF LimitInv, LimitTypes
  <2>7. keyExpires' \in Nat /\ (limiter = "redis" => tat + Rate <= keyExpires')
    <3> DEFINE tolerance == (Burst - 1) * Rate
    <3>1. tolerance \in Nat /\ DebtHorizon = tolerance + Rate /\ time + tolerance >= tat /\ Rate \in Nat
      BY <2>2, RateBounds DEF DebtHorizon
    <3> HIDE DEF tolerance
    <3> QED
      BY <1>2, <1>3, <1>4, <2>1, <3>1 DEF time
  <2>8. LimitTypes'
    BY SMTT(30), <1>1, <2>4, <2>5, <2>6, <2>7 DEF LimitInv, LimitTypes
  <2>9. Expected' = LaterOf(tat + Rate, tick)
    BY <1>1, <2>4 DEF Expected
  <2>10. Covered' /\ AdmissionsPaced'
    <3>1. CASE time = tick
      <4>1. tat = Expected /\ Expected \in Nat /\ Expected >= tick
        BY ZenonT(30), <1>4, <3>1, ExpectedIsANumber DEF LimitInv, tat, time
      <4>2. Expected' \in Nat /\ Expected' >= Expected + Rate /\ Expected' >= tick + Rate
        BY SMTT(30), <1>2, <2>9, <4>1, RateBounds DEF LaterOf
      <4>3. tick + (Burst - 1) * Rate >= Expected
        BY <2>2, <3>1, <4>1
      <4>4. admitted' = Append(admitted, tick)
        BY <2>1, <3>1
      <4> QED
        BY <4>2, <4>3, <4>4, OneAdmitted
    <3>2. CASE time # tick
      <4>1. tat \in Nat /\ Expected <= LaterOf(tat, tick) /\ Expected \in Nat
        BY ZenonT(30), <1>4, ExpectedIsANumber DEF LimitInv, tat, time
      <4>2. Expected' \in Nat /\ Expected' >= Expected
        BY <1>2, <2>9, <4>1, RateBounds DEF LaterOf
      <4>3. admitted' = admitted
        BY <2>1, <3>2
      <4> QED
        BY <4>2, <4>3, NothingAdmitted
    <3> QED
      BY <3>1, <3>2
  <2> QED
    BY <1>1, <2>4, <2>5, <2>7, <2>8, <2>10 DEF LimitInv
<1> QED
    BY SMTT(30), <1>5, <1>6

\* Every step of a limiter keeps the invariant.
LEMMA LimitStep == LimitInv /\ [LimitNext]_limitVars => LimitInv'
<1> SUFFICES ASSUME LimitInv, [LimitNext]_limitVars PROVE LimitInv'
    OBVIOUS
<1>1. CASE \E c \in LimitCallers : BeginAllow(c) \/ DecideTokens(c) \/ DecideGcra(c)
    BY <1>1, BeginAllowKeeps, DecideTokensKeeps, DecideGcraKeeps
<1>2. CASE SweepBucket \/ LimitTick
    BY <1>2, SweepBucketKeeps, LimitTickKeeps
<1>3. CASE UNCHANGED limitVars
    BY ZenonT(30), <1>3 DEF limitVars, LimitInv, LimitTypes, CallsInTime, Covered, Expected,
        AdmissionsPaced
<1> QED
    BY <1>1, <1>2, <1>3 DEF LimitNext

\* Over any stretch of time the limiters admit what the rate and one burst allow, with
\* stale clocks, buckets evicted under a call and keys that expire.
THEOREM RatesHold == LimitSpec => []AdmissionsPaced
<1>1. LimitInv => AdmissionsPaced
    BY Zenon DEF LimitInv
<1> QED
    BY LimitStarts, LimitStep, <1>1, PTL DEF LimitSpec

-------------------------------------------------------------------------------
(*****************************************************************************)
(* httpx/middleware/ratelimit: the counter covers what was admitted.         *)
(*****************************************************************************)

\* The types of the window limiters.
WindowTypes ==
    /\ kind \in {"keyed", "ip"} /\ halfSecond \in Nat /\ windows \in 0 .. MaxWindows
    /\ visitor \in [window : Nat, count : Nat, end : Nat]
    /\ admits \in [1 .. MaxWindows -> 0 .. WindowMax]
    /\ asking \in [Requesters -> Nat]
    /\ waits \in [Requesters -> [window : Nat, at : Nat]]

\* Windows are numbered as they open.
WindowsNumbered ==
    /\ visitor.window <= windows
    /\ \A c \in Requesters : waits[c].window <= windows

\* The counter covers what the window admitted.
CountsCover == visitor.window # 0 => admits[visitor.window] <= visitor.count

\* The inductive invariant of the window limiters.
WindowInv == WindowTypes /\ WindowsNumbered /\ CountsCover /\ WindowKeepsItsWord

\* The bounds of a window are numbers.
LEMMA WindowBounds == WindowMax \in Nat /\ WindowTicks \in Nat /\ MaxHalfSecond \in Nat
    /\ MaxWindows \in Nat
BY WindowAssumption

\* The larger of 1 and a number.
LEMMA MaxOfOne ==
    ASSUME NEW x \in Int
    PROVE  Max({1, x}) \in {1, x} /\ Max({1, x}) >= x /\ Max({1, x}) >= 1
<1>1. \E m \in {1, x} : \A y \in {1, x} : m >= y
    BY x >= 1 \/ 1 >= x
<1>2. Max({1, x}) \in {1, x} /\ \A y \in {1, x} : Max({1, x}) >= y
    BY Zenon, <1>1 DEF Max
<1> QED
    BY <1>2

\* Retry-After, rounded up to whole seconds, reaches the end of the window.
LEMMA RetryCovers ==
    ASSUME NEW time \in Nat, visitor.end \in Nat
    PROVE  time + 2 * RetryAfter(time) \in Nat /\ time + 2 * RetryAfter(time) >= visitor.end
<1> DEFINE half == (visitor.end - time + 1) \div 2
<1>1. half \in Int /\ 2 * half >= visitor.end - time
    OBVIOUS
<1> HIDE DEF half
<1>2. RetryAfter(time) = Max({1, half})
    BY DEF RetryAfter, half
<1>3. RetryAfter(time) \in Int /\ RetryAfter(time) >= half /\ RetryAfter(time) >= 1
    BY <1>1, <1>2, MaxOfOne
<1> QED
    BY <1>1, <1>3

\* A limiter starts without a window.
LEMMA WindowStarts == WindowInit => WindowInv
<1> SUFFICES ASSUME WindowInit PROVE WindowInv
    OBVIOUS
<1>1. WindowTypes
    BY SMTT(30), WindowBounds DEF WindowInit, WindowTypes, NoWindow, NotAsking
<1>2. WindowsNumbered /\ CountsCover /\ WindowKeepsItsWord
    BY DEF WindowInit, WindowsNumbered, CountsCover, WindowKeepsItsWord, NoWindow
<1> QED
    BY SMTT(30), <1>1, <1>2 DEF WindowInv

\* A request is counted in the window it falls into.
LEMMA TakeKeeps == ASSUME WindowInv, NEW c \in Requesters, NEW n \in 1 .. WindowMax, Take(c, n)
    PROVE WindowInv'
<1> DEFINE time == IF kind = "ip" THEN halfSecond ELSE asking[c]
           v == visitor
<1>1. /\ time \in Nat /\ v \in [window : Nat, count : Nat, end : Nat] /\ windows \in Nat
         /\ windows <= MaxWindows
      /\ v.window \in 0 .. windows /\ v.count \in Nat /\ v.end \in Nat /\ n \in Nat /\ n <= WindowMax
      /\ admits \in [1 .. MaxWindows -> 0 .. WindowMax]
         /\ waits \in [Requesters -> [window : Nat, at : Nat]]
  <2>1. time \in Nat
    BY DEF WindowInv, WindowTypes
  <2> QED
    BY <2>1, WindowBounds DEF WindowInv, WindowTypes, WindowsNumbered
<1>2. UNCHANGED <<kind, halfSecond>> /\ asking' \in [Requesters -> Nat]
  <2>1. NotAsking \in Nat /\ asking' = [asking EXCEPT ![c] = NotAsking]
    BY WindowBounds DEF Take, NotAsking
  <2> QED
    BY <2>1 DEF Take, WindowInv, WindowTypes
<1> HIDE DEF time
<1>3. CASE OpenWindow(time, n)
  <2> DEFINE w == [window |-> windows + 1, count |-> n, end |-> time + WindowTicks]
  <2>1. /\ visitor' = w /\ windows' = windows + 1 /\ windows < MaxWindows /\ waits' = waits
        /\ admits' = [admits EXCEPT ![windows + 1] = n]
    BY SMTT(30), <1>3 DEF OpenWindow
  <2>2. w \in [window : Nat, count : Nat, end : Nat] /\ w.window = windows + 1 /\ w.count = n
    BY <1>1, WindowBounds
  <2> HIDE DEF w
  <2>3. windows' \in 0 .. MaxWindows /\ windows + 1 \in 1 .. MaxWindows /\ n \in 0 .. WindowMax
    BY SMTT(30), <1>1, <2>1, WindowBounds
  <2>4. /\ admits' \in [1 .. MaxWindows -> 0 .. WindowMax] /\ admits'[windows + 1] = n
    BY <1>1, <2>1, <2>3
  <2>5. WindowTypes'
    BY ZenonT(30), <1>1, <1>2, <2>1, <2>2, <2>3, <2>4 DEF WindowInv, WindowTypes
  <2>6. \A d \in Requesters : waits[d].window \in Nat /\ waits[d].window <= windows
    BY SMTT(30), <1>1 DEF WindowInv, WindowsNumbered
  <2>7. WindowsNumbered'
    BY SMTT(30), <1>1, <2>1, <2>2, <2>6 DEF WindowsNumbered
  <2>8. CountsCover'
    BY <1>1, <2>1, <2>2, <2>4 DEF CountsCover
  <2>9. WindowKeepsItsWord'
    <3>1. \A k \in 1 .. windows' : admits'[k] <= WindowMax
      BY SMTT(30), <2>3, <2>4, WindowBounds
    <3>2. \A d \in Requesters : waits'[d].window # visitor'.window
      BY SMTT(30), <1>1, <2>1, <2>2, <2>6
    <3> QED
      BY ZenonT(30), <3>1, <3>2 DEF WindowKeepsItsWord
  <2> QED
    BY SMTT(30), <2>5, <2>7, <2>8, <2>9 DEF WindowInv
<1>4. CASE /\ ~Opens(time) /\ Fits(n)
           /\ visitor' = [visitor EXCEPT !.count = @ + n]
           /\ admits' = [admits EXCEPT ![visitor.window] = @ + n] /\ UNCHANGED <<windows, waits>>
  <2>1. v.window \in 1 .. MaxWindows /\ v.window # 0
    BY <1>1, <1>4, WindowBounds DEF Opens
  <2>2. visitor' = [v EXCEPT !.count = v.count + n]
        /\ admits' = [admits EXCEPT ![v.window] = admits[v.window] + n]
    BY <1>4
  <2>3. /\ visitor' \in [window : Nat, count : Nat, end : Nat] /\ visitor'.window = v.window
        /\ visitor'.count = v.count + n /\ visitor'.end = v.end
    BY SMTT(30), <1>1, <2>2
  <2>4. admits[v.window] \in 0 .. WindowMax /\ admits[v.window] <= v.count /\ v.count + n <= WindowMax
    BY <1>1, <1>4, <2>1 DEF WindowInv, CountsCover, Fits
  <2>5. admits[v.window] + n \in 0 .. WindowMax /\ admits[v.window] + n <= v.count + n
    BY SMTT(30), <1>1, <2>4, WindowBounds
  <2>6. admits' \in [1 .. MaxWindows -> 0 .. WindowMax] /\ admits'[v.window] = admits[v.window] + n
    BY <1>1, <2>1, <2>2, <2>5
  <2>7. WindowTypes' /\ WindowsNumbered'
    BY ZenonT(30), <1>2, <1>4, <2>3, <2>6 DEF WindowInv, WindowTypes, WindowsNumbered
  <2>8. CountsCover'
    BY <2>3, <2>5, <2>6 DEF CountsCover
  <2>9. WindowKeepsItsWord'
    <3>1. \A k \in 1 .. windows : admits'[k] <= WindowMax
      BY <1>1, <2>6, WindowBounds
    <3> QED
      BY <1>4, <2>3, <3>1 DEF WindowInv, WindowKeepsItsWord
  <2> QED
    BY <2>7, <2>8, <2>9 DEF WindowInv
<1>5. CASE /\ ~Opens(time) /\ ~Fits(n)
           /\ visitor' = Refused(time, n)
           /\ waits' = [waits EXCEPT ![c] = [window |-> visitor.window, at |-> time + 2 * RetryAfter(time)]]
           /\ UNCHANGED <<windows, admits>>
  <2> DEFINE late == time + 2 * RetryAfter(time)
             wait == [window |-> v.window, at |-> late]
  <2>1. late \in Nat /\ late >= v.end
    BY ZenonT(30), <1>1, RetryCovers
  <2> HIDE DEF late
  <2>2. wait \in [window : Nat, at : Nat] /\ wait.window = v.window /\ wait.at = late
    BY <1>1, <2>1
  <2>3. waits' = [waits EXCEPT ![c] = wait]
    BY ZenonT(30), <1>5 DEF late
  <2> HIDE DEF wait
  <2>4. /\ waits' \in [Requesters -> [window : Nat, at : Nat]] /\ waits'[c] = wait
        /\ \A d \in Requesters : d # c => waits'[d] = waits[d]
    BY <1>1, <2>2, <2>3
  <2>5. /\ visitor' \in [window : Nat, count : Nat, end : Nat] /\ visitor'.window = v.window
        /\ visitor'.count >= v.count /\ visitor'.end = v.end /\ visitor'.count \in Nat
    <3>1. CASE visitor' = v
      BY <1>1, <3>1
    <3>2. CASE visitor' = [v EXCEPT !.count = v.count + n]
      BY SMTT(30), <1>1, <3>2
    <3> QED
      BY <1>5, <3>1, <3>2 DEF Refused
  <2>6. WindowTypes'
    BY ZenonT(30), <1>2, <1>5, <2>4, <2>5 DEF WindowInv, WindowTypes
  <2>7. WindowsNumbered'
    BY ZenonT(30), <1>1, <1>5, <2>2, <2>4, <2>5 DEF WindowInv, WindowsNumbered
  <2>8. CountsCover'
    <3>1. v.window # 0 => admits[v.window] \in Nat /\ admits[v.window] <= v.count
      BY <1>1, WindowBounds DEF WindowInv, CountsCover
    <3> QED
      BY <1>1, <1>5, <2>5, <3>1 DEF CountsCover
  <2>9. WindowKeepsItsWord'
    BY ZenonT(30), <1>5, <2>1, <2>2, <2>4, <2>5 DEF WindowInv, WindowKeepsItsWord
  <2> QED
    BY <2>6, <2>7, <2>8, <2>9 DEF WindowInv
<1> QED
    BY SMTT(30), <1>3, <1>4, <1>5 DEF Take, time

\* Every step of the window limiters keeps the invariant.
LEMMA WindowStep == WindowInv /\ [WindowNext]_windowVars => WindowInv'
<1> SUFFICES ASSUME WindowInv, [WindowNext]_windowVars PROVE WindowInv'
    OBVIOUS
<1>1. ASSUME NEW c \in Requesters, ReadWindowClock(c) PROVE WindowInv'
    BY ZenonT(30), <1>1 DEF ReadWindowClock, WindowInv, WindowTypes, WindowsNumbered, CountsCover,
        WindowKeepsItsWord
<1>2. ASSUME CleanUp \/ Evict PROVE WindowInv'
  <2>1. UNCHANGED <<kind, halfSecond, windows, admits, asking, waits>> /\ visitor' = NoWindow
    BY <1>2 DEF CleanUp, Evict
  <2>2. NoWindow \in [window : Nat, count : Nat, end : Nat] /\ NoWindow.window = 0
    BY DEF NoWindow
  <2>3. WindowTypes' /\ CountsCover' /\ WindowKeepsItsWord'
    BY ZenonT(30), <2>1, <2>2 DEF WindowInv, WindowTypes, CountsCover, WindowKeepsItsWord
  <2>4. WindowsNumbered'
    BY SMTT(30), <2>1, <2>2 DEF WindowInv, WindowTypes, WindowsNumbered
  <2> QED
    BY <2>3, <2>4 DEF WindowInv
<1>3. ASSUME WindowTick PROVE WindowInv'
    BY <1>3 DEF WindowTick, WindowInv, WindowTypes, WindowsNumbered, CountsCover, WindowKeepsItsWord
<1>4. CASE UNCHANGED windowVars
    BY ZenonT(30), <1>4 DEF windowVars, WindowInv, WindowTypes, WindowsNumbered, CountsCover,
        WindowKeepsItsWord
<1> QED
    BY <1>1, <1>2, <1>3, <1>4, TakeKeeps DEF WindowNext

\* A window admits no more than its maximum, and a caller that waits as Retry-After says
\* does not meet the window that refused it.
THEOREM WindowsHold == WindowSpec => []WindowKeepsItsWord
<1>1. WindowInv => WindowKeepsItsWord
    BY Zenon DEF WindowInv
<1> QED
    BY WindowStarts, WindowStep, <1>1, PTL DEF WindowSpec

-------------------------------------------------------------------------------

\* Every limit holds: budgets per period, admissions per stretch of time and per window,
\* whatever is swept, expires, is refunded or evicted in between.
THEOREM EveryLimitHolds == BudgetSpec /\ LimitSpec /\ WindowSpec => []LimitsHold
<1>1. BudgetWithinCap /\ AdmissionsPaced /\ WindowKeepsItsWord => LimitsHold
    BY Zenon DEF LimitsHold
<1> QED
    BY BudgetHolds, RatesHold, WindowsHold, <1>1, PTL

===============================================================================
