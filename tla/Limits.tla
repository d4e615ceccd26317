-------------------------------- MODULE Limits --------------------------------
(***************************************************************************)
(* What a key may spend and how often it may call: data/budget,            *)
(* data/ratelimit and httpx/middleware/ratelimit.                          *)
(***************************************************************************)
EXTENDS Integers, Sequences, FiniteSetsExt

-------------------------------------------------------------------------------
(***************************************************************************)
(* data/budget for one key: Consume, Refund and the sweeper of the memory  *)
(* budget, and the scripts of the Redis budget, whose counters are keyed   *)
(* by period.  A caller reads the clock before it holds the bucket.        *)
(***************************************************************************)

CONSTANTS Spenders, Cap, MaxPeriod, MaxBuckets

ASSUME BudgetAssumption == {Cap, MaxPeriod, MaxBuckets} \subseteq Nat \ {0}

VARIABLES
    backend,    \* "memory" or "redis", fixed at the start
    now,        \* the period the clock is in
    buckets,    \* every bucket ever made: [period, used]
    mapped,     \* the bucket in the sync.Map (0: none)
    counter,    \* Redis: the counter of every period and when its TTL was last set
    spender,    \* per caller: its step, period, amount and bucket
    sweepAt,    \* the period the sweeper read (-1: not sweeping)
    net,        \* per period: admitted less refunded charges
    lateCharges        \* periods that a charge read before their end touched after it

budgetState == <<backend, now, buckets, mapped, counter, spender, sweepAt, net, lateCharges>>
budgetVars == budgetState

Periods == 0 .. MaxPeriod

\* Bound on the charges of a period.
MaxNet == 3 * Cap

Idle == [step |-> "idle", period |-> 0, amount |-> 0, bucket |-> 0]

BudgetTypeOK ==
    /\ backend \in {"memory", "redis"} /\ now \in Periods
    /\ buckets \in Seq([period : Periods, used : 0 .. Cap]) /\ mapped \in 0 .. MaxBuckets
    /\ counter \in [Periods -> [used : 0 .. Cap, touched : Periods]]
    /\ spender \in [Spenders -> [step : {"idle", "load", "lock", "charged"}, period : Periods,
                                 amount : 0 .. Cap + 1, bucket : 0 .. MaxBuckets]]
    /\ sweepAt \in -1 .. MaxPeriod /\ net \in [Periods -> 0 .. MaxNet] /\ lateCharges \subseteq Periods

BudgetInit ==
    /\ backend \in {"memory", "redis"} /\ now = 0 /\ buckets = <<>> /\ mapped = 0
    /\ counter = [p \in Periods |-> [used |-> 0, touched |-> 0]] /\ sweepAt = -1 /\ lateCharges = {}
    /\ spender = [c \in Spenders |-> Idle]
    /\ net = [p \in Periods |-> 0]

\* Consume reads the clock, and with it the period, once.
ReadClock(c) ==
    /\ spender[c].step = "idle"
    /\ \E n \in 1 .. Cap + 1 :
           spender' = [spender EXCEPT ![c] = [step |-> "load", period |-> now,
                                              amount |-> n, bucket |-> 0]]
    /\ UNCHANGED <<backend, now, buckets, mapped, counter, sweepAt, net, lateCharges>>

\* loadOrInitBucket.
LoadBucket(c) ==
    /\ backend = "memory" /\ spender[c].step = "load"
    /\ mapped # 0 \/ Len(buckets) < MaxBuckets
    /\ buckets' = IF mapped # 0 THEN buckets
                  ELSE Append(buckets, [period |-> spender[c].period, used |-> 0])
    /\ mapped' = IF mapped # 0 THEN mapped ELSE Len(buckets) + 1
    /\ spender' = [spender EXCEPT ![c].step = "lock", ![c].bucket = mapped']
    /\ UNCHANGED <<backend, now, counter, sweepAt, net, lateCharges>>

\* Fault model of Consume: a bucket that the sweeper evicted is charged too.
AnyBucket(b) == TRUE

\* With the bucket's mutex held, the bucket must still be the one in the map.
Live(b) == b = mapped

\* The answer of Consume; lateCharges remembers that the clock moved past the caller's period.
Answer(c, fits, p, touched) ==
    /\ spender' = [spender EXCEPT ![c] =
                       IF fits THEN [@ EXCEPT !.step = "charged", !.bucket = 0] ELSE Idle]
    /\ net' = [net EXCEPT ![p] = @ + IF fits THEN spender[c].amount ELSE 0]
    /\ net'[p] <= MaxNet
    /\ lateCharges' = IF p < now THEN lateCharges \cup touched ELSE lateCharges

\* Consume under the mutex: reload when the bucket was evicted; roll the bucket to the
\* caller's period when they differ; charge when the amount fits.
Charge(c) ==
    LET s == spender[c]
        b == buckets[s.bucket]
        used == IF b.period = s.period THEN b.used ELSE 0
        fits == s.amount <= Cap - used
    IN  /\ backend = "memory" /\ s.step = "lock"
        /\ \/ /\ ~Live(s.bucket)
              /\ spender' = [spender EXCEPT ![c].step = "load"]
              /\ UNCHANGED <<buckets, net, lateCharges>>
           \/ /\ Live(s.bucket)
              /\ buckets' = [buckets EXCEPT ![s.bucket] =
                     [period |-> s.period, used |-> IF fits THEN used + s.amount ELSE used]]
              /\ Answer(c, fits, s.period, {s.period, b.period})
        /\ UNCHANGED <<backend, now, mapped, counter, sweepAt>>

\* budgetScript, one step of Redis; an amount above the cap only peeks.
Script(c) ==
    LET s == spender[c]
        used == counter[s.period].used
        fits == s.amount <= Cap - used
    IN  /\ backend = "redis" /\ s.step = "load"
        /\ counter' = [counter EXCEPT ![s.period] =
               IF fits THEN [used |-> used + s.amount, touched |-> now]
               ELSE IF used > 0 THEN [used |-> used, touched |-> now] ELSE @]
        /\ Answer(c, fits, s.period, {s.period})
        /\ UNCHANGED <<backend, now, buckets, mapped, sweepAt>>

Less(used, n) == IF used > n THEN used - n ELSE 0

\* Fault model of Refund: the refund is credited to the period the bucket is in.
RefundsAny(b, p) == TRUE

\* Refund credits the period of the charge and no other.
Refundable(b, p) == b.period = p

\* Refund of an admitted charge, in full, under the mutex of the live bucket or by
\* refundScript.  A bucket that was evicted or has rolled on is left alone.
Refund(c) ==
    LET s == spender[c]
    IN  /\ s.step = "charged" /\ net[s.period] >= s.amount
        /\ spender' = [spender EXCEPT ![c] = Idle]
        /\ net' = [net EXCEPT ![s.period] = @ - s.amount]
        /\ buckets' = IF backend = "memory" /\ mapped # 0 /\ Refundable(buckets[mapped], s.period)
                      THEN [buckets EXCEPT ![mapped].used = Less(@, s.amount)] ELSE buckets
        /\ counter' = IF backend = "redis"
                      THEN [counter EXCEPT ![s.period].used = Less(@, s.amount)] ELSE counter
        /\ UNCHANGED <<backend, now, mapped, sweepAt, lateCharges>>

\* The charge stands.
Keep(c) ==
    /\ spender[c].step = "charged" /\ spender' = [spender EXCEPT ![c] = Idle]
    /\ UNCHANGED <<backend, now, buckets, mapped, counter, sweepAt, net, lateCharges>>

\* sweep reads the clock once and then deletes an old bucket under its mutex.
BeginSweep ==
    /\ backend = "memory" /\ sweepAt = -1 /\ sweepAt' = now
    /\ UNCHANGED <<backend, now, buckets, mapped, counter, spender, net, lateCharges>>

Sweep ==
    /\ sweepAt # -1 /\ sweepAt' = -1
    /\ mapped' = IF mapped # 0 /\ buckets[mapped].period < sweepAt THEN 0 ELSE mapped
    /\ UNCHANGED <<backend, now, buckets, counter, spender, net, lateCharges>>

\* The key's TTL is at least a period from its last use.
ExpireKey(p) ==
    /\ backend = "redis" /\ counter[p].used # 0 /\ counter[p].touched < now
    /\ counter' = [counter EXCEPT ![p] = [used |-> 0, touched |-> 0]]
    /\ UNCHANGED <<backend, now, buckets, mapped, spender, sweepAt, net, lateCharges>>

NextPeriod ==
    /\ now < MaxPeriod /\ now' = now + 1
    /\ UNCHANGED <<backend, buckets, mapped, counter, spender, sweepAt, net, lateCharges>>

BudgetNext ==
    \/ \E c \in Spenders : ReadClock(c) \/ LoadBucket(c) \/ Charge(c) \/ Script(c)
                           \/ Refund(c) \/ Keep(c)
    \/ BeginSweep \/ Sweep \/ NextPeriod \/ \E p \in Periods : ExpireKey(p)

BudgetSpec == BudgetInit /\ [][BudgetNext]_budgetVars

-------------------------------------------------------------------------------
\* The charges admitted in a period and not refunded stay within the cap, whatever the
\* sweeper evicts and whoever refunds, as long as every caller gets the bucket in the
\* period it read.
BudgetWithinCap == \A p \in Periods \ lateCharges : net[p] <= Cap

\* data/budget/budget.go bounds what a boundary can cost: "the worst case is 2x the
\* per-period cap, which is still bounded".
BoundaryAtMostDoubles == \A p \in Periods : net[p] <= 2 * Cap

-------------------------------------------------------------------------------
(***************************************************************************)
(* data/ratelimit: the three limiters on one key.  A bucket is kept as its *)
(* theoretical arrival time: a token bucket of capacity Burst that refills *)
(* one token per Rate admits exactly when GCRA with that burst does.       *)
(***************************************************************************)

CONSTANTS LimitCallers, Rate, Burst, MaxTick

ASSUME RateAssumption == Rate \in Nat \ {0} /\ Burst \in Nat \ {0}

VARIABLES
    limiter,    \* "tokenbucket", "gcra" or "redis"
    tick,       \* the clock
    stored,     \* the number of the key's bucket in the map (0: none)
    tats,       \* per bucket ever made: its theoretical arrival time
    keyExpires,    \* redis: when the key expires
    allowing,   \* per caller: its call of Allow
    admitted    \* the times of the decisions that allowed an event

limitVars == <<limiter, tick, stored, tats, keyExpires, allowing, admitted>>

LimitBuckets == 3
NotAllowing == [step |-> "idle", now |-> 0, bucket |-> 0]

LimitTypeOK ==
    /\ limiter \in {"tokenbucket", "gcra", "redis"} /\ tick \in 0 .. MaxTick
    /\ Len(tats) <= LimitBuckets /\ stored \in 0 .. Len(tats)
    /\ \A c \in LimitCallers : allowing[c].step \in {"idle", "decide"} /\ allowing[c].bucket <= Len(tats)
    /\ \A i \in 1 .. Len(admitted) : admitted[i] <= tick

LimitInit ==
    /\ limiter \in {"tokenbucket", "gcra", "redis"} /\ tick = 0 /\ stored = 0 /\ tats = <<>>
    /\ keyExpires = 0 /\ allowing = [c \in LimitCallers |-> NotAllowing] /\ admitted = <<>>

\* tokenbucket.Allow finds or makes the bucket under the map's lock and decides after it
\* gave the lock back; the other two read the clock first.
BeginAllow(c) ==
    /\ allowing[c].step = "idle"
    /\ LET new == limiter = "tokenbucket" /\ stored = 0
           bucket == IF new THEN Len(tats) + 1 ELSE stored
       IN  /\ new => Len(tats) < LimitBuckets
           /\ tats' = IF new THEN Append(tats, tick) ELSE tats
           /\ stored' = bucket
           /\ allowing' = [allowing EXCEPT ![c] = [step |-> "decide", now |-> tick,
                               bucket |-> IF limiter = "tokenbucket" THEN bucket ELSE 0]]
    /\ UNCHANGED <<limiter, tick, keyExpires, admitted>>

LaterOf(x, y) == IF x > y THEN x ELSE y

\* Fault model of the burst tolerance: one event more.
AllowsOneMore(tat, time) == time + Burst * Rate >= tat

\* allowAt = tat - (burst - 1) * rate.
Allows(tat, time) == time + (Burst - 1) * Rate >= tat

\* A decision on an old clock or on a bucket that was swept is not counted in admitted.
DecideOn(bucket, time, counts) ==
    LET tat == LaterOf(tats[bucket], time)
    IN  IF Allows(tat, time)
        THEN /\ tats' = [tats EXCEPT ![bucket] = tat + Rate]
             /\ admitted' = IF counts THEN Append(admitted, tick) ELSE admitted
        ELSE UNCHANGED <<tats, admitted>>

DecideTokens(c) ==
    /\ limiter = "tokenbucket" /\ allowing[c].step = "decide"
    /\ DecideOn(allowing[c].bucket, tick, allowing[c].bucket = stored)
    /\ allowing' = [allowing EXCEPT ![c] = NotAllowing]
    /\ UNCHANGED <<limiter, tick, stored, keyExpires>>

\* Fault model of the key's TTL: it covers one event, not the debt of a full burst.
OneEventTTL == Rate

\* debtHorizon: the TTL that New requires at least.
DebtHorizon == Burst * Rate

\* The shard's lock, or the script: look up, decide and store in one step.
DecideGcra(c) ==
    LET time == allowing[c].now
        fresh == stored = 0
        tat == IF fresh THEN time ELSE LaterOf(tats[stored], time)
    IN  /\ limiter # "tokenbucket" /\ allowing[c].step = "decide"
        /\ fresh => Len(tats) < LimitBuckets
        /\ IF Allows(tat, time)
           THEN /\ tats' = IF fresh THEN Append(tats, tat + Rate) ELSE [tats EXCEPT ![stored] = tat + Rate]
                /\ stored' = IF fresh THEN Len(tats) + 1 ELSE stored
                /\ keyExpires' = IF limiter = "redis" THEN tick + DebtHorizon ELSE 0
                /\ admitted' = IF time = tick THEN Append(admitted, tick) ELSE admitted
           ELSE UNCHANGED <<tats, stored, keyExpires, admitted>>
        /\ allowing' = [allowing EXCEPT ![c] = NotAllowing]
        /\ UNCHANGED <<limiter, tick>>

\* sweep and ensureRoomLocked drop a bucket that is full, or a key whose arrival time has
\* passed; Redis expires the key.
SweepBucket ==
    /\ stored # 0 /\ stored' = 0
    /\ IF limiter = "redis" THEN tick >= keyExpires ELSE tats[stored] <= tick
    /\ UNCHANGED <<limiter, tick, tats, keyExpires, allowing, admitted>>

LimitTick ==
    /\ tick < MaxTick /\ tick' = tick + 1
    /\ UNCHANGED <<limiter, stored, tats, keyExpires, allowing, admitted>>

LimitNext ==
    \/ \E c \in LimitCallers : BeginAllow(c) \/ DecideTokens(c) \/ DecideGcra(c)
    \/ SweepBucket \/ LimitTick

LimitSpec == LimitInit /\ [][LimitNext]_limitVars

-------------------------------------------------------------------------------
\* The events a limiter admits are paced: n of them take at least n - Burst intervals, over
\* any stretch of time, whatever was swept or expired in between.
AdmissionsPaced ==
    \A i, j \in 1 .. Len(admitted) :
        i < j => admitted[j] + Burst * Rate >= admitted[i] + (j - i + 1) * Rate

\* gcra.go and redis.go: New "allows up to `burst` events within any `period` duration",
\* where the rate is period / burst.
BurstPerPeriod ==
    \A i, j \in 1 .. Len(admitted) :
        i < j /\ admitted[j] < admitted[i] + Burst * Rate => j - i + 1 <= Burst

-------------------------------------------------------------------------------
(***************************************************************************)
(* httpx/middleware/ratelimit: the fixed windows of the keyed and of the   *)
(* IP limiter, on one key.  The clock ticks twice a second; what a refused *)
(* request is told to wait is in whole seconds.  A window has a number, so *)
(* that requests can be counted per window.                                *)
(***************************************************************************)

CONSTANTS Requesters, WindowMax, WindowTicks, MaxHalfSecond, MaxWindows

ASSUME WindowAssumption ==
    /\ WindowMax \in Nat \ {0} /\ WindowTicks \in Nat \ {0}
    /\ MaxHalfSecond \in Nat /\ MaxWindows \in Nat

VARIABLES
    kind,       \* "keyed" or "ip"
    halfSecond, \* the clock
    visitor,    \* the key's entry in the shard's LRU (number 0: none)
    windows,    \* how many windows there were
    admits,     \* per window: what it admitted
    asking,     \* per requester: the clock it has read before the shard's lock
    waits       \* per requester: the window that refused it and when to come back

windowVars == <<kind, halfSecond, visitor, windows, admits, asking, waits>>

NoWindow == [window |-> 0, count |-> 0, end |-> 0]
NotAsking == MaxHalfSecond + 1

WindowTypeOK ==
    /\ kind \in {"keyed", "ip"} /\ halfSecond \in 0 .. MaxHalfSecond /\ windows \in 0 .. MaxWindows
    /\ visitor.window \in 0 .. windows /\ visitor.end <= MaxHalfSecond + WindowTicks
    /\ admits \in [1 .. MaxWindows -> 0 .. WindowMax + 1]
    /\ asking \in [Requesters -> 0 .. NotAsking]
    /\ \A c \in Requesters : waits[c].window \in 0 .. windows

WindowInit ==
    /\ kind \in {"keyed", "ip"} /\ halfSecond = 0 /\ visitor = NoWindow /\ windows = 0
    /\ admits = [w \in 1 .. MaxWindows |-> 0] /\ asking = [c \in Requesters |-> NotAsking]
    /\ waits = [c \in Requesters |-> [window |-> 0, at |-> 0]]

\* take reads the clock before it has the shard's lock, allow after.
ReadWindowClock(c) ==
    /\ asking[c] = NotAsking /\ asking' = [asking EXCEPT ![c] = halfSecond]
    /\ UNCHANGED <<kind, halfSecond, visitor, windows, admits, waits>>

\* A missing entry, or one whose window has ended, starts a window with n requests.
Opens(time) == visitor.window = 0 \/ time >= visitor.end

OpenWindow(time, n) ==
    /\ windows < MaxWindows /\ windows' = windows + 1
    /\ visitor' = [window |-> windows + 1, count |-> n, end |-> time + WindowTicks]
    /\ admits' = [admits EXCEPT ![windows + 1] = n] /\ UNCHANGED waits

\* Fault model of Fits: the limit is tested before the requests are added.
FitsBefore(n) == visitor.count <= WindowMax

Fits(n) == visitor.count + n <= WindowMax

\* Fault model of Refused: a refused request keeps the window open.
RefusedExtends(time, n) == [visitor EXCEPT !.count = @ + n, !.end = time + WindowTicks]

\* A refused single request is counted all the same; a refused AllowN is not.
Refused(time, n) == IF n = 1 /\ visitor.count <= WindowMax THEN [visitor EXCEPT !.count = @ + n] ELSE visitor

\* Retry-After: whole seconds, rounded up, at least one.
RetryAfter(time) == Max({1, (visitor.end - time + 1) \div 2})

\* Allow, AllowKey and allow are n = 1; AllowN is the keyed limiter's.
Take(c, n) ==
    LET time == IF kind = "ip" THEN halfSecond ELSE asking[c]
    IN  /\ asking[c] # NotAsking /\ n \in 1 .. (IF kind = "ip" THEN 1 ELSE WindowMax)
        /\ \/ Opens(time) /\ OpenWindow(time, n)
           \/ /\ ~Opens(time) /\ Fits(n)
              /\ visitor' = [visitor EXCEPT !.count = @ + n]
              /\ admits' = [admits EXCEPT ![visitor.window] = @ + n] /\ UNCHANGED <<windows, waits>>
           \/ /\ ~Opens(time) /\ ~Fits(n)
              /\ visitor' = Refused(time, n)
              /\ waits' = [waits EXCEPT ![c] = [window |-> visitor.window, at |-> time + 2 * RetryAfter(time)]]
              /\ UNCHANGED <<windows, admits>>
        /\ asking' = [asking EXCEPT ![c] = NotAsking] /\ UNCHANGED <<kind, halfSecond>>

\* cleanup removes entries whose window is over (the IP limiter one tick later); the LRU
\* evicts any entry when its shard is full.
CleanUp ==
    /\ visitor.window # 0
    /\ IF kind = "ip" THEN halfSecond > visitor.end ELSE halfSecond >= visitor.end
    /\ visitor' = NoWindow /\ UNCHANGED <<kind, halfSecond, windows, admits, asking, waits>>

Evict ==
    /\ visitor.window # 0 /\ visitor' = NoWindow
    /\ UNCHANGED <<kind, halfSecond, windows, admits, asking, waits>>

WindowTick ==
    /\ halfSecond < MaxHalfSecond /\ halfSecond' = halfSecond + 1
    /\ UNCHANGED <<kind, visitor, windows, admits, asking, waits>>

WindowNext ==
    \/ \E c \in Requesters : ReadWindowClock(c) \/ \E n \in 1 .. WindowMax : Take(c, n)
    \/ CleanUp \/ Evict \/ WindowTick

WindowSpec == WindowInit /\ [][WindowNext]_windowVars

\* A window admits no more than the limit, and a request that comes back when it was told
\* to no longer meets the window that refused it: refusals neither stretch the window nor
\* are the waits rounded below its end.
WindowKeepsItsWord ==
    /\ \A w \in 1 .. windows : admits[w] <= WindowMax
    /\ \A c \in Requesters : waits[c].window # 0 /\ waits[c].window = visitor.window => visitor.end <= waits[c].at

-------------------------------------------------------------------------------
\* Every limit holds over whole behaviours: what a budget admits per period, a limiter per
\* stretch of time and a window, whatever expires, is swept, evicted or refunded in between.
LimitsHold == BudgetWithinCap /\ AdmissionsPaced /\ WindowKeepsItsWord
================================================================================
