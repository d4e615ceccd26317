---------------------------- MODULE OutboundCalls ----------------------------
(***************************************************************************)
(* The guards around calls that leave the process: resilience (breaker,    *)
(* bulkhead, timeout budget), runtime/concurrency and httpx/budget.        *)
(***************************************************************************)
EXTENDS FiniteSets, Faults, FiniteSetsExt, Integers

-------------------------------------------------------------------------------
(***************************************************************************)
(* resilience/circuitbreaker: calls through NewCircuitBreaker's breaker.   *)
(* The sony/gobreaker state machine is external: it counts outcomes per    *)
(* generation, and an outcome of an older generation is ignored.           *)
(***************************************************************************)

CONSTANTS Calls, Threshold,
          MaxGeneration   \* bound on the generations of a behaviour

ASSUME BreakerAssumption == Threshold \in Nat \ {0}

VARIABLES
    state,       \* "closed", "open" or "half-open"
    generation, failures,
    admitted,    \* calls a half-open generation has admitted
    call         \* per call: "new", in flight with its generation, or its outcome

breaker == <<state, generation, failures, admitted, call>>
breakerVars == <<breaker, faults>>

InCall(g) == [at |-> "call", gen |-> g]
Ended(outcome) == [at |-> outcome, gen |-> 0]
Outcomes == {"success", "failure", "excluded"}

BreakerTypeOK ==
    /\ state \in {"closed", "open", "half-open"} /\ generation \in 0 .. MaxGeneration
    /\ failures \in 0 .. Threshold /\ admitted \in 0 .. Cardinality(Calls)
    /\ call \in [Calls -> [at: Outcomes \union {"new", "call", "rejected", "cancelled"},
                           gen: 0 .. MaxGeneration]]
    /\ faults \in 0 .. MaxFaults

BreakerInit ==
    /\ state = "closed" /\ generation = 0 /\ failures = 0 /\ admitted = 0
    /\ call = [c \in Calls |-> Ended("new")] /\ faults = 0

Generation(s) ==
    /\ generation < MaxGeneration /\ generation' = generation + 1
    /\ state' = s /\ failures' = 0 /\ admitted' = 0

\* The cooldown ends: the next look at the breaker finds it half open.
Cooldown ==
    /\ state = "open" /\ Generation("half-open")
    /\ UNCHANGED <<call, faults>>

\* Fault model of NewCircuitBreaker: MaxRequests is left to the caller's concurrency.
AdmitsHalfOpen == state # "open"

\* MaxRequests is 1: a half-open breaker lets one call through.
Admits == state = "closed" \/ (state = "half-open" /\ admitted = 0)

\* ExecuteCtx: an ended context is returned before the breaker is asked; ErrOpenState and
\* ErrTooManyRequests both become ErrCircuitOpen.
Execute(c) ==
    /\ call[c].at = "new"
    /\ \/ /\ IF Admits THEN /\ call' = [call EXCEPT ![c] = InCall(generation)]
                            /\ admitted' = IF state = "half-open" THEN admitted + 1 ELSE admitted
                       ELSE call' = [call EXCEPT ![c] = Ended("rejected")] /\ UNCHANGED admitted
          /\ UNCHANGED faults
       \/ Fault /\ call' = [call EXCEPT ![c] = Ended("cancelled")] /\ UNCHANGED admitted
    /\ UNCHANGED <<state, generation, failures>>

Current(c) == call[c].gen = generation

\* Fault model of defaultIsExcluded: a cancelled call counts as a failure.
CountsAll(outcome) == outcome

\* defaultIsSuccessful, defaultIsExcluded: context.Canceled says nothing of the callee.
Counted(outcome) == IF outcome = "excluded" THEN "nothing" ELSE outcome

Trips == failures + 1 >= Threshold

AfterSuccess ==
    IF state = "half-open" THEN Generation("closed")
                           ELSE failures' = 0 /\ UNCHANGED <<state, generation, admitted>>
AfterFailure ==
    IF state = "half-open" \/ Trips
      THEN Generation("open")
      ELSE failures' = failures + 1 /\ UNCHANGED <<state, generation, admitted>>

\* The callee returns or panics (a failure); what an older generation admitted is ignored.
\* An excluded outcome frees the half-open slot and decides nothing.
CalleeReturns(c, outcome) ==
    /\ call[c].at = "call"
    /\ call' = [call EXCEPT ![c] = Ended(outcome)]
    /\ IF ~Current(c) THEN UNCHANGED <<state, generation, failures, admitted>>
       ELSE IF Counted(outcome) = "nothing"
         THEN admitted' = (IF state = "half-open" THEN admitted - 1 ELSE admitted)
              /\ UNCHANGED <<state, generation, failures>>
       ELSE IF Counted(outcome) = "success" THEN AfterSuccess ELSE AfterFailure
    /\ UNCHANGED faults

\* A finished caller makes its next call.
NextCall(c) ==
    /\ call[c].at \notin {"new", "call"} /\ call' = [call EXCEPT ![c] = Ended("new")]
    /\ UNCHANGED <<state, generation, failures, admitted, faults>>

BreakerNext ==
    \/ Cooldown
    \/ \E c \in Calls : Execute(c) \/ NextCall(c) \/ \E o \in Outcomes : CalleeReturns(c, o)

BreakerSpec == BreakerInit /\ [][BreakerNext]_breakerVars

-------------------------------------------------------------------------------
\* At most one call of a half-open breaker is in flight, however many callers race for it
\* and whatever the calls admitted before it opened return in the meantime.
OneTrialCall ==
    state = "half-open" => Cardinality({c \in Calls : call[c] = InCall(generation)}) <= 1

\* The breaker opens only by failures of calls it admitted in the generation that ends: a
\* step that opens it is a failed call of that generation, never a success, a late answer
\* or a cancelled call.
OpensByFailure ==
    [][state # "open" /\ state' = "open"
       => \E c \in Calls : Current(c) /\ call[c].at = "call" /\ call'[c].at = "failure"]_breakerVars

-------------------------------------------------------------------------------
(***************************************************************************)
(* resilience/bulkhead and resilience/timeoutbudget: the slots and the     *)
(* reserved time that concurrent calls take and give back.                 *)
(***************************************************************************)

CONSTANTS Callers, MaxSlots,
          MaxClears    \* bound on the calls of Clear

VARIABLES
    slot,          \* per caller: "new", "waiting", "inside", "released" (current), "out"
    current,       \* Bulkhead.current
    semaphore,     \* tokens in the channel
    reservation,   \* Budget.reservation
    gen,           \* Budget.gen
    reserved       \* per caller: 0, or its amount and the generation it was made in

guards == <<slot, current, semaphore, reservation, gen, reserved>>
guardVars == <<guards, faults>>

Free == [amount |-> 0, gen |-> 0]

GuardTypeOK ==
    /\ slot \in [Callers -> {"new", "waiting", "inside", "released", "out"}]
    /\ current \in 0 .. MaxSlots /\ semaphore \in 0 .. MaxSlots
    /\ gen \in 0 .. MaxClears
    /\ reserved \in [Callers -> [amount: 0 .. 2, gen: 0 .. MaxClears]]
    /\ reservation \in 0 .. 2 * Cardinality(Callers) /\ faults \in 0 .. MaxFaults

GuardInit ==
    /\ slot = [c \in Callers |-> "new"] /\ current = 0 /\ semaphore = 0
    /\ reservation = 0 /\ gen = 0 /\ reserved = [c \in Callers |-> Free] /\ faults = 0

\* acquire: a free slot is taken at once; else the caller is refused, or waits.
AcquireSlot(c) ==
    /\ slot[c] = "new"
    /\ IF semaphore < MaxSlots
         THEN slot' = [slot EXCEPT ![c] = "inside"] /\ semaphore' = semaphore + 1
              /\ current' = current + 1
         ELSE slot' \in {[slot EXCEPT ![c] = s] : s \in {"out", "waiting"}}
              /\ UNCHANGED <<semaphore, current>>
    /\ UNCHANGED <<reservation, gen, reserved, faults>>

AcquireLate(c) ==
    /\ slot[c] = "waiting"
    /\ \/ semaphore < MaxSlots /\ slot' = [slot EXCEPT ![c] = "inside"]
          /\ semaphore' = semaphore + 1 /\ current' = current + 1 /\ UNCHANGED faults
       \/ Fault /\ slot' = [slot EXCEPT ![c] = "out"] /\ UNCHANGED <<semaphore, current>>
    /\ UNCHANGED <<reservation, gen, reserved>>

\* The function returns or panics; the deferred release counts down, then frees the token.
Release(c) ==
    /\ slot[c] = "inside"
    /\ slot' = [slot EXCEPT ![c] = "released"] /\ current' = current - 1
    /\ UNCHANGED <<semaphore, reservation, gen, reserved, faults>>

ReleaseToken(c) ==
    /\ slot[c] = "released"
    /\ slot' = [slot EXCEPT ![c] = "out"] /\ semaphore' = semaphore - 1
    /\ UNCHANGED <<current, reservation, gen, reserved, faults>>

\* WithReservation(d) with d > 0.
Reserve(c, d) ==
    /\ reserved[c] = Free
    /\ reservation' = reservation + d
    /\ reserved' = [reserved EXCEPT ![c] = [amount |-> d, gen |-> gen]]
    /\ UNCHANGED <<slot, current, semaphore, gen, faults>>

\* Clear, and WithReservation(0): every reservation made so far is void.
Clear ==
    /\ gen < MaxClears /\ gen' = gen + 1 /\ reservation' = 0
    /\ UNCHANGED <<slot, current, semaphore, reserved, faults>>

\* Fault model of restore: the generation is not compared.
RestoreAny(c) == reservation' = IF reservation < reserved[c].amount THEN 0
                                ELSE reservation - reserved[c].amount

\* restore: gives back once, and nothing that a Clear has voided.
GiveBack(c) ==
    reservation' = IF reserved[c].gen # gen THEN reservation
                   ELSE IF reservation < reserved[c].amount THEN 0
                   ELSE reservation - reserved[c].amount

Restore(c) ==
    /\ reserved[c] # Free
    /\ GiveBack(c)
    /\ reserved' = [reserved EXCEPT ![c] = Free]
    /\ UNCHANGED <<slot, current, semaphore, gen, faults>>

GuardNext ==
    \/ Clear
    \/ \E c \in Callers : \/ AcquireSlot(c) \/ AcquireLate(c) \/ Release(c) \/ ReleaseToken(c)
                          \/ Restore(c) \/ \E d \in 1 .. 2 : Reserve(c, d)

GuardSpec == GuardInit /\ [][GuardNext]_guardVars

-------------------------------------------------------------------------------
\* What is reserved is the sum of the reservations made since the last Clear and not yet
\* restored: a late restore of a voided reservation takes nothing from a newer one.
ReservationExact ==
    reservation = MapThenSumSet(LAMBDA c : reserved[c].amount,
                                {c \in Callers : reserved[c].gen = gen})

-------------------------------------------------------------------------------
(***************************************************************************)
(* runtime/concurrency: FanOut runs functions concurrently under a limit,  *)
(* fails fast and joins them; FanOutSettled collects one result per        *)
(* function and fills in the context's error for those that never started. *)
(***************************************************************************)

CONSTANTS NumFns,          \* length of fns
          MaxGoroutines,   \* WithMaxGoroutines, at least 1
          SkippedFns       \* indices of nil functions

ASSUME FanOutAssumption == NumFns \in Nat /\ MaxGoroutines \in Nat \ {0}

Fns == 1..NumFns

VARIABLES
    fanMode,    \* "fail fast" (FanOut) or "settled" (FanOutSettled)
    nextFn,     \* the loop's index
    fn,         \* per function: "waiting", "running", "ok", "failed", "not started"
    inUse,      \* slots of the semaphore in use
    fanCtx,     \* the caller's context: "live" or "cancelled"
    firstErr,   \* errgroup: has a function failed?
    results,    \* per function: "zero", "value", "error"
    fanReturn   \* "no", "values", "error", "results"

fanState == <<fanMode, nextFn, fn, inUse, fanCtx, firstErr, results, fanReturn>>
fanVars == <<fanState, faults>>

FanInit ==
    /\ fanMode \in {"fail fast", "settled"}
    /\ nextFn = 1 /\ inUse = 0 /\ fanCtx = "live" /\ firstErr = FALSE /\ fanReturn = "no"
    /\ fn = [i \in Fns |-> "waiting"] /\ results = [i \in Fns |-> "zero"] /\ faults = 0

Active == {i \in Fns : fn[i] = "running"}

Looping == nextFn \in Fns /\ fanReturn = "no"

SkipNil ==
    /\ Looping /\ nextFn \in SkippedFns /\ nextFn' = nextFn + 1
    /\ UNCHANGED <<fanMode, fn, inUse, fanCtx, firstErr, results, fanReturn, faults>>

\* Go of the errgroup and the send on the semaphore both wait for a slot.
Launch ==
    /\ Looping /\ nextFn \notin SkippedFns /\ inUse < MaxGoroutines
    /\ inUse' = inUse + 1 /\ nextFn' = nextFn + 1 /\ fn' = [fn EXCEPT ![nextFn] = "running"]
    /\ UNCHANGED <<fanMode, fanCtx, firstErr, results, fanReturn, faults>>

\* FanOutSettled stops waiting for a slot once the context is over.
NotStarted ==
    /\ Looping /\ nextFn \notin SkippedFns /\ fanMode = "settled" /\ fanCtx = "cancelled"
    /\ nextFn' = nextFn + 1 /\ fn' = [fn EXCEPT ![nextFn] = "not started"]
    /\ results' = [results EXCEPT ![nextFn] = "error"]
    /\ UNCHANGED <<fanMode, inUse, fanCtx, firstErr, fanReturn, faults>>

\* Fault model of FnFails: the panic of a function is recovered without a
\* result, and its slot is not given back.
FnPanicsAway(i) == fn' = [fn EXCEPT ![i] = "failed"] /\ UNCHANGED <<inUse, results, firstErr>>

\* A function returns an error or panics: both become the error of its index.
FnFails(i) ==
    /\ fn' = [fn EXCEPT ![i] = "failed"] /\ inUse' = inUse - 1
    /\ IF fanMode = "settled"
       THEN results' = [results EXCEPT ![i] = "error"] /\ UNCHANGED firstErr
       ELSE firstErr' = TRUE /\ UNCHANGED results

FnEnds(i) ==
    /\ fn[i] = "running"
    /\ \/ /\ fn' = [fn EXCEPT ![i] = "ok"] /\ inUse' = inUse - 1
          /\ results' = [results EXCEPT ![i] = "value"] /\ UNCHANGED <<firstErr, faults>>
       \/ /\ (fanCtx = "cancelled" \/ firstErr) /\ FnFails(i) /\ UNCHANGED faults
       \/ Fault /\ FnFails(i)
    /\ UNCHANGED <<fanMode, nextFn, fanCtx, fanReturn>>

CancelFan ==
    /\ fanCtx = "live" /\ Fault /\ fanCtx' = "cancelled"
    /\ UNCHANGED <<fanMode, nextFn, fn, inUse, firstErr, results, fanReturn>>

\* Fault model of AllIn: the join is left out when a function has failed.
AllInOrFailed == Active = {} \/ firstErr

AllIn == Active = {}

JoinFns ==
    /\ nextFn = NumFns + 1 /\ fanReturn = "no" /\ AllIn
    /\ fanReturn' = (CASE fanMode = "settled" -> "results"
                       [] fanMode = "fail fast" /\ firstErr -> "error"
                       [] OTHER -> "values")
    /\ UNCHANGED <<fanMode, nextFn, fn, inUse, fanCtx, firstErr, results, faults>>

FanStep == SkipNil \/ Launch \/ NotStarted \/ JoinFns

FanNext == FanStep \/ CancelFan \/ \E i \in Fns : FnEnds(i)

FanSpec ==
    /\ FanInit /\ [][FanNext]_fanVars
    /\ WF_fanVars(FanStep) /\ \A i \in Fns : WF_fanVars(FnEnds(i))

FanTypeOK ==
    /\ nextFn \in 1..NumFns + 1 /\ inUse \in 0..MaxGoroutines
    /\ \A i \in Fns : /\ fn[i] \in {"waiting", "running", "ok", "failed", "not started"}
                      /\ results[i] \in {"zero", "value", "error"}

\* What a caller may rely on when FanOut or FanOutSettled returns: nothing
\* runs any more; values are returned only if every function succeeded; and
\* each settled result is the function's own outcome, an error standing for a
\* function that a cancelled context kept from starting.
FanOutReturnsAll ==
    fanReturn # "no" =>
        /\ Active = {} /\ inUse = 0
        /\ \A i \in Fns \ SkippedFns :
              CASE fanReturn = "values" -> fn[i] = "ok" /\ results[i] = "value"
                [] fanReturn = "results" ->
                     /\ results[i] = (IF fn[i] = "ok" THEN "value" ELSE "error")
                     /\ fn[i] = "not started" => fanCtx = "cancelled"
                [] OTHER -> fn[i] \in {"ok", "failed"}

FanSettled == fanReturn # "no"

-------------------------------------------------------------------------------
(***************************************************************************)
(* httpx/budget: an outbound transport that charges an estimate before a   *)
(* request is sent and settles the actual cost with the response.  The     *)
(* budget is its per-period counter (module Budget has its stores).        *)
(***************************************************************************)

CONSTANTS Outbound,         \* requests
          MaxCost,          \* bound on estimates and actual costs
          SpendCap,         \* what the budget allows in a period
          MaxActual,        \* WithMaxActual
          MaxSpendPeriod    \* bound on the periods

ASSUME SpendAssumption == MaxCost \in Nat \ {0} /\ {SpendCap, MaxActual, MaxSpendPeriod} \subseteq Nat

VARIABLES
    hardEnforced,   \* EnforcementHard, else EnforcementAuditOnly
    refundOnError,  \* WithRefundOnTransportError
    spendPeriod,    \* the period of the clock
    spent,          \* per period: the budget's counter
    outbound,       \* per request: [at, stamp, estimate, actual]
    ledger          \* per request and period: what it added to the counter

spendState == <<hardEnforced, refundOnError, spendPeriod, spent, outbound, ledger>>
spendVars == <<spendState, faults>>

Periods == 0 .. MaxSpendPeriod
NoActual == -1

SpendInit ==
    /\ hardEnforced \in BOOLEAN /\ refundOnError \in BOOLEAN /\ spendPeriod = 0
    /\ spent = [p \in Periods |-> 0] /\ faults = 0
    /\ outbound = [r \in Outbound |-> [at |-> "new", stamp |-> 0, estimate |-> 0, actual |-> NoActual]]
    /\ ledger = [r \in Outbound |-> [p \in Periods |-> 0]]

OutboundGoes(r, place) == outbound' = [outbound EXCEPT ![r].at = place]
Ends(r, place) == OutboundGoes(r, place) /\ UNCHANGED <<spent, ledger>>

\* chargedAt is read before the estimate is charged.
StampCharge(r) ==
    /\ outbound[r].at = "new"
    /\ \E e \in 1 .. MaxCost :
          outbound' = [outbound EXCEPT ![r].at = "charge", ![r].stamp = spendPeriod, ![r].estimate = e]
    /\ UNCHANGED <<hardEnforced, refundOnError, spendPeriod, spent, ledger, faults>>

\* Budget.Consume at the clock's period: all of the amount or none of it.
Consumes(r, amount) ==
    /\ spent' = [spent EXCEPT ![spendPeriod] = @ + amount]
    /\ ledger' = [ledger EXCEPT ![r][spendPeriod] = @ + amount]
Affordable(amount) == spent[spendPeriod] + amount <= SpendCap

\* Fault model of RefundPeriod: the refund goes to the current period.
RefundNow(r) == spendPeriod

\* cleanupRefund passes chargedAt, and the budget credits its period.
RefundPeriod(r) == outbound[r].stamp

\* Refund lowers the counter of a period to zero at the least; it may fail,
\* which is logged.
Refunds(r, amount) ==
    LET p == RefundPeriod(r) IN
    \/ /\ spent' = [spent EXCEPT ![p] = Max({0, @ - amount})]
       /\ ledger' = [ledger EXCEPT ![r][p] = @ - amount] /\ UNCHANGED faults
    \/ Fault /\ UNCHANGED <<spent, ledger>>

PreCharge(r) ==
    LET e == outbound[r].estimate IN
    /\ outbound[r].at = "charge"
    /\ \/ Affordable(e) /\ Consumes(r, e) /\ OutboundGoes(r, "sent") /\ UNCHANGED faults
       \/ ~Affordable(e) /\ Ends(r, "refused") /\ UNCHANGED faults
       \/ Fault /\ Ends(r, "failed")
    /\ UNCHANGED <<hardEnforced, refundOnError, spendPeriod>>

\* The request fails: the charge stays unless refunds are configured.
TransportFails(r) ==
    /\ outbound[r].at = "sent" /\ faults < MaxFaults
    /\ IF refundOnError THEN Refunds(r, outbound[r].estimate) /\ OutboundGoes(r, "failed")
       ELSE Fault /\ Ends(r, "failed")
    /\ UNCHANGED <<hardEnforced, refundOnError, spendPeriod>>

\* The response, with or without the header of the actual cost.
ResponseArrives(r) ==
    /\ outbound[r].at = "sent"
    /\ \E a \in {NoActual} \cup 0 .. MaxCost :
          outbound' = [outbound EXCEPT ![r].at = IF a = NoActual THEN "delivered" ELSE "reconcile",
                                       ![r].actual = IF a = NoActual THEN a ELSE Min({a, MaxActual})]
    /\ UNCHANGED <<hardEnforced, refundOnError, spendPeriod, spent, ledger, faults>>

\* Fault model of Unpaid: the response is given even if its cost is not paid.
UnpaidIsGiven == "delivered"

\* What becomes of a response whose extra cost was not charged.
Unpaid == IF hardEnforced THEN "rejected" ELSE "delivered"

\* reconcile: refund the surplus or charge what is missing; a charge that
\* fails with an error gives the estimate back under hard enforcement.
Reconcile(r) ==
    LET delta == outbound[r].actual - outbound[r].estimate IN
    /\ outbound[r].at = "reconcile"
    /\ \/ delta = 0 /\ Ends(r, "delivered") /\ UNCHANGED faults
       \/ delta < 0 /\ Refunds(r, -delta) /\ OutboundGoes(r, "delivered")
       \/ delta > 0 /\ Affordable(delta) /\ Consumes(r, delta) /\ OutboundGoes(r, "delivered") /\ UNCHANGED faults
       \/ delta > 0 /\ ~Affordable(delta) /\ Ends(r, Unpaid) /\ UNCHANGED faults
       \/ /\ delta > 0 /\ faults < MaxFaults /\ OutboundGoes(r, Unpaid)
          /\ IF hardEnforced THEN Refunds(r, outbound[r].estimate) ELSE Fault /\ UNCHANGED <<spent, ledger>>
    /\ UNCHANGED <<hardEnforced, refundOnError, spendPeriod>>

NextPeriod ==
    /\ spendPeriod < MaxSpendPeriod /\ spendPeriod' = spendPeriod + 1
    /\ UNCHANGED <<hardEnforced, refundOnError, spent, outbound, ledger, faults>>

SpendNext ==
    \/ \E r \in Outbound : StampCharge(r) \/ PreCharge(r) \/ TransportFails(r) \/ ResponseArrives(r) \/ Reconcile(r)
    \/ NextPeriod

SpendSpec == SpendInit /\ [][SpendNext]_spendVars

SpendTypeOK ==
    /\ spendPeriod \in Periods /\ \A p \in Periods : spent[p] \in 0 .. SpendCap
    /\ \A r \in Outbound : outbound[r].actual \in {NoActual} \cup 0 .. MaxActual

\* The counter of the current period is what the requests charged to it: a
\* refund for a request that was charged in an earlier period, or twice, does
\* not buy other requests room in this one.
CounterIsWhatWasUsed ==
    /\ spent[spendPeriod] = MapThenSumSet(LAMBDA r : ledger[r][spendPeriod], Outbound)
    /\ \A r \in Outbound : ledger[r][spendPeriod] >= 0

\* Under hard enforcement a response is given only for a cost that the budget
\* was charged, also when the request and its charges lie in two periods.
DeliveredIsPaid ==
    hardEnforced => \A r \in Outbound :
        outbound[r].at = "delivered" /\ outbound[r].actual # NoActual
            => MapThenSumSet(LAMBDA p : ledger[r][p], Periods) >= outbound[r].actual
================================================================================
