SPECIFICATION SuiteSpec
CONSTANTS
    Replicas = {p1, p2}
    NoHolder = NoHolder
    Ghost = Ghost
    Backends <- AllBackends
    TTL = 3
    RenewTicks = 1
    DrainTimeouts = TRUE
    RenewsTimely = FALSE
    ElectorFaultKinds = {"acquire", "renew", "release", "crash", "stop", "lost"}
    MaxElectorFaults = 2
    Slots = {t1, t2, t3}
    LeaseDrainTimeouts = {TRUE, FALSE}
    p1 = p1
    p2 = p2
    d1 = d1
    d2 = d2
    i1 = i1
    Instances = {i1}
    Procs = {p1, p2}
    Drivers = {d1, d2}
    Host <- TwoProcesses
    Nobody = Nobody
    N = 3
    Calls <- StartAndResume
    Knows = {p1, p2}
    ResumeConcurrency = 1
    LeaseTicks = 2
    OlderThan = 1
    Timely = TRUE
    FaultKinds = {"crash", "panic", "cancel", "db"}
    MaxFaults = 3
    r1 = r1
    r2 = r2
    r3 = r3
    FpA = FpA
    FpB = FpB
    NoFp = NoFp
    Requests = {r1, r2, r3}
    Fingerprint <- TwoBodies
    Tokens = {t1, t2, t3, t4}
    NoToken = NoToken
    NoRequest = NoRequest
    Stores = {"pg", "redis", "memory"}
    LockTicks = 1
    CacheTicks = 2
    StoreFaultKinds = {"crash", "store", "handler"}
    MaxStoreFaults = 1
    Cap = 4
CHECK_DEADLOCK FALSE
INVARIANTS
    TermsAreBalanced LeaderTermsBalance ExclusiveExecution CheckpointsAreTrue ReplaysAreRight
PROPERTIES
    HandoverIsOrderly SagaKeepsPromise CachedIsStable CoordinationSettles
