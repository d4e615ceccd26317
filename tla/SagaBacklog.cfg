SPECIFICATION Spec
CONSTANTS
    p1 = p1
    p2 = p2
    i1 = i1
    i2 = i2
    Instances = {i1, i2}
    Procs = {p1, p2}
    Nobody = Nobody
    Drivers <- OneEach
    Host <- HostOf
    N = 1
    Calls <- StartAndResume
    Knows = {p1, p2}
    ResumeConcurrency = 1
    LeaseTicks = 2
    OlderThan = 1
    Timely = TRUE
    FaultKinds = {"crash"}
    MaxFaults = 2
CHECK_DEADLOCK FALSE
INVARIANT ExclusiveExecution
