SPECIFICATION Spec
CONSTANTS
  MaxFaults = 2
  NumUnits = 3
  BusFaults = 1
  Events = {e1, e2, e3}
  NumWorkers = 1
  QueueSize = 1
  Publishes = {p1, p2}
  MaxHandlers = 3
  CompactionThreshold = 2
  CronFaults = 1
  Replicas = {r1, r2}
  HubFaults = 1
  Conns = {c1, c2, c3}
  MaxConnections = 2
  MaxPerUser = 2
  MaxPerAddress = 1
  MaxChunks = 3
  BufferCap = 2
  HealthFaults = 1
  Probes = {p1, p2}
  NumChecks = 3
  Calls = {c1, c2, c3}
  Threshold = 2
  MaxGeneration = 4
  Callers = {c1, c2, c3}
  MaxSlots = 2
  MaxClears = 1
  NumFns = 4
  MaxGoroutines = 2
  SkippedFns = {2}
  NumModules = 3
  Streams = {s1, s2}
  MaxStreams = 1
  IdleLimit = 1
  MaxStreamTime = 2
  McpFaults = 1
  ToolCalls = {c1, c2, c3}
  AuditWorkers = {w1, w2}
  AuditQueueLen = 1
  SpendFaults = 1
  Outbound = {o1, o2}
  MaxCost = 2
  SpendCap = 2
  MaxActual = 2
  MaxSpendPeriod = 1
  LockFaults = 1
  LockCallers = {k1, k2}
  LockNodes = {n1, n2, n3}
  TryCount = 2
  MaxHandlerCalls = 4
  MinSize = 3
  BufferLimits = {2, 5}
  RoundTrips = {r1, r2}
  Hosts = {h1, h2}
  TripAt = 1
  StartCalls = {s1, s2}
  StopCalls = {t1}
  MaxWrites = 2
  Users = {u1, u2}
  MaxUnix = 3
CHECK_DEADLOCK FALSE
INVARIANTS
  RuntimeTypeOK
  StopIsFinal
  AdmissionIsExact
  
PROPERTIES
  OpensByFailure
  RuntimeSettles
