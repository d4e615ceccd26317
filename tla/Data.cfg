SPECIFICATION Spec
CONSTANTS
  MaxFaults = 4
  CacheFaults = 2
  QueueFaults = 2
  Getters = {c1, c2, c3}
  Spenders = {s1, s2}
  Cap = 1
  MaxPeriod = 1
  MaxBuckets = 2
  AuditFaults = 1
  Replicas = {r1, r2}
  MaxEvents = 3
  NumRows = 4
  MaxTime = 1
  PageLimit = 2
  ApprovalFaults = 1
  NumRequests = 2
  MaxClock = 1
  Approvers = {a1, a2}
  Tenants = {t1, t2}
  ActionFaults = 1
  Appenders = {w1, w2}
  EntryIds = {e1, e2}
  BatchSize = 2
  MaxRetry = 1
  LimitCallers = {l1, l2}
  Rate = 1
  Burst = 2
  MaxTick = 3
  Requesters = {q1, q2}
  WindowMax = 2
  WindowTicks = 3
  MaxHalfSecond = 4
  MaxWindows = 2
  AdvisoryFaults = 2
  LockUsers = {u1, u2, u3}
  Sessions = {s1, s2, s3}
  CacheUsers = {u1, u2, u3}
  CacheKeys = {k1, k2}
  MaxForeign = 2
  SftpFaults = 2
  SftpUsers = {u1, u2}
  Prober = pr
  MaxSessions = 2
  FileFaults = 2
  ObjectWriters = {w1, w2}
  ObjectBackends = {"local", "immutable", "sftp"}
  MaxPuts = 3
  MaxRetries = 1
  StableReset = 2
  MaxElapsed = 2
  BodyEnd = 2
  MaxRetryTime = 4
  EncFaults = 2
  EncUsers = {u1, u2, u3}
  PutCap = 1
  DecryptCap = 1
  OpenCap = 1
  MaxBody = 3
  MaxChain = 3
  SizeLimit = 2
  SniffSize = 1
  SpoolLimit = 3
  SkipLimit = 3
  PartLimit = 2
  AtomicFaults = 2
  Savers = {s1, s2}
  MaxSaves = 3
CHECK_DEADLOCK FALSE
INVARIANTS
  DataTypeOK
  
  LogsVerify
  
  HoldsAreBounded
PROPERTIES
  CachesKeepTheirWord
  DataSettles
