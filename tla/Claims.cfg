SPECIFICATION SuiteSpec
CONSTANTS
  Entries = {1, 2}
  Relays = {r1, r2}
  Tokens = {t1, t2, t3}
  NoToken = NoToken
  Routes <- AllRoutes
  BatchSize = 2
  StaleTicks = 3
  MaxAttempts = 1
  MaxConcurrentPublish = 1
  StaleRecoveryMultiplier = 1
  HeartbeatTicks = 1
  Timely = TRUE
  FaultKinds = {"db"}
  MaxFaults = 1
  DeliveryCap = 3
  Replicas = {p1, p2, p3}
  NoHolder = NoHolder
  Ghost = Ghost
  Backends <- AllBackends
  TTL = 3
  RenewTicks = 1
  DrainTimeouts = TRUE
  RenewsTimely = TRUE
  ElectorFaultKinds = {"acquire", "renew", "release", "crash", "stop"}
  MaxElectorFaults = 2
SYMMETRY Symmetry
INVARIANTS PublishIsOwned DuplicatesAreExplained ExclusiveLeadership
