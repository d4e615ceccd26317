SPECIFICATION Spec
CONSTANTS
  Entries = {1}
  Relays = {r1}
  Tokens = {t1, t2}
  NoToken = NoToken
  Routes <- AllRoutes
  BatchSize = 1
  StaleTicks = 0
  MaxAttempts = 2
  MaxConcurrentPublish = 1
  StaleRecoveryMultiplier = 2
  HeartbeatTicks = 1
  Timely = FALSE
  FaultKinds = {"stop"}
  MaxFaults = 1
  DeliveryCap = 1
PROPERTIES ShutdownReleasesClaims
