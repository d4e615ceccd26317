SPECIFICATION Spec
CONSTANTS
  Entries = {1}
  Relays = {r1, r2}
  Tokens = {t1, t2, t3}
  NoToken = NoToken
  Routes <- AllRoutes
  BatchSize = 1
  StaleTicks = 0
  MaxAttempts = 3
  MaxConcurrentPublish = 1
  StaleRecoveryMultiplier = 2
  HeartbeatTicks = 1
  Timely = FALSE
  FaultKinds = {"crash", "stop", "db"}
  MaxFaults = 2
  DeliveryCap = 1
SYMMETRY Symmetry
INVARIANTS TypeOK OwnerIsSoleAndCurrent
PROPERTIES KeepsPromise
