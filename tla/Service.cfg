SPECIFICATION Spec
CONSTANTS
  MaxFaults = 3
  OneFault = 1
  TwoFaults = 2
  Refreshers = {r1, r2}
  TokenLife = 2
  Leeway = 1
  OutageGrace = 0
  MaxSessionTime = 2
  MaxRequests = 2
  SessionIds = {i1, i2}
  SIDs = {a}
  Revokers = {r1}
  MaxIndexTime = 1
  MaxUpdates = 1
  Tabs = {t1, t2}
  MaxPendingSignIns = 1
  SecretCallers = {g1, g2}
  SecretTTL = 2
  RefreshAfter = 0
  MaxStale = 1
  FetchTimeout = 1
  MaxSecretTime = 4
  MaxBuffers = 2
  Subscribers = {s1, s2}
  MaxChanges = 2
  MaxKeys = 2
  KeyMaxStale = 1
  KeyFetchTime = 1
  TokenExpiry = 2
  MaxKeyTime = 4
  MaxSignKeys = 3
  SignMaxStale = 1
  SignFetchTime = 1
  MaxSignTime = 5
  MaxRotations = 2
  MaxReconnectAttempts = 2
  Readers = {a1}
  NumReplicas = 2
  MaxConsecFails = 1
  MaxAcquires = 2
CHECK_DEADLOCK FALSE
INVARIANTS
  ServiceTypeOK
  SessionsStand
  MaterialIsCurrent
  

  
  
