SPECIFICATION Spec
CONSTANTS
  MaxFaults = 2
  Messages = {m1, m2, m3}
  MaxSize = 2
  DrainBatchLimit = 2
  CompactMinEntries = 2
  Torn = Torn
  Slots = {1, 2, 3}
  Loops = {g1, g2}
  MaxReconnectAttempts = 2
  AmqpConsumers = {c1, c2}
  AmqpMessages = {m1, m2}
  MaxRetries = 1
  MaxDLQConsecutiveFail = 1
  MaxDeaths = 4
  Members = {c1, c2}
  LastOffset = 4
  NatsReplicas = {c1, c2}
  NatsMessages = {m1, m2}
  MaxDeliver = 3
  Workers = {c1, c2}
  Deliverables = {m1, m2}
  AmqpFaults = 1
  StreamFaults = 1
  StreamConsumers = {c1, c2}
  LastEntry = 2
  BatchSize = 2
  StreamMaxRetries = 1
  HandlerTicks = 1
  ClaimMinIdle = 2
  Subs = {s1, s2}
  Stoppers = {c1, c2}
  BrokerFaults = 1
  Drainers = {d1, d2}
  Listeners = {l1, l2}
  MaxPublished = 2
  PatternWords = {"a", "b", "*", "#"}
  KeyWords = {"a", "b"}
  MaxWords = 3
  Relays = {r1, r2}
  ClaimTokens = {t1, t2, t3}
  NoToken = NoToken
CHECK_DEADLOCK FALSE
INVARIANTS
  MessagingTypeOK
  
  DeliveredAsPublished
  
  LinksAreOwned
PROPERTY
  MessagingSettles
