SPECIFICATION ConnSpec
CONSTANTS
  MaxFaults = 3
  Slots = {1, 2, 3}
  Loops = {g1, g2}
  MaxReconnectAttempts = 2
CHECK_DEADLOCK FALSE
INVARIANT NoStrandedSignal
