SPECIFICATION SftpSpec
CONSTANTS
  MaxFaults = 2
  SftpUsers = {u1, u2}
  Prober = pr
  MaxSessions = 2
CHECK_DEADLOCK FALSE
INVARIANT LeasedSessionIsOpen
