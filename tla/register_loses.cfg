SPECIFICATION Spec
CONSTANTS
  e1 = e1
  e2 = e2
  e3 = e3
  Engines <- TwoEngines
  MaxConnections = 2
  MaxMemories = 1
  MaxTimeouts = 1
  MaxRestarts = 0
  NativeFaults = FALSE
  Calls <- ConnectRegister
INVARIANT AckedIsImported
CHECK_DEADLOCK FALSE
