SPECIFICATION FairSpec
CONSTANTS
  e1 = e1
  e2 = e2
  e3 = e3
  Engines <- TwoEngines
  MaxConnections = 2
  MaxMemories = 0
  MaxTimeouts = 0
  MaxRestarts = 0
  NativeFaults = FALSE
  Calls <- NoClose
PROPERTY ConnectsAlone
CHECK_DEADLOCK FALSE
