SPECIFICATION Spec
CONSTANTS
  e1 = e1
  e2 = e2
  e3 = e3
  Engines <- ThreeEngines
  MaxConnections = 1
  MaxMemories = 2
  MaxTimeouts = 0
  MaxRestarts = 0
  NativeFaults = FALSE
  Calls <- NoClose
SYMMETRY ThreeSymmetry
INVARIANT AckedIsImportedLossless
CHECK_DEADLOCK FALSE
