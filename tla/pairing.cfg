SPECIFICATION Spec
CONSTANTS
  e1 = e1
  e2 = e2
  e3 = e3
  Engines <- TwoEngines
  MaxConnections = 2
  MaxMemories = 2
  MaxTimeouts = 1
  MaxRestarts = 0
  NativeFaults = TRUE
  Calls <- NoClose
SYMMETRY TwoSymmetry
INVARIANT TypeOK
INVARIANT IInv
INVARIANT AnsweredIsImported
PROPERTY PairingIsFinal
PROPERTY ReleasesDeadOnly
CHECK_DEADLOCK FALSE
