SPECIFICATION FairSpec
CONSTANTS
  e1 = e1
  e2 = e2
  e3 = e3
  Engines <- TwoEngines
  MaxConnections = 2
  MaxMemories = 1
  MaxTimeouts = 1
  MaxRestarts = 1
  NativeFaults = FALSE
  Calls <- AllCalls
INVARIANT ReadyIsPaired
 
PROPERTY ImplementsViews
PROPERTY CallsReturn
PROPERTY ConnectEstablishes
PROPERTY ConnectsAfresh
CHECK_DEADLOCK FALSE
