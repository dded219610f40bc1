SPECIFICATION FairSpec
CONSTANTS
  s1 = s1
  d1 = d1
  t1 = t1
  t2 = t2
  w1 = w1
  None = None
  Storages <- OneStorage
  Descriptors <- OneDescriptor
  Threads <- TwoThreads
  Workers <- OneWorker
  MaxHandles = 3
  MaxTasks = 2
  Missing = FALSE
INVARIANT TypeOK
INVARIANT BatchesOwned
INVARIANT FreeIsNeverBusy
INVARIANT CallsNotCutOff
INVARIANT HandlersSeeEngine
PROPERTY CallsEnd
CHECK_DEADLOCK FALSE
