SPECIFICATION Spec
CONSTANTS
  s1 = s1
  s2 = s2
  d1 = d1
  None = None
  Storages <- TwoStorages
  Descriptors <- OneDescriptor
  MaxHandles = 4
  MaxTasks = 2
  Missing = TRUE
INVARIANT TypeOK
INVARIANT BuffersRetained
INVARIANT MirrorsAgree
SYMMETRY StorageSymmetry
CHECK_DEADLOCK FALSE
