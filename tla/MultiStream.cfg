SPECIFICATION Spec
CONSTANTS
  HalfWord = 3
  None = None
  SqCapacity = 1
  SubmitFails = TRUE
  PoolWord = 4
  MaxEntries = 2
  PoolSize = 2
  Streams = {1, 2}
  Kinds <- MCKinds
  Limit = 1
  Fds = {1, 2}
  MaxCq = 1
INVARIANTS
  ResourcesAccounted
  FreedOnce
  NoLostWake
  StopReachesKernel
