SPECIFICATION FairSpec
CONSTANTS
  HalfWord = 4
  None = None
  ScopeGenerationMax = 2
  SqCapacity = 2
  SubmitFails = TRUE
  ArmFails = TRUE
  Addresses = {1, 2, 3}
  Ops = {1, 2}
  Tasks = {t1}
  Sources = {"s"}
  Backends = {"uring", "kqueue", "iocp"}
  Offered <- MCOffered
  Under <- MCUnder
  Escaped = {2}
  PoolTimeout = FALSE
  Waited <- MCWaited
INVARIANTS
  PayloadPinned
  NoStaleHit
  ScopesExact
  CancelReachesAll
  ResultKept
PROPERTIES
  ImplementsContract
  Resolves
  ShutdownEnds
