SPECIFICATION FairSpec
CONSTANTS
  Wakers = {w1, w2}
  JoinWakers = {j1, j2}
  None = None
  PanickyDrop = TRUE
CHECK_DEADLOCK FALSE
INVARIANTS
    RefCounted
    NoCellRace
    NoLostJoinWake
PROPERTIES
    WakeLeadsToPoll
    CancelledCompletes
