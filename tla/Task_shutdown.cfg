CONSTANTS
  Wakers = {w1}
  JoinWakers = {j1, j2}
  None = None
  PanickyDrop = FALSE
SPECIFICATION Spec
CHECK_DEADLOCK FALSE
INVARIANTS
  NotificationThere
