SPECIFICATION Spec
CONSTANTS
  Tasks = {a}
  Threads = {x, y}
  a = a
  x = x
  y = y
  Root = Root
  None = None
  EventInterval = 1
  Backends = {"pipe"}
  Awaitable <- Anything
  RootFinishes = FALSE
  Interrupts = FALSE
SYMMETRY ThreadSymmetry
INVARIANTS
  NeverSleepsOnWork
