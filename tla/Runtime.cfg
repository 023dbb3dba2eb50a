SPECIFICATION FairSpec
CONSTANTS
  Tasks = {a, b}
  Threads = {x}
  a = a
  b = b
  x = x
  Root = Root
  None = None
  EventInterval = 1
  Backends = {"eventfd", "user", "port"}
  Awaitable <- OneWaits
  RootFinishes = TRUE
  Interrupts = TRUE
INVARIANTS
    QueuedOnce
    NeverSleepsOnWork
PROPERTIES
    WokenIsPolled
    EventsAreServed
