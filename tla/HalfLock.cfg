SPECIFICATION FairSpec
CONSTANTS
    Readers = {r1, r2, r3}
    Writers = {w1, w2}
    None = None
    MaxStores = 3
INVARIANTS
    NoUseAfterFree
PROPERTIES
    BarrierEnds
