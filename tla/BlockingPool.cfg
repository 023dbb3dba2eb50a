SPECIFICATION FairSpec
CONSTANTS
    Workers = {w1, w2, w3}
    ThreadCap = 2
    Jobs = {o1, o2, m1}
    Mandatory = {m1}
    PanickyDrop = {o2}
    Callers = {c1, c2}
    Timed = {c2}
    NoJob = NoJob
CHECK_DEADLOCK FALSE
INVARIANTS
    WorkNotStranded
    JoinedMeansQuiet
PROPERTIES
    AcceptedJobsSettle
    ShutdownReturns
    MandatoryRunsDespiteStuckWorkers
