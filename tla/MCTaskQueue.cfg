CONSTANTS
    t1 = t1
    w1 = w1
    w2 = w2
    Task = {t1}
    Worker = {w1, w2}
    NoWorker = NoWorker
    NoLease = NoLease
    LeaseTime = 2
    MaxDelay = 1
    PlanLength = 1
    MaxGen = 3
SPECIFICATION QSpec
INVARIANTS
    QueueStatusCoherent
    CancelNotStranded
    CancelledNeverCompletes
PROPERTIES
    StaleForever
    TerminalIsFinal
    ImplementsFencedLease
