CONSTANTS
    w1 = w1
    w2 = w2
    tool = tool
    Task = {t1}
    Worker = {w1, w2}
    NoWorker = NoWorker
    NoLease = NoLease
    NoCall = NoCall
    LeaseTime = 1
    MaxDelay = 1
    PlanLength = 2
    Key = {0, 1}
    ToolOf <- MCToolOf
    MaxGen = 2
    MaxAttempt = 2
    MaxFaults = 1
SPECIFICATION Spec
SYMMETRY Workers
INVARIANTS
    CheckpointBacked
    RecordIsTruthful
PROPERTIES
    ImplementsTaskLife
    QueueRefined
    JournalRefined
