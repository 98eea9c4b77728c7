CONSTANTS
    w1 = w1
    w2 = w2
    tool = tool
    Task = {t1}
    Worker = {w1, w2}
    NoWorker = NoWorker
    NoLease = NoLease
    NoCall = NoCall
    LeaseTime = 2
    MaxDelay = 1
    PlanLength = 1
    Key = {0}
    ToolOf <- MCToolOf
    MaxGen = 3
    MaxAttempt = 3
    MaxFaults = 2
SPECIFICATION LiveSpec
PROPERTIES
    Settles
    CancelTakesEffect
