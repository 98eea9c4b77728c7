CONSTANTS
    w1 = w1
    w2 = w2
    a1 = a1
    a2 = a2
    a3 = a3
    k1 = k1
    k2 = k2
    k3 = k3
    Task = {t1}
    Worker = {w1, w2}
    Key = {k1, k2, k3}
    NoCall = NoCall
    MaxAttempt = 2
    Op = {"write", "read"}
    OpOf <- MCOpOf
    Guarded = {"write"}
    Plan = {p1}
    Approval = {a1, a2}
    NoAction = NoAction
    NoInvocation = NoInvocation
SPECIFICATION ASpec
SYMMETRY Symmetry
INVARIANTS
    AtMostOnce
    EveryStartPaid
PROPERTIES
    DecisionStands
    LateAnswerIgnored
    AdmissionRefinesJournal
