CONSTANTS
    Task = {t1}
    Worker = {w1, w2}
    Content = {"text", "blank"}
    Name = {"report"}
    Field = {"path"}
    Says <- MCSays
    Texts <- MCTexts
    Tool = {"write"}
    Contracts <- MCContracts
    Observations <- MCObservations
    None = None
SPECIFICATION ESpec
INVARIANTS
    RowsBacked
PROPERTIES
    EvidenceCloses
    CompletedOnEvidence
SYMMETRY Processes
