CONSTANTS
    p1 = p1
    p2 = p2
    c1 = c1
    c2 = c2
    n1 = n1
    n2 = n2
    n3 = n3
    ws = ws
    inner = inner
    beside = beside
    f1 = f1
    f2 = f2
    Proc = {p1, p2}
    Runner = {p1, p2}
    Task = {t1, t2}
    NodeId = {n1, n2, n3}
    Invalid = Invalid
    None = None
    Dir = {ws, inner, beside}
    Under <- MCUnder
    TaskRoot = ws
    Call = {c1, c2}
    File = {f1, f2}
    DirOf <- MCDirOf
    Data = {doc, picture}
    Images = {picture}
    Half = Half
    Nothing = Nothing
SPECIFICATION MCSpec
SYMMETRY Symmetry
INVARIANTS
    SchemaWhole
    OnlyNewerRefused
    WholeOrNothing
    ReplyTruthful
    ReceiptStands
    Confined
PROPERTIES
    OneIdentity
    NewNamesKept
