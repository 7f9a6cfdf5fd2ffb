SPECIFICATION Spec
CONSTANTS
    c1 = c1
    c2 = c2
    r1 = r1
    r2 = r2
    d = d
    e = e
    None = None
    Cells = {c1, c2}
    Rates = {0, 1}
    Params = {d, e}
    Default = d
    Requests = {r1, r2}
    MaxCalls = 5
SYMMETRY MCSymmetry
INVARIANTS
    TypeOK
    PublishedIsSnapshot
    RollbackRestores
CHECK_DEADLOCK FALSE
