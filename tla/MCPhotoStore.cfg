SPECIFICATION Spec
CONSTANTS
    p1 = p1
    p2 = p2
    k1 = k1
    k2 = k2
    k3 = k3
    r1 = r1
    r2 = r2
    w1 = w1
    x1 = x1
    None = None
    Photos = {p1, p2}
    Uploads = {k1, k2, k3}
    Requests = {r1, r2}
    Imported = {}
    QueueWorkers = {}
    Exporters = {}
    BadSources = {}
    MaxCalls = 5
    MaxAttempts = 1
    MaxStalls = 0
    MaxEnqueues = 0
SYMMETRY MCSymmetry
INVARIANTS
    LossOnlyByDeletion
    BucketMatchesRows
CHECK_DEADLOCK FALSE
