SPECIFICATION Spec
CONSTANTS
    p1 = p1
    p2 = p2
    k1 = k1
    k2 = k2
    k3 = k3
    r1 = r1
    r2 = r2
    w1 = w1
    x1 = x1
    None = None
    Photos = {p1}
    Uploads = {k1}
    Requests = {r1}
    Imported = {p1}
    QueueWorkers = {w1}
    Exporters = {x1}
    BadSources = {}
    MaxCalls = 2
    MaxAttempts = 2
    MaxStalls = 1
    MaxEnqueues = 1
INVARIANTS
    TypeOK
    LossOnlyByDeletion
    BucketMatchesRows
PROPERTIES
    RetakeStays
    QueuedPhotoSettles
CHECK_DEADLOCK FALSE
