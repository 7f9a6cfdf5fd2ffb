\* One worker, one failed row and one retry of it.
SPECIFICATION Spec
CONSTANTS
    w1 = w1
    w2 = w2
    s1 = s1
    R = 3
    Pid <- MCPid
    Blank <- MCBlank
    Late <- MCLate
    Workers <- MCOneWorker
    Syncs = {}
    ChunkSize = 2
    MaxAttempts = 2
    MaxStalls = 1
    MaxAsks = 1
    MaxFaults = 1
INVARIANT
    ImportedRowsStay
CHECK_DEADLOCK FALSE
