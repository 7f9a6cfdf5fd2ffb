\* Two workers and a synchronous request; one resume, retry or synchronous
\* import after the first, two faults, two attempts an entry. An import that
\* has settled may stay so.
SPECIFICATION MCFairSpec
CONSTANTS
    w1 = w1
    w2 = w2
    s1 = s1
    R = 3
    Pid <- MCPid
    Blank <- MCBlank
    Late <- MCLate
    Workers <- MCTwoWorkers
    Syncs <- MCSync
    ChunkSize = 2
    MaxAttempts = 2
    MaxStalls = 1
    MaxAsks = 1
    MaxFaults = 2
INVARIANTS
    TypeOK
    CheckpointCovers
    OnlyRetryDisplaces
PROPERTIES
    JobSettles
CHECK_DEADLOCK FALSE
