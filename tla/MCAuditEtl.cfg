\* Two runs overlap over three records, the second unreadable; pages of two
\* records, upserts of one record a transaction, two attempts a
\* call. The log may stop growing and the runs may be over.
SPECIFICATION FairSpec
CONSTANTS
    r1 = r1
    r2 = r2
    N = 3
    Runners <- MCRunners
    Bad <- MCBad
    Limits <- MCLimits
    Caps <- MCCaps
    ChunkSize = 1
    MaxRetries = 2
    MaxRuns = 3
INVARIANTS
    TypeOK
    NothingSkipped
PROPERTIES
    DeliverySpec
    ExhaustedIsDelivered
    RunsEnd
CHECK_DEADLOCK FALSE
