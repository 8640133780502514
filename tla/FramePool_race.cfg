SPECIFICATION PoolSpec
CONSTANTS
    BlockCount = 4
    MaxCount = 6
    PREEMPTIVE = TRUE
INVARIANT
    CountReadsLinks
