SPECIFICATION MainFairSpec
CONSTANTS
    t1 = t1
    t2 = t2
    Tasks = {t1, t2}
    NoTask = NoTask
    Lists = {"waiters"}
    NUM_PRIORITIES = 2
    Half = 2
    MaxTimeout = 1
    PREEMPTIVE = TRUE
    ASYNC_ISR = TRUE
    NESTED = FALSE
    Initial = 1
    MaxCount = 1
INVARIANTS
    NoWakeupSleptThrough
PROPERTIES
    TimedWaitEnds
    UrgentRuns
    Served
