SPECIFICATION MeetFairSpec
CONSTANTS
    t1 = t1
    t2 = t2
    t3 = t3
    b1 = b1
    b2 = b2
    Tasks = {t1, t2, t3}
    NoTask = NoTask
    Lists = {"waiters"}
    NUM_PRIORITIES = 1
    Half = 2
    MaxTimeout = 1
    PREEMPTIVE = TRUE
    ASYNC_ISR = FALSE
    NESTED = FALSE
    None = None
    Bits = {t1, t2, t3}
    Requests <- NoWaits
INVARIANT
    RoundsAreClean
PROPERTIES
    IsBarrier
    AllPass
