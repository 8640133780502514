SPECIFICATION FrameFairSpec
CONSTANTS
    t1 = t1
    t2 = t2
    t3 = t3
    a1 = a1
    a2 = a2
    Tasks = {t1, t2, t3}
    Asyncs = {a1, a2}
    SyncTasks = {t2, t3}
    Scheduler = Scheduler
    Nobody = Nobody
    BlockCount = 4
    MaxHeld = 1
    LOOPING_PUMP = FALSE
    NoTask = NoTask
    Lists = {"waiters"}
    NUM_PRIORITIES = 2
    Half = 2
    MaxTimeout = 1
    PREEMPTIVE = TRUE
    ASYNC_ISR = FALSE
    NESTED = TRUE
INVARIANTS
    WayBack
    FramesOwned
    ResumesInnermost
    SlotOutlives
PROPERTY
    SyncReturns
