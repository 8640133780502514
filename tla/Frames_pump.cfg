SPECIFICATION FrameFairSpec
CONSTANTS
    t1 = t1
    t2 = t2
    t3 = t3
    a1 = a1
    a2 = a2
    Tasks = {t1, t2}
    Asyncs = {a1}
    SyncTasks = {t2}
    Scheduler = Scheduler
    Nobody = Nobody
    BlockCount = 3
    MaxHeld = 1
    LOOPING_PUMP = TRUE
    NoTask = NoTask
    Lists = {"waiters"}
    NUM_PRIORITIES = 2
    Half = 2
    MaxTimeout = 1
    PREEMPTIVE = TRUE
    ASYNC_ISR = FALSE
    NESTED = TRUE
PROPERTY
    SyncReturns
