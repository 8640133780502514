SPECIFICATION Spec
CONSTANTS
    t1 = t1
    t2 = t2
    t3 = t3
    Tasks = {t1, t2, t3}
    NoTask = NoTask
    Lists = {"waiters"}
    NUM_PRIORITIES = 1
    Half = 4
    MaxTimeout = 7
    PREEMPTIVE = FALSE
    ASYNC_ISR = FALSE
    NESTED = FALSE
SYMMETRY Symmetry
PROPERTIES
    TimeoutOnTime
