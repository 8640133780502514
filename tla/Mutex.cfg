SPECIFICATION MutexSpec
CONSTANTS
    t1 = t1
    t2 = t2
    t3 = t3
    Tasks = {t1, t2, t3}
    NoTask = NoTask
    Lists = {"waiters"}
    NUM_PRIORITIES = 2
    Half = 2
    MaxTimeout = 1
    PREEMPTIVE = TRUE
    ASYNC_ISR = TRUE
    NESTED = TRUE
SYMMETRY Symmetry
INVARIANTS
    TypeOK
    ReadyAgree
    RunningOnStack
    CurrentExecutes
    StackBound
    HandlerAbove
    MutualExclusion
PROPERTY
    HandsOver
