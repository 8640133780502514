SPECIFICATION SemSpec
CONSTANTS
    t1 = t1
    t2 = t2
    t3 = t3
    Tasks = {t1, t2, t3}
    NoTask = NoTask
    Lists = {"waiters"}
    NUM_PRIORITIES = 2
    Half = 3
    MaxTimeout = 2
    PREEMPTIVE = TRUE
    ASYNC_ISR = FALSE
    NESTED = TRUE
    Initial = 1
    MaxCount = 1
SYMMETRY Symmetry
INVARIANTS
    BlockedAgree
    NoInversion
    StrictlyAbove
    NoIdlePermit
    PermitsConserved
    DelayInOrder
PROPERTIES
    IsFair
    KeepsTimeouts
