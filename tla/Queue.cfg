SPECIFICATION QueueSpec
CONSTANTS
    t1 = t1
    t2 = t2
    t3 = t3
    v1 = v1
    v2 = v2
    Tasks = {t1, t2, t3}
    NoTask = NoTask
    Lists = {"receivers", "senders"}
    NUM_PRIORITIES = 1
    Half = 2
    MaxTimeout = 1
    PREEMPTIVE = FALSE
    ASYNC_ISR = FALSE
    NESTED = FALSE
    N = 2
    Values = {v1, v2}
    NoValue = NoValue
SYMMETRY Symmetry
INVARIANTS
    QueueTypeOK
    NobodyStranded
    StorageAgrees
PROPERTIES
    IsFifo
