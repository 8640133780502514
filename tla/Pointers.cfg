SPECIFICATION PointersSpec
CONSTANTS
    n1 = n1
    n2 = n2
    n3 = n3
    n4 = n4
    h1 = h1
    h2 = h2
    Nodes = {n1, n2, n3, n4}
    Heads = {h1, h2}
    BlockCount = 4
    MaxCount = 4
    PREEMPTIVE = FALSE
INVARIANTS
    RingInv
    ChainIntact
    AllocatesFree
    CountExact
PROPERTY
    ActsOnSequences
