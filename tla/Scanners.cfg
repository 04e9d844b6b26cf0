SPECIFICATION FairSpec
CONSTANTS
    a1 = a1
    a2 = a2
    m = m
    d = d
    p1 = p1
    AsyncThreads = {a1}
    Manager = m
    Deleter = d
    Free = Free
    Lbas = {1, 2}
    Batches <- Sorted
    UserPools = {p1}
    MaxBlocks = 2
    MaxOpens = 2
INVARIANTS
    GlbExact
    NoMissedWakeup
PROPERTIES
    BatchesEnd
    DeletionRuns
    CloseEnds
CHECK_DEADLOCK FALSE
