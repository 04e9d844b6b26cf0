SPECIFICATION FairSpec
CONSTANTS
    t1 = t1
    t2 = t2
    t3 = t3
    t4 = t4
    Threads = {t1, t2, t3, t4}
    NumBuffers = 2
    NumAddrs = 3
    Sizes = {1, 2}
    BufferLimit = 1
    MaxHeld = 1
INVARIANTS
    OneUser
    MemoryExact
PROPERTIES
    WaiterWakes
