SPECIFICATION Spec
CONSTANTS
    t1 = t1
    t2 = t2
    Threads = {t1, t2}
    MaxIter = 1
    MaxRanges = 2
    NumSlots = 3
    Pools = {0, 1, 2}
    DefaultPool = 0
    PoolHash <- Hashes
    SlotHash <- Bits
    ManyPools = TRUE
    DeviceErrors = TRUE
    MaxPuts = 1
    MaxDeletes = 1
    NoIter = NoIter
    NoRec = NoRec
SYMMETRY Symmetry
INVARIANTS
    OneOwner
    Forward
    Complete
    ReadsItsPool
    BuffersReturned
PROPERTIES
    PlaceComesBack
CHECK_DEADLOCK FALSE
