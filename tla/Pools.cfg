CHECK_DEADLOCK FALSE
SPECIFICATION FairSpec
CONSTANTS
    Threads = {t1, t2}
    Putters = {t2}
    MaxPools = 3
    WordBits = 32
    Tags = {a}
    NoTag = NoTag
    NoPool = NoPool
    All = All
    MaxCreates = 2
    MaxFaults = 1
INVARIANTS
    CountExact
    TagsExact
    CrashSafe
    FreedPoolsEmpty
PROPERTIES
    DeletionCompletes
