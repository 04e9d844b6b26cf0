SPECIFICATION Spec
CONSTANTS
    k1 = k1
    k2 = k2
    Capacity = 70
    SectorSize = 2
    ValueRange = 4
    MaxPools = 3
    TagsPerSector = 4
    HashWidth = 8
    TinyHashLen = 4
    MaxCollision = 3
    Keys = {k1, k2}
    Pools = {0, 1}
    HashValues = {5, 6, 15, 17}
    SharedDeletes = TRUE
    NoData = NoData
    Meta = Meta
INVARIANTS
    Kept
CHECK_DEADLOCK FALSE
