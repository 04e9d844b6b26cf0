SPECIFICATION BSpec
CONSTANTS
    k1 = k1
    k2 = k2
    v1 = v1
    v2 = v2
    t1 = t1
    Threads = {t1}
    Keys = {k1, k2}
    Values = {v1, v2}
    Slots = {1, 2, 3, 4}
    MaxCollision = 3
    Probe <- Threefold
    Sectors <- Longer
    Inline = {v1}
    ValueLen = 3
    Ops = {"put", "exists", "delete"}
    Replace = {TRUE, FALSE}
    Exact = {FALSE}
    Expiries = {1}
    ExpiryOn = TRUE
    MaxClock = 3
    MaxIovs = 3
    MaxQueue = 2
    Failing <- DevicePcs
    MaxOps = 3
    MaxBatch = 2
    Exclusive = {}
    Torn = Torn
    NoRec = NoRec
    NoRequest = NoRequest
    NoResult = NoResult
INVARIANTS
    Placement
    BatchIsStored
    BatchAllOrNothing
CHECK_DEADLOCK FALSE
