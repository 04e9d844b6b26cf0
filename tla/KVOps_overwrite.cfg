SPECIFICATION FairHSpec
CONSTANTS
    k1 = k1
    k2 = k2
    v1 = v1
    v2 = v2
    t1 = t1
    t2 = t2
    t3 = t3
    Threads = {t1, t2}
    Keys = {k1, k2}
    Values = {v1, v2}
    Slots = {1, 2, 3}
    MaxCollision = 2
    Probe <- Colliding
    Sectors <- SameSize
    Inline = {v1, v2}
    ValueLen = 2
    Ops = {"put"}
    Replace = {TRUE}
    Exact = {}
    Expiries = {0}
    ExpiryOn = FALSE
    MaxClock = 1
    MaxIovs = 2
    MaxQueue = 0
    Failing = {}
    MaxOps = 2
    Exclusive = {}
    Torn = Torn
    NoRec = NoRec
    NoRequest = NoRequest
    NoResult = NoResult
PROPERTIES
    NoOverwrite
CHECK_DEADLOCK FALSE
