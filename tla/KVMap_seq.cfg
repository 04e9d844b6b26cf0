SPECIFICATION HSpec
CONSTANTS
    k1 = k1
    k2 = k2
    v1 = v1
    v2 = v2
    t1 = t1
    t2 = t2
    t3 = t3
    Threads = {t1}
    Keys = {k1, k2}
    Values = {v1, v2}
    Slots = {1, 2, 3}
    MaxCollision = 2
    Probe <- Colliding
    Sectors <- SameSize
    Inline = {}
    ValueLen = 2
    Ops = {"put", "get"}
    Replace = {TRUE, FALSE}
    Exact = {TRUE, FALSE}
    Expiries = {0}
    ExpiryOn = FALSE
    MaxClock = 1
    MaxIovs = 2
    MaxQueue = 0
    Failing <- DevicePcs
    MaxOps = 6
    Exclusive = {}
    Torn = Torn
    NoRec = NoRec
    NoRequest = NoRequest
    NoResult = NoResult
PROPERTIES
    ImplementsMap
CHECK_DEADLOCK FALSE
