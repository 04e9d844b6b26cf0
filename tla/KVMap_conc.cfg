SPECIFICATION HSpec
CONSTANTS
    k1 = k1
    k2 = k2
    v1 = v1
    v2 = v2
    t1 = t1
    t2 = t2
    t3 = t3
    Threads = {t1, t2}
    Keys = {k1}
    Values = {v1, v2}
    Slots = {1, 2}
    MaxCollision = 2
    Probe <- SingleKey
    Sectors <- SameSize
    Inline = {}
    ValueLen = 2
    Ops = {"put", "get", "exists", "delete"}
    Replace = {TRUE}
    Exact = {TRUE, FALSE}
    Expiries = {0}
    ExpiryOn = FALSE
    MaxClock = 1
    MaxIovs = 2
    MaxQueue = 0
    Failing <- AllButWrites
    MaxOps = 3
    Exclusive = {"delete"}
    Torn = Torn
    NoRec = NoRec
    NoRequest = NoRequest
    NoResult = NoResult
INVARIANTS
    UniqueKey
PROPERTIES
    ImplementsMap
CHECK_DEADLOCK FALSE
