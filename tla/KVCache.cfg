CHECK_DEADLOCK FALSE
SPECIFICATION CSpec
CONSTANTS
    k1 = k1
    k2 = k2
    k3 = k3
    v1 = v1
    t1 = t1
    t2 = t2
    Threads = {t1, t2}
    Keys = {k1, k2, k3}
    Values = {v1}
    Slots = {1, 2, 3}
    MaxCollision = 1
    Probe <- OwnSlots
    Sectors <- OneSize
    Inline = {v1}
    ValueLen = 2
    Ops = {"put", "get", "delete"}
    Replace = {TRUE, FALSE}
    Exact = {FALSE}
    Expiries = {0}
    ExpiryOn = FALSE
    MaxClock = 2
    MaxIovs = 2
    MaxQueue = 0
    Failing <- DevicePcs
    MaxOps = 2
    Exclusive = {"delete"}
    Indexes = {1, 2, 3}
    CacheProbe <- Windows
    Deletable = {k3}
    Torn = Torn
    NoRec = NoRec
    NoRequest = NoRequest
    NoResult = NoResult
    NoEntry = NoEntry
    NoContext = NoContext
INVARIANTS
    MappingTrue
    CachePlacement
PROPERTIES
    ImplementsMap
SYMMETRY Alike
