SPECIFICATION ESpec
CONSTANTS
    k1 = k1
    k2 = k2
    v1 = v1
    t1 = t1
    a1 = a1
    m = m
    Threads = {t1}
    AsyncThreads = {a1}
    Manager = m
    Keys = {k1, k2}
    Values = {v1}
    Slots = {1, 2}
    MaxCollision = 1
    Probe <- Own
    Sectors <- OneSector
    Inline = {v1}
    ValueLen = 2
    Ops = {"put", "exists"}
    Replace = {TRUE}
    Exact = {}
    Expiries = {1}
    ExpiryOn = TRUE
    MaxClock = 2
    MaxIovs = 2
    MaxQueue = 2
    MaxRanges = 2
    ExpiryModes = {"arbitrary", "global"}
    Failing = {}
    ScanErrors = TRUE
    Found <- Earlier
    Torn = Torn
    NoRec = NoRec
    NoRequest = NoRequest
    NoResult = NoResult
INVARIANTS
    ETypeOK
    LbasExact
PROPERTIES
    ExpiredOnly
CHECK_DEADLOCK FALSE
