SPECIFICATION FairHSpec
CONSTANTS
    k1 = k1
    k2 = k2
    v1 = v1
    v2 = v2
    t1 = t1
    t2 = t2
    t3 = t3
    Threads = {t1, t2, t3}
    Keys = {k1, k2}
    Values = {v1}
    Slots = {1, 2, 3}
    MaxCollision = 2
    Probe <- Colliding
    Sectors <- OneValue
    Inline = {v1}
    ValueLen = 1
    Ops = {"put", "delete"}
    Replace = {TRUE}
    Exact = {}
    Expiries = {1}
    ExpiryOn = TRUE
    MaxClock = 3
    MaxIovs = 2
    MaxQueue = 0
    Failing = {"gen_read", "put_write"}
    MaxOps = 1
    Exclusive = {}
    Torn = Torn
    NoRec = NoRec
    NoRequest = NoRequest
    NoResult = NoResult
INVARIANTS
    SafeListExact
PROPERTIES
    WriteLocked
    CallsEnd
CHECK_DEADLOCK FALSE
