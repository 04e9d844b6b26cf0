SPECIFICATION FairSpec
CONSTANTS
    Threads = {t1, t2, t3}
    Entries = {e1, e2}
    NoThread = NoThread
    MaxHeld = 1
INVARIANTS
    Exclusion
    NoLostWakeup
PROPERTIES
    SleepersWake
    ImplementsLocks
