SPECIFICATION FairSpec
CONSTANTS
    Runs = {r1, r2, r3}
    Pids = {p1, p2, p3}
    NoFile = NoFile
    MaxDeaths = 2
    Attempts = 3
INVARIANTS
    LockInv
PROPERTIES
    IsMutex
    NoStaleLock
CHECK_DEADLOCK FALSE
