SPECIFICATION EndlessSpec
CONSTANTS
    JobOrder <- Mixed
    Supervisory <- Health
    Durability <- Empty
    Compression <- Compress
    CapacitySlots <- OneSlot
    Workers = {"w1", "w2", "w3"}
    Every = 2
    RepeatsUnrecorded = TRUE
    LeavesProcesses = TRUE
    MaxRestarts = 1
    MaxMishaps = 1
INVARIANTS
    CapacityInv
PROPERTIES
    ReservedRuns
CHECK_DEADLOCK FALSE
