SPECIFICATION Spec
CONSTANTS
    s1 = s1
    s2 = s2
    Sessions <- One
    Fresh <- None
    MaxCaptures = 2
    MaxCrashes = 1
    MaxFaults = 0
    Faults = {}
    PowerLoss = FALSE
INVARIANTS
    CrashNeverBlocksRecovery
