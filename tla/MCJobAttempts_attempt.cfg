SPECIFICATION FairSpec
CONSTANTS
    Jobs <- TwoJobs
    Callers <- EveryCaller
    MaxAttempts = 2
    MaxDeaths = 1
    MaxFaults = 1
    Faults <- AnyFault
INVARIANTS
    AttemptInv
    NoUnsettledOverlap
    Cadence
PROPERTIES
    FenceIsCleared
CHECK_DEADLOCK FALSE
