SPECIFICATION FairSpec
CONSTANTS
    Sessions <- TwoSessions
    JobSids = {}
    Claimers <- TwoClaimers
    MaxBatch = 2
    Idle = 1
    SealIdle = 0
    Duration = 1
    Grace = 1
    Substance = 1
    MaxTurns <- ResumedAndNot
    MaxAge = 2
INVARIANTS
    LeaseIInv
PROPERTIES
    NoSessionInTwoRuns
    EverySessionIsLearned
CHECK_DEADLOCK FALSE
