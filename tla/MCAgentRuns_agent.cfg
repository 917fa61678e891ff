SPECIFICATION FairSpec
CONSTANTS
    Runners <- TwoRunners
    Settings <- ThreeSettings
    MaxDeaths = 1
    MaxFailures = 1
    MaxUpsets = 1
INVARIANTS
    RunInv
PROPERTIES
    ProgressIsKept
    RecoveryWaitsForTheAgent
    PendingIsConcluded
CHECK_DEADLOCK FALSE
