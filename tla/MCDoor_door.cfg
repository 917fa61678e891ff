SPECIFICATION DoorFairSpec
CONSTANTS
    Paths <- ThreePaths
    Unwanted <- Third
    Earlier = 2
    MaxFires = 1
    Manners <- AnyManners
    MaxWrites = 3
    MaxRunDeaths = 1
    MaxRetries = 1
INVARIANTS
    FilesInv
PROPERTIES
    NewFilesAreHanded
CHECK_DEADLOCK FALSE
