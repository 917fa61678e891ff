SPECIFICATION HandoverFairSpec
CONSTANTS
    a = a
    b = b
    Requests <- AB
    Tunnelled <- OnlyB
    Captured <- AB
    Scenes <- MCScenes
    Permits = 1
    Chunks = 2
    Buffer = 1
INVARIANTS
    TurnsInv
    EndFollowsCommit
PROPERTIES
    RequestsGoOn
    HandoverIsClean
    ServiceResumes
CHECK_DEADLOCK FALSE
