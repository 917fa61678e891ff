SPECIFICATION FairSpec
CONSTANTS
    s1 = s1
    s2 = s2
    Sessions <- One
    Fresh <- None
    MaxCaptures = 4
    MaxCrashes = 3
    MaxFaults = 2
    Faults = {"space"}
    PowerLoss = FALSE
INVARIANTS
    TypeOK
    JournalMatchesTurns
    NothingIrreconcilable
PROPERTIES
    StagedAnswerIsKept
    ImplementsTranscript
    ReservationsDrain
