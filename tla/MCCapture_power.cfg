SPECIFICATION Spec
CONSTANTS
    s1 = s1
    s2 = s2
    Sessions <- Two
    Fresh <- Second
    MaxCaptures = 2
    MaxCrashes = 1
    MaxFaults = 1
    Faults = {"space", "io"}
    PowerLoss = TRUE
PROPERTIES
    MarkerTracksOpenJournal
    AcknowledgedIsKept
