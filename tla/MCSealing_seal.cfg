SPECIFICATION FairSpec
CONSTANTS
    Leaky <- MCLeaky
    Fields <- TwoFields
    BigFields <- Tools
    Values <- TwoValues
    Messages <- AnyMessages
    Bodies <- SmallBodies
    Conversations <- TwoConversations
    Blocks <- TwoBlocks
    Histories <- ShortHistories
    MaxTurns = 3
    MaxSnapshots = 2
    MaxCrashes = 2
    MaxFaults = 2
    Faults = {"io", "fails", "lies"}
INVARIANTS
    ArchiveInv
    OnlyRedactedIsSealed
    ReaderRebuildsConversation
    CodecIsFaithful
PROPERTIES
    DetachedIsSealed
CHECK_DEADLOCK FALSE
