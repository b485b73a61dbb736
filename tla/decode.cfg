CONSTANTS
    Ends = {0, 5}
    Chunk = 3
    DeltaMin = 1
    MaxInitial = 1
    MaxTokens = 3
    LongSequence = 2
    Temperatures = 2
    BestOf = 2
    Languages = {"fixed"}
    KvMayFail = TRUE
    MaxCalls = 2
SPECIFICATION FairSpec
INVARIANTS SegmentsInOrder ReportedOnce
PROPERTIES EveryCallEnds ImplementsNativeCall
CHECK_DEADLOCK FALSE
