CONSTANTS
    Ends = {0, 5}
    Chunk = 3
    DeltaMin = 1
    MaxInitial = 1
    MaxTokens = 3
    LongSequence = 2
    Temperatures = 2
    BestOf = 2
    Languages = {"auto", "fixed"}
    KvMayFail = TRUE
    MaxCalls = 2
SPECIFICATION Spec
INVARIANT SuccessIsWhole
CHECK_DEADLOCK FALSE
