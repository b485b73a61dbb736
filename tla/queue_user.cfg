CONSTANTS
    MaxJobs = 2
    VideoJobs <- NoVideo
    d1 = d1
    d2 = d2
    Drains <- TwoDrains
    None = None
    Windows = 1
    ModelMayBeMissing = TRUE
    StatementsMayThrow = TRUE
    LegacyRows = 1
    MaxMessages = 1
    Budgets <- RetryAndDeath
SPECIFICATION Spec
INVARIANT CompletedHasTranscript
PROPERTIES OnlyTheCommitterFails NoSecondResult
SYMMETRY DrainSymmetry
CHECK_DEADLOCK FALSE
