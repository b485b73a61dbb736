CONSTANTS
    MaxJobs = 1
    VideoJobs <- FirstIsVideo
    d1 = d1
    d2 = d2
    Drains <- TwoDrains
    None = None
    Windows = 1
    ModelMayBeMissing = FALSE
    StatementsMayThrow = FALSE
    LegacyRows = 0
    MaxMessages = 1
    Budgets <- TwoOfThree
SPECIFICATION Spec
INVARIANTS TypeOK CurrentJobIsHeld CompletedHasTranscript CancelSticks
SYMMETRY DrainSymmetry
CHECK_DEADLOCK FALSE
