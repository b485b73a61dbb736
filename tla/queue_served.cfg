CONSTANTS
    MaxJobs = 1
    VideoJobs <- NoVideo
    d1 = d1
    d2 = d2
    Drains <- TwoDrains
    None = None
    Windows = 1
    ModelMayBeMissing = FALSE
    StatementsMayThrow = TRUE
    LegacyRows = 0
    MaxMessages = 1
    Budgets <- StopAndClear
SPECIFICATION ReopeningSpec
PROPERTIES QueuedJobsAreServed ImplementsLifecycle
CHECK_DEADLOCK FALSE
