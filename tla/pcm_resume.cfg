CONSTANTS
    Total = 7
    Step = 2
    Overlap = 1
    Silent <- SilentWindow
    Legacy <- LegacyLengths
    EvictDuringRun = FALSE
    Budget <- Twice
SPECIFICATION FairSpec
INVARIANTS TypeOK ReadyPcmIsWhole WholeTranscript NoWindowTwice
PROPERTY JobEnds
CHECK_DEADLOCK FALSE
