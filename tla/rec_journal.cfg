SPECIFICATION FairSpec
CONSTANTS
    Recordings = 2
    Deaths = 1
    Troubles = {"writeFails","diesAfterStop","ignoresCard","queueRefuses"}
INVARIANTS TypeOK DraftIsOpen AudioIsReachable MicReleased
PROPERTIES OnlyDiscardedIsDeleted FailureIsShown
CHECK_DEADLOCK FALSE
