CONSTANTS
    Jobs <- TwoJobs
    ModelOf <- TwoModels
    Windows = 2
    MaxLoads = 4
    Length = 2
    Budget <- OnceEach
SPECIFICATION FairSpec
INVARIANTS TypeOK ContextIsRight AbortHasCause CancelStopsReports ModelLostOnlyToEarlyTrim
PROPERTY JobsEnd
CHECK_DEADLOCK FALSE
