SPECIFICATION FairSpec
CONSTANTS
    MaxAgents = 2
    RecordLimit = 3
    Ids = 3
    MaxGenerations = 2
    MaxCalls = 3
    MaxFailures = 1
    MaxAbandoned = 1
INVARIANTS
    SlotsExclusive
    OneProcessPerAgent
    ShutdownStopsAll
PROPERTIES
    StopMeansReaped
    EveryCallReturns
    OrphansEnd
CHECK_DEADLOCK FALSE
