SPECIFICATION FairSpec
CONSTANTS
    CorePoolSize = 0
    MaximumPoolSize = 1
    QueueCapacity = 1
    RejectionPolicies = {"caller_runs", "discard"}
    MaxCalls = 3
    MaxPrestarts = 0
    MaxCloses = 1
    MaxSpawnFailures = 1
    MaxFaults = 1
INVARIANTS
    EveryCallInOnePlace
PROPERTIES
    EveryCallAnswered
    ClosedPoolStopsProcesses
    ExcessRetired
