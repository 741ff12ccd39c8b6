SPECIFICATION Spec
CONSTANTS
    CorePoolSize = 1
    MaximumPoolSize = 1
    QueueCapacity = 1
    RejectionPolicies = {"abort"}
    MaxCalls = 1
    MaxPrestarts = 0
    MaxCloses = 0
    MaxSpawnFailures = 0
    MaxFaults = 1
INVARIANTS
    ClosedOnlyAfterShutdown
