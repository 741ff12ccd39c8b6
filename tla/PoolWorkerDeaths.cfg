SPECIFICATION Spec
CONSTANTS
    CorePoolSize = 2
    MaximumPoolSize = 2
    QueueCapacity = 2
    RejectionPolicies = {"abort"}
    MaxCalls = 4
    MaxPrestarts = 1
    MaxCloses = 0
    MaxSpawnFailures = 1
    MaxFaults = 2
INVARIANTS
    TypeOK
    PoolBounds
    NoIdleWhileQueued
    CoreRestored
