SPECIFICATION Spec
CONSTANTS
    ControlLimit = 2
    PermissionLimit = 1
    MaxCalls = 3
    MaxRequests = 1
    MaxGenerations = 1
    MaxFaults = 0
    IdleInterruptResult = TRUE
INVARIANTS
    IdleMeansNoTurn
