SPECIFICATION Spec
CONSTANTS
    MaxCalls = 3
    MaxDrops = 1
INVARIANTS
    OneInitializeSucceeds
    RefusedForAReason
    HandlesAreOpen
    OnePoolAtATime
CHECK_DEADLOCK FALSE
