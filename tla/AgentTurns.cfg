SPECIFICATION FairSpec
CONSTANTS
    ControlLimit = 1
    PermissionLimit = 2
    MaxCalls = 3
    MaxRequests = 2
    MaxGenerations = 2
    MaxFaults = 1
    IdleInterruptResult = FALSE
INVARIANTS
    OneTurnAtATime
    NoForgottenRequest
    AwaitingMeansPending
    PromptsWereAccepted
PROPERTIES
    LifeSpec
    InterruptEnds
