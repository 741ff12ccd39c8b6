SPECIFICATION Spec
CONSTANTS
    MaxJobs = 3
    MaxProcesses = 3
    MaxMisdeeds = 2
INVARIANTS
    ReusedIsClean
    OneJobPerMisdeed
PROPERTIES
    ResultsAreOfTheRequest
CHECK_DEADLOCK FALSE
