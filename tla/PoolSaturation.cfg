SPECIFICATION Spec
CONSTANTS
    CorePoolSize = 0
    MaximumPoolSize = 1
    QueueCapacity = 2
    RejectionPolicies = {"caller_runs", "discard_oldest", "discard"}
    MaxCalls = 4
    MaxPrestarts = 0
    MaxCloses = 1
    MaxSpawnFailures = 1
    MaxFaults = 1
INVARIANTS
    QueueNeverStranded
    OneJobPerWorker
    CountersMatchAnswers
    AbortLosesNoJob
    NoLeakedProcess
PROPERTIES
    NeverRunAgain
    ClosedAnswersClosed
