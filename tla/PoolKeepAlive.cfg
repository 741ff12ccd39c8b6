SPECIFICATION Spec
CONSTANTS
    Word = 16
    MillisPerSecond = 2
    SecondsPerMinute = 3
    MinTick = 1
    MaxTick = 2
    CorePoolSize = 1
    MaximumPoolSize = 3
    MaxKeepAlive = 6
    MaxLate = 1
    MaxTime = 13
INVARIANTS
    RetiredInTime
    LongerIsLonger
CHECK_DEADLOCK FALSE
