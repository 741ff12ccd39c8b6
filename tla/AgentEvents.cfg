SPECIFICATION Spec
CONSTANTS
    EventLimit = 2
    Consoles = {"page", "tab"}
    MaxEvents = 5
INVARIANTS
    RingIsSuffix
PROPERTIES
    GapsAnnounced
CHECK_DEADLOCK FALSE
