SPECIFICATION Spec
CONSTANTS
    Agents = {"a", "b"}
    MaxTexts = 2
    MaxActions = 2
    MaxChanges = 2
INVARIANTS
    PromptsReachTheirAgent
PROPERTIES
    NoLateAnswer
CHECK_DEADLOCK FALSE
