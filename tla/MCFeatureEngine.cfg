SPECIFICATION Spec
CONSTANTS
    None = None
    Short = 1
    Medium = 2
    Long = 3
    Times = {0, 1, 2, 3, 4}
    Ids = {1, 2}
    Attempts <- FourAttempts
    Faults <- FivePoints
    MaxEvents = 3
INVARIANTS
    CountersMatchEvents
    FeaturesAreCausal
PROPERTIES
    FailureLeavesNoTrace
CHECK_DEADLOCK FALSE
