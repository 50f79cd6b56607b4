SPECIFICATION FairSpec
CONSTANTS
    a = a
    b = b
    c = c
    Events = {1, 2}
    Requests <- MCRequests
    EventOf <- MCEventOf
    Models = {m1}
    Clock = {1, 2}
    BudgetLimit = 1
    MaxRestarts = 1
    NoOrder = NoOrder
INVARIANTS
    OneOrderPerEvent
    ScoredOncePerEvent
    OrdersWithinBudget
    AllowIsBackedByOrder
    AnswersMatchLedger
    ReviewQueueIsExact
    TimestampsNeverRejected
PROPERTIES
    ImplementsDecisionLedger
    RequestsEndUnlessFrozen
CHECK_DEADLOCK FALSE
