SPECIFICATION Spec
CONSTANTS
    a = a
    b = b
    c = c
    Events = {1}
    Requests <- PairRequests
    EventOf <- PairEventOf
    Models = {m1}
    Clock = {1, 2}
    BudgetLimit = 1
    MaxRestarts = 1
    NoOrder = NoOrder
INVARIANTS
    OrphanOrdersAreLogged
CHECK_DEADLOCK FALSE
