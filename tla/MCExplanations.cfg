SPECIFICATION FairSpec
CONSTANTS
    r1 = r1
    r2 = r2
    r3 = r3
    d1 = d1
    d2 = d2
    card = card
    Decisions <- TwoDecisions
    EntityOf <- OneEntity
    Requests <- TripleRequests
    DecisionOf <- TwoDecisionsOf
    MaxAttempts = 2
    BudgetLimit = 2
    MaxRestarts = 1
INVARIANTS
    OneCallAtATime
    AttemptChain
    PendingHasOwner
    BudgetCountsCalls
PROPERTIES
    NoCallAfterReady
    EveryRequestEnds
CHECK_DEADLOCK FALSE
