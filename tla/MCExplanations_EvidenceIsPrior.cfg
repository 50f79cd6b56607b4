SPECIFICATION Spec
CONSTANTS
    r1 = r1
    r2 = r2
    r3 = r3
    d1 = d1
    d2 = d2
    card = card
    Decisions <- TwoDecisions
    EntityOf <- OneEntity
    Requests <- PairRequests
    DecisionOf <- PairDecisionOf
    MaxAttempts = 1
    BudgetLimit = 1
    MaxRestarts = 0
INVARIANTS
    EvidenceIsPrior
CHECK_DEADLOCK FALSE
