CONSTANTS
    One = 6
    Epsilon = 1
    Tolerance = 1
    ParityRows = 2
    Bins = 3
    Features = 2
    None = None
    Identities = {dataset, hash}
    ModelingConfigs = {"a", "b"}
    Cases <- MCCases
    Policies <- MCPolicies
    Roundings <- MCRoundings
    Batches <- MCBatches
SPECIFICATION Spec
INVARIANTS
    SweepFindsBestBand
    LockedThresholdIsBest
    ApprovalIsEarned
    ReportsAgree
    TreesAreWalkable
