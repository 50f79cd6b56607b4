SPECIFICATION Spec
CONSTANTS
    d1 = d1
    d2 = d2
    d3 = d3
    first = first
    second = second
    Events <- BothEvents
    Deliveries <- TwoDeliveries
    EventOf <- FirstOnly
    Failing <- UpToTwoDefects
    MaxRestarts = 1
INVARIANTS
    StorageErrorsAreTransient
CHECK_DEADLOCK FALSE
