SPECIFICATION FairSpec
CONSTANTS
    d1 = d1
    d2 = d2
    d3 = d3
    first = first
    second = second
    Events <- BothEvents
    Deliveries <- ThreeDeliveries
    EventOf <- FirstTwice
    Failing <- UpToTwoDefects
    MaxRestarts = 1
INVARIANTS
    EventStoredOnce
    ObservationsMatchEvents
    AcceptedIsStored
PROPERTIES
    EveryDeliveryEnds
CHECK_DEADLOCK FALSE
