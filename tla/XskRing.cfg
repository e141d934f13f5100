SPECIFICATION FairSpec
CONSTANTS
    Size = 4
    Wrap = 8
    MaxNb = 3
    MaxItems = 9
INVARIANTS
    ExactlyOnceInOrder
    CountersOrdered
PROPERTIES
    InFlightStable
    ImplementsFifo
    EverythingDelivered
