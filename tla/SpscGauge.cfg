SPECIFICATION GaugeFairSpec
CONSTANTS
    N = 4
    MaxItems = 9
    Callers = {"producer", "consumer"}
INVARIANTS
    ExactlyOnceInOrder
    IndicesCountItems
    NoSharedSlot
    RingInv
    CountIsSnapshot
PROPERTIES
    LiveSlotsStable
    ImplementsFifo
    EverythingDelivered
