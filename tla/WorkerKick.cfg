SPECIFICATION WorkerFairSpec
CONSTANTS
    NumFrames = 5
    ChunkSize = 2
    FillSize = 1
    TxSize = 2
    RxSize = 1
    CompSize = 2
    MaxNb = 2
    Headroom = 1
    CallbackSkips = FALSE
    Roles = {"SOURCE"}
    Batch = 2
    MaxPackets = 6
    NeedsKick = TRUE
    MaxArrivals = 0
    DropCap = 2
PROPERTIES
    TxServiced
