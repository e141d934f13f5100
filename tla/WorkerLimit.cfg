SPECIFICATION WorkerFairSpec
CONSTANTS
    NumFrames = 4
    ChunkSize = 2
    FillSize = 2
    TxSize = 2
    RxSize = 2
    CompSize = 2
    MaxNb = 2
    Headroom = 1
    CallbackSkips = FALSE
    Roles = {"SOURCE"}
    Batch = 2
    MaxPackets = 5
    NeedsKick = FALSE
    MaxArrivals = 0
    DropCap = 2
PROPERTIES
    LimitEndsLoop
