SPECIFICATION WorkerSpec
CONSTANTS
    NumFrames = 5
    ChunkSize = 2
    FillSize = 1
    TxSize = 2
    RxSize = 1
    CompSize = 2
    MaxNb = 2
    Headroom = 1
    CallbackSkips = FALSE
    Roles = {"ECHO"}
    Batch = 2
    MaxPackets = 5
    NeedsKick = FALSE
    MaxArrivals = 2
    DropCap = 2
INVARIANTS
    EchoAnswersOnly
