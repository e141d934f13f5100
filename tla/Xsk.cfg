SPECIFICATION Spec
CONSTANTS
    NumFrames = 6
    ChunkSize = 2
    FillSize = 2
    TxSize = 2
    RxSize = 2
    CompSize = 2
    MaxNb = 2
    Headroom = 1
    CallbackSkips = FALSE
INVARIANTS
    FramesConserved
    FillCreditConserved
    ReservedIsSubmitted
