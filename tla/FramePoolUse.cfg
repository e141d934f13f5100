SPECIFICATION Spec
CONSTANTS
    NumFrames = 5
    ChunkSize = 2
INVARIANTS
    NoFrameLostOrDuplicated
    HeldIsAccepted
