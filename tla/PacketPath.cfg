SPECIFICATION Spec
CONSTANTS
    LittleEndian = TRUE
    DstPorts = {4789, 9000}
    Payloads = {7, 8, 25}
    BufferSizes = {53, 256}
    Pcps = {15}
    Vids = {5000}
    Vnis = {258, 16777216}
    MaxLayers = 2
    MaxFrames = 2
    FlippedBits = {0, 9, 11}
INVARIANTS
    FramesSound
    LayersTransparent
    OnlyHeaderLengthMisleads
    FilterAgreesWithParser
PROPERTY
    FlipCaught
CHECK_DEADLOCK FALSE
