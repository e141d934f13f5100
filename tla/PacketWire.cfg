SPECIFICATION Spec
CONSTANTS
    LittleEndian = TRUE
    DstPorts = {4789}
    Payloads = {8}
    BufferSizes = {256}
    Pcps = {15}
    Vids = {5000}
    Vnis = {258, 16777216}
    MaxLayers = 2
    MaxFrames = 2
    FlippedBits = {0, 11}
INVARIANTS
    ChecksumMatchesWire
CHECK_DEADLOCK FALSE
