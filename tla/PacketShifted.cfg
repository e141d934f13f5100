SPECIFICATION Spec
CONSTANTS
    LittleEndian = TRUE
    DstPorts = {4789}
    Payloads = {25}
    BufferSizes = {256}
    Pcps = {15}
    Vids = {5000}
    Vnis = {258}
    MaxLayers = 0
    MaxFrames = 1
    FlippedBits = {0, 9}
INVARIANTS
    DataIsAsSent
CHECK_DEADLOCK FALSE
