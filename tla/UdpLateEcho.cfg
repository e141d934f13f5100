SPECIFICATION Spec
CONSTANTS
    Langs = {"C", "Go"}
    Sizes = {0}
    DefaultSize = 3
    Room = 2
INVARIANTS
    SampleIsOwnEcho
CHECK_DEADLOCK FALSE
