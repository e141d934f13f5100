SPECIFICATION Spec
CONSTANTS
    Langs = {"C"}
    Sizes = {0}
    DefaultSize = 3
    Room = 2
INVARIANT
    LossIsThePath
CHECK_DEADLOCK FALSE
