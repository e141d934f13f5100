SPECIFICATION Spec
CONSTANTS
    Langs = {"Go"}
    Sizes = {0}
    DefaultSize = 3
    Room = 2
INVARIANT
    UnsentIsLost
CHECK_DEADLOCK FALSE
