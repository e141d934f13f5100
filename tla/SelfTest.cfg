SPECIFICATION SelfTestSpec
CONSTANTS
    Releases = {1, 2, 5}
    StatusFiles = {0, 1, 2, 3, 4, 5, 6}
    Memlocks = {8, 16}
    Langs = {"C", "Go"}
    Sizes = {0, 2}
    DefaultSize = 3
    Room = 2
    SelfTestSize = 1
INVARIANTS
    ReportConsistent
    MirrorsSelect
    UnreadIsNotClean
    OwnEchoUnlessLate
    NothingLeft
    EchoSocketOpen
    LossIsReal
PROPERTIES
    BenchReturns
    GoroutinesEnd
CHECK_DEADLOCK FALSE
