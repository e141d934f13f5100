SPECIFICATION GaugeSpec
CONSTANTS
    N = 4
    MaxItems = 6
    Callers = {"other"}
INVARIANTS
    CountIsSnapshot
