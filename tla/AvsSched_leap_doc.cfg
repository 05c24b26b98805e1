CONSTANTS
    Threads = {t1}
    Handles = {h1}
    Addrs = {a1}
    NULL = NULL
    INVALID = INVALID
    MaxTime = 1
    MaxSerial = 1
    NS = 1
    LeapDiffs <- AllDiffs
SYMMETRY Symmetry
SPECIFICATION Spec
INVARIANT ScheduledInstantsValid
