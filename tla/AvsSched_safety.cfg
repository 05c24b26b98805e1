CONSTANTS
    Threads = {t1, t2}
    Handles = {h1, h2}
    Addrs = {a1, a2}
    NULL = NULL
    INVALID = INVALID
    MaxTime = 1
    MaxSerial = 3
    NS = 1
    LeapDiffs = {}
SYMMETRY Symmetry
SPECIFICATION Spec
INVARIANT JobsConsistent
INVARIANT NoLostWakeup
