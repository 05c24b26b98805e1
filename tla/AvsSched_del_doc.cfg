CONSTANTS
    Threads = {t1, t2}
    Handles = {h1, h2}
    Addrs = {a1}
    NULL = NULL
    INVALID = INVALID
    MaxTime = 1
    MaxSerial = 2
    NS = 1
    LeapDiffs = {}
SYMMETRY Symmetry
SPECIFICATION Spec
PROPERTY RemovedJobIsLeftAlone
