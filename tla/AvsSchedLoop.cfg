CONSTANTS
    Threads = {t1, t2}
    Loop = t1
    Handles = {h1}
    Addrs = {a1, a2}
    NULL = NULL
    INVALID = INVALID
    MaxTime = 2
    MaxSerial = 2
    NS = 1
    LeapDiffs = {}
SPECIFICATION LoopSpec
PROPERTY LoopKeepsUp
