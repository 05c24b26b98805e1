CONSTANTS
    Parts = {"once", "condvar"}
    OnceThreads = {o1, o2}
    CondvarThreads = {t1, t2}
    NoThread = NoThread
    NoDeadline = NoDeadline
    CondvarMaxTime = 1
    Threads = {s1}
    Handles = {h1}
    Addrs = {a1}
    NULL = NULL
    INVALID = INVALID
    MaxTime = 1
    MaxSerial = 1
    NS = 1
    LeapDiffs = {1}
SPECIFICATION LiveSpec
INVARIANT InitialisedOnce
PROPERTY CallsReturn
PROPERTY CallsEnd
