CONSTANTS
    Parts = {"condvar", "sched"}
    OnceThreads = {o1}
    CondvarThreads = {m1, m2, m3}
    NoThread = NoThread
    NoDeadline = NoDeadline
    CondvarMaxTime = 1
    Threads = {s1}
    Handles = {h1}
    Addrs = {m1, m2, m3}
    NULL = NULL
    INVALID = INVALID
    MaxTime = 2
    MaxSerial = 4
    NS = 1
    LeapDiffs = {1, INVALID}
SYMMETRY Symmetry
SPECIFICATION PartSpec
INVARIANT CondvarConsistent
INVARIANT ExecutionOrder
PROPERTY ImplementsCondvar
PROPERTY RunKeepsItsHorizon
