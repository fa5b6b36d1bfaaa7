SPECIFICATION Spec
CONSTANTS
    kMinBlockSize = 1
    kSmallSize = 1
    kSmallBuffer = 2
    kLargeBuffer = 4
    kMinLargeAlloc = 3
    kRoundLarge = 2
    MaxSplitSize = 100
    Streams = {s1}
    Segments = {g1}
    MempoolIds = {p1, p2}
    NoPool = NoPool
    Requests = {1}
    Fractions = {}
    GcEnabled = FALSE
    GcThreshold <- NoGc
    MaxUse = 1
    MaxKernels = 0
INVARIANTS
    SyncOutsideCapture
