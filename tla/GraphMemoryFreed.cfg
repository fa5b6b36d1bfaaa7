SPECIFICATION Spec
CONSTANTS
    kMinBlockSize = 1
    kSmallSize = 1
    kSmallBuffer = 2
    kLargeBuffer = 4
    kMinLargeAlloc = 3
    kRoundLarge = 2
    MaxSplitSize = 5
    Streams = {s1}
    Segments = {g1}
    MempoolIds = {p1}
    NoPool = NoPool
    Requests = {5, 7}
    Fractions = {}
    GcEnabled = FALSE
    GcThreshold <- NoGc
    MaxUse = 1
    MaxKernels = 0
PROPERTIES
    GraphMemoryRetained
