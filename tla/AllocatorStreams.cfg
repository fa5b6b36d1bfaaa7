SPECIFICATION FairSpec
CONSTANTS
    kMinBlockSize = 1
    kSmallSize = 1
    kSmallBuffer = 2
    kLargeBuffer = 4
    kMinLargeAlloc = 3
    kRoundLarge = 2
    MaxSplitSize = 5
    Streams = {s1, s2, s3}
    Segments = {g1}
    MempoolIds = {}
    NoPool = NoPool
    Requests = {1, 5}
    Fractions = {}
    GcEnabled = FALSE
    GcThreshold <- NoGc
    MaxUse = 1
    MaxKernels = 2
INVARIANTS
    FreeMemoryQuiescent
    OomOnlyWhenExhausted
PROPERTIES
    ImplementsMemory
    MutexReleased
