SPECIFICATION Spec
CONSTANTS
    kMinBlockSize = 1
    kSmallSize = 2
    kSmallBuffer = 4
    kLargeBuffer = 8
    kMinLargeAlloc = 5
    kRoundLarge = 4
    MaxSplitSize = 10
    Streams = {s1}
    Segments = {g1, g2}
    MempoolIds = {}
    NoPool = NoPool
    Requests = {2, 3, 9, 13}
    Fractions = {20}
    GcEnabled = TRUE
    GcThreshold <- HalfGc
    MaxUse = 1
    MaxKernels = 0
INVARIANTS
    TypeOK
    SegmentsTiled
    FullyCoalesced
    StatsExact
    OversizeUnsplit
