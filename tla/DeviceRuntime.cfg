SPECIFICATION Spec
CHECK_DEADLOCK FALSE
CONSTANTS
    Max = Max
    Nil = Nil
    No = No
    Word = Word
    Yes = Yes
    a1 = a1
    a2 = a2
    a3 = a3
    b1 = b1
    b2 = b2
    c1 = c1
    c2 = c2
    d1 = d1
    d2 = d2
    g1 = g1
    g2 = g2
    r1 = r1
    r2 = r2
    s0 = s0
    s1 = s1
    s2 = s2
    t1 = t1
    t2 = t2
    hostAddresses <- HostAddressesConstants
    hostStreams <- HostStreamsConstants
    configs <- ConfigConstants
    contexts <- GuardsConstants
    poolDraws <- PoolDrawsConstants
    poolThreads <- PoolThreadsConstants
    libraryHandles <- LibraryHandlesConstants
    workspaces <- WorkspacesConstants
    mathModes <- MathModesConstants
    launchRing <- LaunchRingConstants
    launchBuffers <- LaunchBuffersConstants
INVARIANTS
    HostMemorySafe
    SettingsFollow
    IpcMemorySafe
    SegmentsSound
    DeletersValid
    SnapshotsTrue
    CustomMemorySafe
    CopiesOrdered
    ScopesRestored
    RandomAsEager
    HandlesSafe
    AssertionsReported
PROPERTIES
    Reproduced
