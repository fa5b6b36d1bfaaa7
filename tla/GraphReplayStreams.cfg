SPECIFICATION Spec
CONSTANTS
    Impls = {r1}
    DefaultGen = r1
    Graphs = {g1}
    None = None
    Streams = {s0, s1}
    DefaultStream = s0
    default_rng_seed_val = 7
    Seeds = {8}
    Draws = {3}
    Offsets = {}
    MaxIntra = 4
    MaxOffset = 8
    MaxQueue = 2
    MaxKernels = 1
    Synchronises = FALSE
    RegistersLate = FALSE
    Nested = FALSE
    Faults = FALSE
INVARIANTS
    GraphedAsEager
