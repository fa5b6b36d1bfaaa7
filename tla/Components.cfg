SPECIFICATION Spec
CHECK_DEADLOCK FALSE
CONSTANTS
    Nil = Nil
    a1 = a1
    a2 = a2
    h1 = h1
    h2 = h2
    k1 = k1
    k2 = k2
    p1 = p1
    p2 = p2
    t1 = t1
    t2 = t2
    t3 = t3
    u1 = u1
INVARIANTS
    FailuresSettled
    CommunicatorsSound
    CollectivesSafe
    RecorderTruthful
    LogsFaithful
    ProfileFaithful
    PadsMeet
    RanksAgree
    ReductionsRight
    ElementsRight
