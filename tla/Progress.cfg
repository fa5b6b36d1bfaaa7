SPECIFICATION Spec
CHECK_DEADLOCK FALSE
CONSTANTS
    Nil = Nil
    b1 = b1
    b2 = b2
    c1 = c1
    d1 = d1
    h1 = h1
    p1 = p1
    p2 = p2
    t1 = t1
    t2 = t2
    t3 = t3
    u1 = u1
PROPERTIES
    DroppedMemoryFreed
    WorksProgress
    FailuresHandled
    CallsReturn
