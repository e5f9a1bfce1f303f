SPECIFICATION FairSpec
CONSTANTS
    a = a
    b = b
    r1 = r1
    r2 = r2
    p1 = p1
    p2 = p2
    Events = {a, b}
    Readers = {r1, r2}
    Publishers = {p1, p2}
    Capacity = 2
    Limits = {1, 2}
    MaxBatch = 2
    MaxEvents = 3
INVARIANTS
    RingIsTail
    NothingMissed
PROPERTIES
    ImplementsLog
    WaitersWake
