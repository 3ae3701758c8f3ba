SPECIFICATION FairSpec
CONSTANTS
    r1 = r1
    r2 = r2
    Reader = {r1}
    Frames = 4
    Parts = 2
    CapIdle = 1
    CapReader = 2
    RecvFails = TRUE
INVARIANTS
    BacklogBounded
    ReadsInOrder
PROPERTIES
    ReaderServed
