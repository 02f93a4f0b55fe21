SPECIFICATION Spec
CONSTANTS
    SmallMax = 16
    CHUNKSIZE = 48
    MAX_HEAP = 184
    Junk = Junk
    i1 = i1
    i2 = i2
    i3 = i3
    i4 = i4
    i5 = i5
    i6 = i6
    i7 = i7
    p1 = p1
    p2 = p2
    p3 = p3
    p4 = p4
    p5 = p5
    p6 = p6
    p7 = p7
    Ids = {i1, i2, i3}
    Sizes = {4, 12, 24}
SYMMETRY Symmetry
INVARIANTS
    DriverSatisfied
    HeapTiled
    Coalesced
    ListsExact
PROPERTIES
    FitsBest
    ImplementsAllocator
