SPECIFICATION FairSpec
CONSTANTS
    u1 = u1
    u2 = u2
    u3 = u3
    Threads = {t1, t2}
    Urls = {u1, u2, u3}
    NoUrl = NoUrl
    Kind <- HugeKind
    Quotes <- SomeQuotes
    NSlots = 2
    n = 1
    MaxAccepts = 4
INVARIANTS
    ReadersOrWriter
    HitServesOriginal
    MissesAreMisses
PROPERTIES
    EvictsOnlyWhenFull
    CacheReturns
\* Once MaxAccepts connections were served the workers wait for ever.
CHECK_DEADLOCK FALSE
