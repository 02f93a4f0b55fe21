SPECIFICATION Spec
CONSTANTS
    u1 = u1
    u2 = u2
    u3 = u3
    Threads = {t1}
    Urls = {u1, u2}
    NoUrl = NoUrl
    Kind <- LargeKind
    Quotes <- NoQuotes
    NSlots = 2
    n = 1
    MaxAccepts = 3
INVARIANT CachedCopyIsOriginal
CHECK_DEADLOCK FALSE
