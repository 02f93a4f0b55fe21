SPECIFICATION FairSpec
CONSTANTS
    Producers = {main}
    Consumers = {w1, w2, w3}
    Items = {fd1, fd2}
    NoItem = NoItem
    n = 2
    MaxInserts = 5
INVARIANTS
    TypeOK
    MutualExclusion
    SlotsAccounted
PROPERTIES
    ImplementsFifo
    EachInsertedIsTaken
    InsertReturns
\* Once MaxInserts connections were inserted the workers wait for ever.
CHECK_DEADLOCK FALSE
