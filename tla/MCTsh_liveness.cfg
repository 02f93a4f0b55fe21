SPECIFICATION FairSpec
CONSTANTS
    MAXJOBS = 1
    Pids = {p1, p2}
    NoPid = NoPid
    JidBound = 2
PROPERTY ReapedIsDeleted
