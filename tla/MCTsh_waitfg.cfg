SPECIFICATION FairSpec
CONSTANTS
    MAXJOBS = 1
    Pids = {p1}
    NoPid = NoPid
    JidBound = 1
PROPERTY WaitfgReturns
