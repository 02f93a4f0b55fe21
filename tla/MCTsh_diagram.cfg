SPECIFICATION Spec
CONSTANTS
    MAXJOBS = 1
    Pids = {p1}
    NoPid = NoPid
    JidBound = 1
PROPERTY OnlyDiagramTransitions
