SPECIFICATION Spec
CONSTANTS
    MAXJOBS = 2
    Pids = {p1, p2, p3}
    NoPid = NoPid
    JidBound = 2
SYMMETRY Symmetry
INVARIANTS
    TypeOK
    AtMostOneFg
    PromptHasNoFg
    TableMatchesChildren
    ForwardsToForeground
PROPERTY OnlyReapedLeave
