SPECIFICATION LabsSpec
CONSTANTS
    Files <- MCFiles
    NumFiles = 2
    MaxHeap = 8
    Alignment = 2
    KBest = 3
    MaxSamples = 5
    Epsilon = 1
    Unsigned = 16
    Times = {7, 100, 101, 130}
    TestRange = 4
    MaxTestVals = 52
    Weights <- MCWeights
    Commands <- MCCommands
    MaxAlarms = 1
    Jobs <- MCJobs
    OldMisses <- MCOldMisses
    MaxFailures = 1
    s = 1
    E = 3
    b = 1
    Addresses <- MCAddresses
    TagBits = 3
    Garbage <- MCGarbage
    MaxOps = 6
INVARIANTS
    AcceptedApart
    IndexHonest
    UtilisationBounded
    KBestKept
    PointsHonest
    CorrectIsWhole
    SubmissionRated
    LinesOrdered
PROPERTIES
    TestsEnd
    ImplementsLru
CHECK_DEADLOCK FALSE
