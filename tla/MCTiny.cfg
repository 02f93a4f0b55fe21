SPECIFICATION FairSpec
CONSTANTS
    c1 = c1
    c2 = c2
    Clients = {c1, c2}
    NoClient = NoClient
    NL = NL
    RioBuf = 3
    PipeCap = 2
    MaxLine = 3
    Paths <- MCPaths
    Dynamic <- MCDynamic
    HomeOf <- MCHomeOf
    Extensions <- MCExtensions
    Disk <- MCDisk
    Unlinked = {"/home", "/cgi-bin"}
    Requests <- MCRequests
INVARIANTS
    CallsKeepPromise
    AnswerIntact
    ReadsWholeRequest
PROPERTIES
    ClientsAnswered
\* Once every client was served the server waits for ever.
CHECK_DEADLOCK FALSE
