CONSTANTS
    n1 = n1
    q1 = q1
    q2 = q2
    A = A
    B = B
    t1 = t1
    c1 = c1
    Names = {n1}
    Sqls = {q1, q2}
    Systems = {A, B}
    Servers = {v1}
    Calls = {c1}
    ToolSets <- ValidSets
    Permitted <- PermittedLibraries
    Broken = Broken
    MaxEdits = 1
    None = None
    Keys = {k1}
    Window = 3
    Limits = {0, 1, 2}
    Second = 2
    MaxTime = 9
    NoWindow = NoWindow
    StdioPools = {p1, p2}
    Statements = {s1, s2}
    Conns = {h1}
    NoConn = NoConn
    Tables = {t1}
    Columns = {c1}
    FilterColumn <- FilterOf
    Counts = {0, 1, 2}
    MaxRows = 3
    NoCount = NoCount
    NoTable = NoTable
    ListKeys = {k1, k2, k3}
    Fetchers = {f1, f2}
    Ttl = 2
    MaxLists = 2
    MaxClock = 2
    Codes = {e1, e2}
    Errors = {x1, x2, x3}
    Lookups = {l1, l2, l3}
    NoLookup = NoLookup
    Links = {a1, a2, a3}
    SshJobs = {j1, j2, j3}
    NoLink = NoLink
    FileSet <- FileExamples
    MaxFiles = 3
    BuiltIn = {"q"}
    MaxText = 3
    Together = Together
    NoError = NoError
    MaxPieces = 4
    HighWater = 2
SPECIFICATION MCSpec
INVARIANTS
    RunsOnItsOwnCheck
    LiveToolsFollow
    TwicePerWindow
    ShutdownIsComplete
    HeldWhileRunning
    AnswerIsExact
    ListsFreshAndFew
    LookedUpOnce
    ConnectionIsWatched
    ValidationPredictsStartup
    FileIsWhole
PROPERTIES
    ReloadCatchesUp
    LeavesWithItsClient
    TimedStatementsSettle
    RetryIsAnswered
CHECK_DEADLOCK FALSE
