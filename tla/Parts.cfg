SPECIFICATION PartsSpec
CONSTANTS
    Ids = {m1, m2, m3}
    Threads = {h1, h2}
    NoThread = NoThread
    MaxPending = 2
    MaxThreadPending = 2
    MaxTerminal = 0
    MaxRow = 4
    Images = {i1, i2, i3}
    MaxImages = 2
    MaxAtFaults = 2
    c1 = c1
    c2 = c2
    c3 = c3
    c4 = c4
    app1 = app1
    app2 = app2
    Apps = {app1, app2}
    DkCalls = {c1, c2, c3, c4}
    AppOf <- TwoApps
    MaxKey = 3
    MaxDkFaults = 4
    Machines = {h1, h2}
    Local = local
    RemoteCalls = {read, write}
    LocalCalls = {here}
    Mutating = {write}
    Changers = {x1}
    MaxRevision = 1
    MaxClients = 2
    MaxCuts = 1
    NpMonitor = monitor
    NpProcs = {monitor, hook}
    NpForeign = {}
    LocalOnly = TRUE
    MutableSource = TRUE
    MaxTurns = 1
    MaxIdentity = 2
    MaxNpNow = 5
    MaxNpFaults = 1
    Window = 2
    HwRevisions = 2
    HwChangedIds = 1
    DuringPoll = {}
    MaxRows = 4
    MaxEdits = 1
    MaxLost = 1
    CqThreads = {t1}
    CqUses = {{"monitor", "hook"}, {"monitor", "stop"}, {"scan", "hook"}}
    CqMaxAge = 0
    CqRetention = 1
    CqMaxDay = 3
    CqMaxSwitches = 2
    CqMaxFaults = 1
    NoError = NoError
    CeErrors = {e1}
    CeProcs = {h1, h2}
    CeBatch = 1
    CeLate = FALSE
    CeMaxRow = 2
    CeMaxLog = 2
    CeMaxFaults = 1
    DaOwners = {o1, o2}
    DaIds = {1}
    DaBodies = {b1, cut}
    DaOpaque = {cut}
    NoBody = NoBody
    DaChanCap = 1
    DaMaxAsked = 3
    DaMaxSession = 1
    DuThreads = {s1, s2}
    DuMaxWorkers = 1
    DuMaxCalls = 2
    DuMaxRevision = 1
    HsSlots = 1
    HsPage = 2
    HsTotals = {3}
    HsMaxRuns = 2
    HsMaxFaults = 1
    Jobs = {j1, j2}
    JbExclusive = {TRUE}
    JbWriters = {j1}
    JbMaxLines = 1
    JbMaxFaults = 1
SYMMETRY Symmetry
INVARIANTS
    PartsTypeOK
    OneAtATimeInOrder
    SentStays
    IndexMatchesFiles
    KeyIsStable
    RecoversAlone
    AnswerOfItsMachine
    WrittenOnce
    NoneLeftOpen
    ToldOncePerTurn
    NothingHistoric
    WindowIsRight
    AskedWhileOffStaysQuiet
    CursorCoversIncidents
    IncidentIsTrue
    DecidedAsShown
    SubscriptionFollowsView
    ScanIsWholeOrStopped
    JobsRunWhole
PROPERTY
    NotToldAgainWhileKept
CHECK_DEADLOCK FALSE
