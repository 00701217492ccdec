SPECIFICATION LoopsSpec
CONSTANTS
    Ids = {m1, m2}
    Threads = {t1}
    Own = t1
    NoThread = NoThread
    Foreign = {}
    Owners = {o1}
    NoId = NoId
    NoTurn = NoTurn
    NoOwner = NoOwner
    NoReplica = NoReplica
    MaxPending = 2
    MaxThreadPending = 2
    MaxTerminal = 2
    MaxRow = 2
    ChanCap = 1
    MaxAttempts = 1
    UserOps = {"send", "resume"}
    Env = {}
    r1 = r1
    a1 = a1
    Runs = {r1}
    Accounts = {a1, a2}
    NoAccount = NoAccount
    OwnerOf <- Owner
    MaxAttempt = 2
    Attempts <- OneRerun
    MaxNow = 3
    MaxCiFaults = 1
    NpMonitor = monitor
    NpProcs = {monitor, hook}
    NpForeign = {}
    LocalOnly = TRUE
    MutableSource = FALSE
    MaxTurns = 2
    MaxIdentity = 1
    MaxNpNow = 3
    MaxNpFaults = 1
INVARIANTS
    LoopsTypeOK
    QuietWhileOff
    ShownWasReported
PROPERTIES
    SubmissionSettles
    OnlyMissedWakeUp
    FinishedIsStaged
    OwedIsTold
CHECK_DEADLOCK FALSE
