SPECIFICATION Spec
CONSTANTS
    Ids = {m1}
    Threads = {t1}
    Own = t1
    NoThread = NoThread
    Foreign = {f1}
    Owners = {o1}
    NoId = NoId
    NoTurn = NoTurn
    NoOwner = NoOwner
    NoReplica = NoReplica
    MaxPending = 2
    MaxThreadPending = 2
    MaxTerminal = 1
    MaxRow = 1
    ChanCap = 1
    MaxAttempts = 1
    UserOps = {"send", "steer", "stop", "resume"}
    Env = {"storage", "event"}
INVARIANTS
    AcceptedWasRun
    SteerIsNeverStarted
