SPECIFICATION Spec
CONSTANTS
    Ids = {m1, m2}
    Threads = {t1}
    Own = t1
    NoThread = NoThread
    Foreign = {}
    Owners = {o1}
    NoId = NoId
    NoTurn = NoTurn
    NoOwner = NoOwner
    NoReplica = NoReplica
    MaxPending = 2
    MaxThreadPending = 2
    MaxTerminal = 2
    MaxRow = 2
    ChanCap = 1
    MaxAttempts = 1
    UserOps = {"send", "steer", "stop", "cancel", "resume", "dismiss", "confirm"}
    Env = {}
SYMMETRY IdSymmetry
INVARIANTS
    UnsentIsUnsent
    AtMostOnce
PROPERTIES
    NoStartDuringOwnTurn
    PausedUntilAsked
