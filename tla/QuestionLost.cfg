SPECIFICATION CqSpec
CONSTANTS
    CqThreads = {t1}
    CqUses = {{"monitor", "hook"}}
    CqMaxAge = 0
    CqRetention = 1
    CqMaxDay = 1
    CqMaxSwitches = 0
    CqMaxFaults = 0
INVARIANT ClaimedWasTold
CHECK_DEADLOCK FALSE
