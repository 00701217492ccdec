SPECIFICATION NpFairSpec
CONSTANTS
  NpMonitor = monitor
  NpProcs = {monitor, other}
  NpForeign = {other}
  LocalOnly = FALSE
  MutableSource = FALSE
  MaxTurns = 2
  MaxIdentity = 1
  MaxNpNow = 3
  MaxNpFaults = 0
PROPERTY OwedIsTold
