SPECIFICATION HistorySpec
CONSTANTS
    Window = 1
    HwRevisions = 2
    HwChangedIds = 1
    DuringPoll = {"append"}
    MaxRows = 4
    MaxEdits = 0
    MaxLost = 0
INVARIANT ShownIsCurrent
CHECK_DEADLOCK FALSE
