SPECIFICATION Spec
CONSTANTS
    Names = 3
    Unplayable = {3}
    Shortest = 1
    MaxRecent = 2
    MinResume = 0
    Inputs = {"open", "drop", "navigate", "recent", "seek", "rate", "reopen", "delete", "lose", "fail", "fatal", "relaunch"}
    MaxInputs = 3
INVARIANTS
    HistoryKept
    QueueFollowsFile
    SignalIsOfFile
PROPERTIES
    BookmarkOfCurrent
CHECK_DEADLOCK FALSE
