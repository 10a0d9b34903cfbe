\* Every kind of file, everything a user does and everything that fails, four times in
\* any mixture. The media is longer than the queues, and its sound ends before its picture.
SPECIFICATION Safety
CONSTANTS
    Files = {"av", "video", "audio"}
    End = 3
    AudioEnd = 2
    VideoCap = 2
    AudioCap = 1
    SinkCap = 1
    LateBy = 0
    Commands = {"open", "toggle", "seek", "scrub", "step", "rate", "clip"}
    Faults = {"endpoint", "device", "run"}
    MaxCommands = 4
INVARIANTS
    TypeOK
    IntentKept
PROPERTIES
    SilentWhenPaused
    PlayheadKept
    NaturalEndIsComplete
    ShowsFromTarget
