\* Playback with nobody pausing for long: it ends by itself.
SPECIFICATION Spec
CONSTANTS
    Files = {"av", "video"}
    End = 2
    AudioEnd = 2
    VideoCap = 1
    AudioCap = 1
    SinkCap = 1
    LateBy = 0
    Commands = {"open", "toggle", "seek", "scrub", "rate", "clip"}
    Faults = {"endpoint", "device"}
    MaxCommands = 3
PROPERTIES
    EndsEventually
