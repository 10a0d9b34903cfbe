\* Safety over three operations: both kinds of file, both decode modes, an open that
\* fails, a hardware decoder that is replaced, a lost device and a rebuild that fails.
SPECIFICATION Safety
CONSTANTS
    Files = {"video", "audio"}
    Modes = {"hardware"}
    Faults = {"open", "fallback", "device", "rebuild"}
    MaxOps = 3
    FramesPerRun = 1
    ChannelCap = 1
    QueueCap = 1
INVARIANTS
    WorkersAreTold
    QueueIsCurrent
    VerdictsFit
PROPERTIES
    ImplementsLatestRequest
\* MaxOps bounds the requests: the system stops once they are used up
CHECK_DEADLOCK FALSE
