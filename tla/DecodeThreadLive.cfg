\* Liveness with a slot-sized channel and queue and a player that never has to present,
\* while devices are lost in Present, swap chains fail to come up and joins time out, so
\* that workers go on decoding on a device that is gone.
SPECIFICATION Spec
CONSTANTS
    Files = {"video"}
    Modes = {"hardware"}
    Faults = {"path", "present", "wedge"}
    MaxOps = 3
    FramesPerRun = 1
    ChannelCap = 1
    QueueCap = 1
INVARIANTS
    OnLiveDevice
PROPERTIES
    SignalledWorkersLeave
    RequestsAnswered
\* MaxOps bounds the requests: the system stops once they are used up
CHECK_DEADLOCK FALSE
