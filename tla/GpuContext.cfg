\* The UI thread and two decode workers on the shared device, a swap chain of two buffers.
SPECIFICATION Live
CONSTANTS
    UI = ui
    Workers = {w1, w2}
    None = none
    MaxBuffers = 2
INVARIANTS
    VideoCallsAlone
    Unwinds
    DeviceKept
PROPERTIES
    LockComesBack
\* the threads end
CHECK_DEADLOCK FALSE
