\* Four commands over two seek payloads: several are coalesced before the
\* worker takes one, and a shutdown can follow any of them.
SPECIFICATION Spec
CONSTANTS
    Targets = {t1, t2}
    NoCommand = NoCommand
    Shutdown = Shutdown
    MaxCommands = 4
INVARIANTS
    NothingLost
PROPERTIES
    LatestWins
    CommandServed
    ImplementsLatestRequest
\* the worker exits after a shutdown, and the UI thread need not send anything
CHECK_DEADLOCK FALSE
