\* Two slots in the queue and three operations: the vector empties in the middle
\* of an operation, and frames of every earlier device are still in flight.
SPECIFICATION Spec
CONSTANTS
    QueueCap = 2
    LateBy = 1
    MaxPts = 3
    MaxHandles = 5
    MaxOps = 3
INVARIANTS
    SurfacesKept
    QueueSound
PROPERTIES
    ImplementsSurfaceMap
\* MaxHandles and MaxOps bound the frames and the operations
CHECK_DEADLOCK FALSE
