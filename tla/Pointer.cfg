\* Two presses, two moves and a key or a change of Ctrl, in any order and at any speed, over
\* the picture, two spots of the strip, the caption bar and outside the window.
SPECIFICATION PointerSpec
CONSTANTS
    Targets = {"video", "spot1", "spot2", "caption", "away"}
    Keys = {"space", "back", "open", "full"}
    MaxPresses = 2
    MaxMoves = 2
    MaxKeys = 1
    MaxQueue = 2
INVARIANTS
    GestureServed
    NoGestureLeft
\* the bounds stop the hand, and then everything
CHECK_DEADLOCK FALSE
