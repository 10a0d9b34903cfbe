\* An SDR curve on wide primaries, HDR, PQ on BT.709, no picture at all, and what the user and
\* the system do, three in any mixture: two commands and a fault, or one and two.
SPECIFICATION LiveSpec
CONSTANTS
    Files = {"wide", "pq", "clash", "sound"}
    Commands = {"open", "seek", "timeline", "cue", "recent", "help", "volume", "shot"}
    Faults = {"remove", "refuse", "display", "resize", "fallback"}
    Displays = {{}, {"active", "space"}}
    Subtitles = TRUE
    MaxEvents = 1
    MaxCommands = 2
    MaxFaults = 2
    MaxBoth = 3
INVARIANTS
    RightPath
    ScreenHonest
PROPERTIES
    PictureReturns
