SPECIFICATION Spec
CONSTANTS
    Screen = 9
    Work = 8
    MinClient = 2
    Contents = {3, 7}
    Messages = {"modes", "open", "fit", "drag", "alt", "f10", "menu", "focus", "rclick", "help", "dpi"}
    MaxMessages = 4
INVARIANTS
    MenuFollowsState
    SizeReaches
PROPERTIES
    LoopsServed
    PictureStays
CHECK_DEADLOCK FALSE
