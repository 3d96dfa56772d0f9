SPECIFICATION FairSpec
CONSTANTS
    Up = 2
    Down = 2
    Window = 1
    Buffer = 1
PROPERTIES
    EndIsSignalled
CHECK_DEADLOCK FALSE
