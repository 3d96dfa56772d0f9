SPECIFICATION FairSpec
CONSTANTS
    Up = 3
    Down = 3
    Window = 1
    Buffer = 1
INVARIANTS
    TypeOK
    
    NoCircularWait
PROPERTIES
    ExchangeEnds
    Answered
    StepsAreBounded
CHECK_DEADLOCK FALSE
