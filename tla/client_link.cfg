SPECIFICATION FairSpec
CONSTANTS
    s1 = s1
    s2 = s2
    Streams = {s1, s2}
    MaxAttempts = 1
    MaxDials = 3
    MaxCount = 2
INVARIANTS
    TypeOK
    OnlyLatestOpen
    ConnectedIsAccepted
    BackoffStartsOver
    NothingLeftBehind
    NeverStuck
PROPERTIES
    ImplementsLink
    LossIsRetried
    CloseReturns
CHECK_DEADLOCK FALSE
