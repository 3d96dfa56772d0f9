SPECIFICATION Spec
CONSTANTS
    c1 = c1
    c2 = c2
    x1 = x1
    x2 = x2
    r1 = r1
    NoSession = NoSession
    Sessions = {c1, c2}
    Subdomains = {x1}
    Requests = {r1}
    Owner = c1
    Reserved = x2
    Claimable <- MCClaimable
    Transport = "tcp"
    MaxTunnels = 1
    MaxKeys = 1
SYMMETRY MCSymmetry
INVARIANTS
    TypeOK
    HolderWillRelease
    ActiveIsTracked
    OneCloser
    LiveStreamAtHolder
    StopComplete
    OnlyRefusalsRemain
    SettlesClean
PROPERTIES
    StateMovesForward
    ImplementsDirectory
CHECK_DEADLOCK FALSE
