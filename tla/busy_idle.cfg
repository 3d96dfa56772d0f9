SPECIFICATION Spec
CONSTANTS
    c1 = c1
    x1 = x1
    r1 = r1
    NoSession = NoSession
    Sessions = {c1}
    Subdomains = {x1}
    Requests = {r1}
    Owner = c1
    Reserved = x1
    Claimable <- MCClaimable
    Transport = "ws"
    MaxTunnels = 1
    MaxKeys = 1
PROPERTIES
    NoBusyIdleClose
CHECK_DEADLOCK FALSE
