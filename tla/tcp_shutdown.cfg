SPECIFICATION FairSpec
CONSTANTS
    c1 = c1
    c2 = c2
    x1 = x1
    r1 = r1
    NoSession = NoSession
    Sessions = {c1, c2}
    Subdomains = {x1}
    Requests = {r1}
    Owner = c1
    Reserved = x1
    Claimable <- MCClaimable
    Transport = "tcp"
    MaxTunnels = 1
    MaxKeys = 1
PROPERTIES
    StopDrains
CHECK_DEADLOCK FALSE
