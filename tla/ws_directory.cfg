SPECIFICATION FairSpec
CONSTANTS
    c1 = c1
    c2 = c2
    x1 = x1
    x2 = x2
    r1 = r1
    NoSession = NoSession
    Sessions = {c1, c2}
    Subdomains = {x1, x2}
    Requests = {r1}
    Owner = c1
    Reserved = x1
    Claimable <- MCClaimable
    Transport = "ws"
    MaxTunnels = 2
    MaxKeys = 2
PROPERTIES
    ImplementsDirectory
    LostClientForgotten
CHECK_DEADLOCK FALSE
