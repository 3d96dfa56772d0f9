SPECIFICATION Spec
CONSTANTS
    c1 = c1
    c2 = c2
    x1 = x1
    NoSession = NoSession
    Sessions = {c1, c2}
    Subdomains = {x1}
    Requests = {}
    Owner = c1
    Reserved = x1
    Claimable <- MCClaimable
    Transport = "ws"
    MaxTunnels = 1
    MaxKeys = 0
INVARIANTS
    RegistryForgetsEnded
CHECK_DEADLOCK FALSE
