SPECIFICATION FairSpec
CONSTANTS
    t1 = t1
    t2 = t2
    h1 = h1
    h2 = h2
    n1 = n1
    N1 = N1
    bad = bad
    o1 = o1
    None = None
    Tokens = {t1, t2}
    Spellings = {n1, N1, bad}
    Slugs = {o1}
    Handshakes = {h1, h2}
    TokenOf <- MCTokenOf
    Lower <- MCLower
    Valid = {n1}
    Listed = {t1}
    MaxItems = 2
INVARIANTS
    TypeOK
    StatusesAreTrue
    OrganizationHasOwner
    AdmittedByAdmin
PROPERTIES
    ImplementsGrants
    RegistrationEnds
CONSTRAINT Scope
CHECK_DEADLOCK FALSE
