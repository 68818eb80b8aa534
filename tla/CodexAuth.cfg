CONSTANTS
    b1 = b1  b2 = b2  p1 = p1  p2 = p2  l1 = l1
    None = None
    Bundle = {b1, b2}
    Profile = {p1, p2}
    ProfileOf <- MCProfileOf
    Login = {l1}
    EnvKey = FALSE
    MaxVersion = 2
    MaxRequests = 2
    MaxTrouble = 2
SPECIFICATION FairSpec
INVARIANTS
    GatewayRunsAgreed
    StatusIsTrue
PROPERTIES
    SyncMonotonic
    ComesToRest
CHECK_DEADLOCK FALSE
