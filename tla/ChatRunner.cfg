CONSTANTS
    c1 = c1  c2 = c2  m1 = m1  m2 = m2
    Rotator = rotator  Nobody = nobody
    Call = {c1, c2}
    Message = {m1, m2}
    Pushes <- MCPushes
    Slash = {m2}
    Image = {m2}
    Backed = TRUE
    Attempts = 2
    ConflictAttempts = 3
    MaxRuns = 2
    MaxEvents = 2
SPECIFICATION FairSpec
INVARIANTS
    WaitersMatch
    
    WaitingRunIsListed
PROPERTIES
    CallsReturn
CHECK_DEADLOCK FALSE
