CONSTANTS
    s1 = s1  r1 = r1  r2 = r2
    Starter = {s1}
    Requester = {r1}
    MaxAttempts = 2
    MaxStale = 2
SPECIFICATION FairSpec
INVARIANTS
    ReadyHasSocket
    EmittedTruly
    ReconnectScheduled
PROPERTIES
    CallsReturnUnlessOrphaned
CHECK_DEADLOCK FALSE
