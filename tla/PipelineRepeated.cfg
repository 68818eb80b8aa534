CONSTANTS
    d1 = d1  d2 = d2  d3 = d3
    m1 = m1  m2 = m2  m3 = m3
    s1 = s1  s2 = s2
    Delivery = {d1, d2, d3}
    Message = {m1, m2, m3}
    Session = {s1, s2}
    MessageOf <- Repeated
    SessionOf <- OneSession
    KindOf <- TurnAndHandshake
    Concurrency = 2
    MaxQueue = 1
    Batching = TRUE
    None = None
    MaxFaults = 0
    MaxCrashes = 1
SPECIFICATION Spec
INVARIANTS
    ReleasedIsUntracked
    NobodyWaitsInACircle
PROPERTIES
    ContractImplemented
CHECK_DEADLOCK FALSE
