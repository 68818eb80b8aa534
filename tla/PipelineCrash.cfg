CONSTANTS
    d1 = d1  d2 = d2  d3 = d3
    m1 = m1  m2 = m2  m3 = m3
    s1 = s1  s2 = s2
    Delivery = {d1, d2}
    Message = {m1, m2, m3}
    Session = {s1, s2}
    MessageOf <- Distinct
    SessionOf <- OneSession
    KindOf <- AllTurns
    Concurrency = 2
    MaxQueue = 1
    Batching = TRUE
    None = None
    MaxFaults = 1
    MaxCrashes = 1
SPECIFICATION FairSpec
INVARIANTS
    OneOutcome
    RecordedUntilAnswered
    BatchesHaveTargets
PROPERTIES
    
    RecordedIsReconciled
CHECK_DEADLOCK FALSE
