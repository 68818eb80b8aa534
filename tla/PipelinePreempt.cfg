CONSTANTS
    d1 = d1  d2 = d2  d3 = d3
    m1 = m1  m2 = m2  m3 = m3
    s1 = s1  s2 = s2
    Delivery = {d1, d2, d3}
    Message = {m1, m2, m3}
    Session = {s1, s2}
    MessageOf <- Distinct
    SessionOf <- OneSession
    KindOf <- TurnsAndReminder
    Concurrency = 1
    MaxQueue = 2
    Batching = FALSE
    None = None
    MaxFaults = 1
    MaxCrashes = 0
SPECIFICATION Spec
INVARIANTS
    NewestTurnWaits
PROPERTIES
    AbortedNeverReplies
    QueueImplemented
CHECK_DEADLOCK FALSE
