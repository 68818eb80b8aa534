CONSTANTS
    m1 = m1  m2 = m2  m3 = m3
    s1 = s1  s2 = s2
    Message = {m1, m2, m3}
    Session = {s1, s2}
    SessionOf <- TwoShareASession
    None = None
    MaxSends = 3
SPECIFICATION TrackerSpec
INVARIANTS
    NamedReplyIsNotRepeated
    FiledTruly
    NothingLeftBehind
CHECK_DEADLOCK FALSE
