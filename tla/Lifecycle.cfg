CONSTANTS
    r1 = r1  r2 = r2  s1 = s1  s2 = s2
    None = None  Activation = Activation
    Run = {r1, r2}
    Session = {s1, s2}
    SessionMaps <- ApartOrTogether
    MaxPending = 2
    MaxGen = 7
    MaxMishaps = 3
SPECIFICATION FairSpec
INVARIANTS
    RegisteredFirst
    SettledView
PROPERTIES
    LeavesWhenTaken
    ViewCatchesUp
CHECK_DEADLOCK FALSE
