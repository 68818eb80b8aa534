CONSTANTS
    Events <- MCEvents
    MaxObjects = 2
    MaxBuffered = 1
    MaxRepeats = 1
    Wired = TRUE
SPECIFICATION FairSpec
INVARIANTS
    BeliefIsTrue
    NothingDropped
PROPERTIES
    
    RunsAreReleased
CHECK_DEADLOCK FALSE
