CONSTANTS
    Events <- MCEvents
    MaxObjects = 2
    MaxBuffered = 1
    MaxRepeats = 0
    Wired = FALSE
SPECIFICATION FairSpec
PROPERTIES
    LateTextIsRecovered
CHECK_DEADLOCK FALSE
