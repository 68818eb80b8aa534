CONSTANTS
    MaxTurns = 2
    MaxWork = 1
    MaxTrouble = 2
    FinalNotice = TRUE
    NudgeNotice = TRUE
    Routed = TRUE
SPECIFICATION FairSpec

    
PROPERTIES
    
    
    StalledTurnIsJudged
CHECK_DEADLOCK FALSE
