SPECIFICATION Spec
CONSTANTS
    TailLimit = 1
    MaxLimit = 2
    Scripts <- MCScripts
INVARIANTS
    SyncTypeOK
    
    
    PagesCoverOnce
    TurnOverIsShown
    ChipsAgree
    AgentCounts
CHECK_DEADLOCK FALSE
