SPECIFICATION FairSpec
CONSTANTS
    c1 = c1
    c2 = c2
    Callers <- OneCaller
    MaxLevel = 4
    MaxBlocks = 4
    MaxReorgs = 0
    MaxDepth = 2
    MaxConf = 2
    Faults = FALSE
    Sharing = FALSE
PROPERTIES LateCallResolves
CHECK_DEADLOCK FALSE
