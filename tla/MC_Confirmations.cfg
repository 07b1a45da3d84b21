SPECIFICATION ConfirmationsSpec
CONSTANTS
    c1 = c1
    c2 = c2
    Callers <- TwoCallers
    MaxLevel = 5
    ContractMaxLevel = 4
    MaxBlocks = 5
    MaxReorgs = 1
    MaxDepth = 2
    MaxConf = 2
    StartLevel = 0
    Faults = TRUE
    Sharing = TRUE
    MaxAncestors = 1
    LiveWindow = 1
SYMMETRY Symmetry
INVARIANTS ConfirmationsTypeOK FoundOnBranch DoneMeansDepth WaitingIsConnected NoInclusionMissed ResultMeansDepth PendingIsSubscribed NoLevelMissed
PROPERTIES BranchAnswersTruly ConfirmationsCountUp
CHECK_DEADLOCK FALSE
