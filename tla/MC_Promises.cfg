SPECIFICATION PromisesSpec
CONSTANTS
    c1 = c1
    c2 = c2
    Callers <- TwoCallers
    MaxLevel = 4
    MaxBlocks = 4
    MaxReorgs = 0
    MaxDepth = 2
    MaxConf = 2
    Faults = TRUE
    Sharing = TRUE
PROPERTIES KeepsPromise WalletKeepsPromise
CHECK_DEADLOCK FALSE
