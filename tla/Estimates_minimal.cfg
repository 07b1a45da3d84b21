SPECIFICATION EstimatesSpec
CONSTANTS
    Milligas = {0, 1001, 1000000}
    Sizes = {50, 8191}
    GasLimits = {0}
    MaxOperations = 2
    HardGasOperation = 104000
    HardGasBlock = 260000
INVARIANTS MinimalFeeSuffices
CHECK_DEADLOCK FALSE
