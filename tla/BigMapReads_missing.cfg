SPECIFICATION BigMapSpec
CONSTANTS
    BigMapKeys = {"k1", "k2"}
    BatchSize = 2
    MaxKeys = 3
    MaxMapBlocks = 2
INVARIANTS MissingKeysAreUndefined
CHECK_DEADLOCK FALSE
