SPECIFICATION ForgingSpec
CONSTANTS
    Ints = {0}
    Texts <- OneText
    AnnotLists <- NoneOrTwo
    MaxValues = 4
    MaxNumber = 1
INVARIANTS ValuesReadBack
CHECK_DEADLOCK FALSE
