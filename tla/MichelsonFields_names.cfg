SPECIFICATION FieldsSpec
CONSTANTS
    FieldAnnots = {"a", "b"}
    MaxFields = 4
INVARIANTS FieldsReadBack
CHECK_DEADLOCK FALSE
