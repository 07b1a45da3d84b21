SPECIFICATION MetadataSpec
CONSTANTS
    Users = {u1, u2}
    MaxViewHead = 3
INVARIANTS ViewSeesCurrentContext
CHECK_DEADLOCK FALSE
