SPECIFICATION Spec
CONSTANTS
    s1 = s1
    s2 = s2
    Senders <- TwoSenders
    MaxForeign = 0
    MaxOps = 2
    Faults = FALSE
SYMMETRY Symmetry
INVARIANTS LimitsFit
CHECK_DEADLOCK FALSE
