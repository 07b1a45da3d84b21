SPECIFICATION Spec
CONSTANTS
    c1 = c1
    c2 = c2
    k1 = k1
    k2 = k2
    Callers <- OneCaller
    Keys <- OneKey
    Ttl = 2
    Slack = 0
    MaxPuts = 3
    MaxTime = 3
INVARIANTS CachedForTtl
CHECK_DEADLOCK FALSE
