SPECIFICATION AnswersSpec
CONSTANTS
    c1 = c1
    c2 = c2
    k1 = k1
    Callers <- TwoCallers
    Keys <- OneKey
    Ttl = 1
    Slack = 1
    MaxPuts = 2
    MaxTime = 3
INVARIANTS TypeOK EntryHasOwnTimer BoundedStaleness CachedForTtlUnlessCleared
PROPERTIES RejectionForgotten EveryCallReturns EveryCallResolves
CHECK_DEADLOCK FALSE
