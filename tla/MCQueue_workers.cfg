SPECIFICATION Spec
CONSTANTS
    w1 = w1
    w2 = w2
    m1 = m1
    m2 = m2
    k = k
    Workers = {w1, w2}
    Messages = {m1, m2}
    KeyOf <- OneKey
    KeyIsWork = TRUE
    MaxNacks = 1
    MaxClaims = 2
    MaxFaults = 2
    Faults = {"redis", "crash", "stop"}
INVARIANTS TypeOK NothingLost FreshClaimStays
CHECK_DEADLOCK FALSE
