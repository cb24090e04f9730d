SPECIFICATION Spec
CONSTANTS
    r1 = r1
    r2 = r2
    r3 = r3
    k1 = k1
    k2 = k2
    Requests = {r1, r2, r3}
    Keys = {k1, k2}
    KeyOf <- SharedKey
    Threshold = 2
    MaxRetries = 1
INVARIANTS ProbeIsSettled AnswerFits
