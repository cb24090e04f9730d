SPECIFICATION Spec
CONSTANTS
    j1 = j1
    j2 = j2
    m1 = m1
    m2 = m2
    Crons = {}
    Jobs = {j1, j2}
    Messages = {m1, m2}
    JobsOf <- Both
    DailyCap <- CapOne
    MaxRetries = 1
    StartPlans = {"free"}
    StartRows = {"none"}
    StartJobs = {"fresh"}
    Faults = {"db", "redis", "crash"}
    Env = {"age", "midnight"}
INVARIANTS TypeOK AtMostOnce WithinDailyCap FailedHasRetry
PROPERTY SentIsFinal
CHECK_DEADLOCK FALSE
