SPECIFICATION FairSpec
CONSTANTS
    j1 = j1
    j2 = j2
    m1 = m1
    m2 = m2
    Crons = {}
    Jobs = {j1, j2}
    Messages = {m1, m2}
    JobsOf <- Both
    DailyCap <- CapOne
    MaxRetries = 1
    StartPlans = {"free"}
    StartRows = {"none", "pending"}
    StartJobs = {"fresh"}
    Faults = {}
    Env = {"pause", "expire"}
INVARIANT NoneStranded
PROPERTY MessagesSettle
CHECK_DEADLOCK FALSE
