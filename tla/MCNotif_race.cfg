SPECIFICATION Spec
CONSTANTS
    j1 = j1
    j2 = j2
    m1 = m1
    m2 = m2
    Crons = {"accumulation"}
    Jobs = {j1}
    Messages = {m1}
    JobsOf <- One
    DailyCap <- CapTwo
    MaxRetries = 1
    StartPlans = {"free"}
    StartRows = {"none", "pending"}
    StartJobs = {"fresh"}
    Faults = {}
    Env = {}
INVARIANT AtMostOnce
CHECK_DEADLOCK FALSE
