SPECIFICATION FairSpec
CONSTANTS
    j1 = j1
    j2 = j2
    m1 = m1
    m2 = m2
    Crons = {"digest", "accumulation"}
    Jobs = {j1, j2}
    Messages = {}
    JobsOf <- None
    DailyCap <- CapOne
    MaxRetries = 0
    StartPlans = {"free", "pro"}
    StartRows = {"pending", "missed"}
    StartJobs = {"fresh", "expired"}
    Faults = {"crash", "db"}
    Env = {"midnight", "plan"}
INVARIANT AtMostOnce
PROPERTIES PendingGoesOut ProMissedComesBack ClaimsEnd
CHECK_DEADLOCK FALSE
