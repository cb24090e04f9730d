SPECIFICATION Spec
CONSTANTS
    j1 = j1
    j2 = j2
    Jobs = {j1, j2}
    MaxScore = 2
    Threshold = 2
    Fallback = TRUE
    MinJobs = 1
    MaxBatch = 2
    MaxSend = 1
    MaxOffers = 2
    MaxEarly = 1
    MaxFaults = 1
INVARIANTS TypeOK ProcessedWasRanked AnnouncedOnce
PROPERTY MatchesAreRanked
CHECK_DEADLOCK FALSE
