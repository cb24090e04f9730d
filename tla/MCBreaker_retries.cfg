SPECIFICATION BreakerFairSpec
CONSTANTS
    main = main
    digest = digest
    accumulation = accumulation
    Senders = {main, digest, accumulation}
    MaxAttempts = 3
    Threshold = 2
    Cancellable = {digest, accumulation}
INVARIANTS BreakerTypeOK OneProbe
PROPERTY RecoversUnlessOrphaned
CHECK_DEADLOCK FALSE
