SPECIFICATION Spec
CONSTANTS
    r1 = r1
    s1 = s1
    Render = {r1}
    Slot = {s1}
    None = None
    PoolSize = 2
    MaxConcurrent = 2
    MaxRetries = 2
    QueueSize = 2
    MaxPending = 1
    MaxFaults = 2
INVARIANTS TypeOK CountsRight NeverForgotten
PROPERTY ComesBack
