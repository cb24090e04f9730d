CONSTANTS
    N = 2
    Shards <- MCShards
    MaxPosts = 3
    MaxFaults = 2
    MaxFails = 1
SPECIFICATION Spec
INVARIANT ConfirmedWasHandled
PROPERTIES HandledInOrder ArrivedIsHandled ImplementsAtLeastOnce
CHECK_DEADLOCK FALSE
