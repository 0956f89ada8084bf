SPECIFICATION FairSpec
CONSTANTS
    Ips = {a, b}
    None = None
    Cost = 2
    Burst = 2
    Idle = 3
    MaxWindow = 5
INVARIANTS
    WindowBound
PROPERTIES
    ImplementsTokenBucket
    IdleVisitorsForgotten
