SPECIFICATION GatewaySpec
CONSTANTS
    Threads = {r1, r2}
    Keys = {k1}
    MaxRequests = 1
    Window = 4
    MaxTrackedKeys = 1
    MaxTime = 5
    MaxStall = 1
    PoolSize = 1
    TicksPerSecond = 2
    None = None
INVARIANTS
    GatewayTypeOK
PROPERTIES
    RetryAfterIsEnough
    EveryRequestIsServed
