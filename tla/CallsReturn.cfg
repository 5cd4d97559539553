SPECIFICATION FairSpec
CONSTANTS
    FailThreshold = 2
    ResetTicks = 1
    MaxRetries = 1
    MaxConcurrency = 1
    c1 = c1
    c2 = c2
    c3 = c3
    k1 = k1
    k2 = k2
    k3 = k3
    Tasks = {c1, c3}
    Guarded = {c1}
    Clients = {k1}
    ClientOf <- ClientOfShared
PROPERTY
    CallsReturn
