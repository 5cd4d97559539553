SPECIFICATION Spec
CONSTANTS
    FailThreshold = 2
    ResetTicks = 2
    MaxRetries = 1
    MaxConcurrency = 1
    c1 = c1
    c2 = c2
    c3 = c3
    k1 = k1
    k2 = k2
    k3 = k3
    Tasks = {c1, c2, c3}
    Guarded = {c1, c2}
    Clients = {k1, k2, k3}
    ClientOf <- ClientOfOwn
INVARIANT
    ProcessInFlightBounded
