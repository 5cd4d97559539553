SPECIFICATION PipelineSpec
CONSTANTS
    h1 = h1
    h2 = h2
    Hosts = {h1, h2}
    Capacity = 4
    Refill = 1
    Cost = 2
    Idle = 4
    Interval = 2
    MaxWindow = 5
    TokenConfigured = TRUE
SYMMETRY Clients
INVARIANTS
    PipelineTypeOK
    IdleBounded
    WindowBounded
    ServedIsAuthorized
PROPERTIES
    LimitsAsPromised
    RefusalsAreFree
