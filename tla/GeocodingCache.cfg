SPECIFICATION HistorySpec
CONSTANTS
    paris = paris
    PARIS = PARIS
    oslo = oslo
    lima = lima
    kParis = kParis
    kOslo = kOslo
    kLima = kLima
    Cities = {paris, PARIS, oslo, lima}
    Keys = {kParis, kOslo, kLima}
    KeyOf <- Normalized
    p1 = p1
    p2 = p2
    Places = {p1, p2}
    TTL = 2
    MaxSize = 2
SYMMETRY Providers
INVARIANTS
    SizeBounded
PROPERTY
    CachesAsPromised
