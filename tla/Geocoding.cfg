SPECIFICATION GeoSpec
CONSTANTS
    t1 = t1
    t2 = t2
    torontoCA = torontoCA
    TorontoCA = TorontoCA
    salemOR = salemOR
    oslo = oslo
    kToronto = kToronto
    kSalem = kSalem
    kOslo = kOslo
    Tasks = {t1, t2}
    Cities = {torontoCA, TorontoCA, salemOR, oslo}
    Keys = {kToronto, kSalem, kOslo}
    KeyOf <- Normalized
    Suffix <- Suffixes
    Places <- Resolved
    Candidates <- CandidatesApart
    MaxAnswer = 2
    TTL = 1
    MaxSize = 1
SYMMETRY Callers
INVARIANTS
    GeoTypeOK
    SuffixHonoured
    NotFoundIsTrue
    RegionFirst
