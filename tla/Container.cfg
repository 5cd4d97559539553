SPECIFICATION ProbeSpec
CONSTANTS
    Attempts = 2
    Launches <- MCLaunches
    Cases <- Environments
INVARIANTS
    ProbeTypeOK
    RemoteIsAuthenticated
    SettingsInForce
    CodeIsTrue
    VerdictIsEarned
    LeftoversHaveCause
PROPERTIES
    StartsAsPromised
    EofEnds
    ScriptEnds
