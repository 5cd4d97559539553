SPECIFICATION ProbeSpec
CONSTANTS
    Attempts = 2
    Launches <- MCLaunches
    Cases <- Environments
INVARIANT
    HostFromEnvironment
