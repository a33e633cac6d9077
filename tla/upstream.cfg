CONSTANTS
    a = a
    b = b
    Callers = {a, b}
    Profiles <- MCProfiles
    Hosts <- MCHosts
    Keys <- MCKeys
    Permits = 1
    Engines = 2
    Agent = 2
    MaxOpens = 4
SPECIFICATION FairSpec
INVARIANTS PermitsAreReturned SessionsAreTrusted TrustIsKept EngineIsTied
PROPERTY OpenEnds
CHECK_DEADLOCK FALSE
