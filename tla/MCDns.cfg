SPECIFICATION FairSpec
CONSTANTS
    Domains = {"a", "b"}
    MaxServers = 2
    MaxStates = 2
    MaxReports = 1
    MaxDomains = 1
    MaxFaults = 1
    MaxCrashes = 1
    MaxEvents = 1
INVARIANTS TypeOK
PROPERTIES StateNotReverted AddressPublished AddressWithdrawn NetworkingCollected
CHECK_DEADLOCK FALSE
