SPECIFICATION FairSpec
CONSTANTS
    s1 = s1
    s2 = s2
    alice = alice
    nobody = nobody
    Servers <- OneServer
    Users = {alice}
    NoOwner = nobody
    OwnerLabel <- OneOwner
    NamespaceUser <- OneOwner
    MaxServersGlobal = 1
    MaxServersPerUser = 1
    MaxConcurrentReconciles = 3
    TracksPodGeneration = FALSE
    Budgets <- TwoRequestsAndAFault
PROPERTY StartingResolves
CHECK_DEADLOCK FALSE
