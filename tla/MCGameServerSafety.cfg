SPECIFICATION Spec
CONSTANTS
    s1 = s1
    s2 = s2
    alice = alice
    nobody = nobody
    Servers <- TwoServers
    Users = {alice}
    NoOwner = nobody
    OwnerLabel <- TwoOwners
    NamespaceUser <- TwoOwners
    MaxServersGlobal = 2
    MaxServersPerUser = 1
    MaxConcurrentReconciles = 3
    TracksPodGeneration = FALSE
    Budgets <- ThreeRequestsOrAFault
INVARIANTS TypeOK PodsHaveFinalizer NoStatusLeak LimitRespected
SYMMETRY Symmetry
CHECK_DEADLOCK FALSE
