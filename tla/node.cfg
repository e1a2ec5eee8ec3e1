SPECIFICATION FairSpec
CONSTANTS
    r1 = r1  alice = alice
    N = 2
    Requests <- TwoPorts
    Found <- NewAndOld
    TopPort = 3
    Calls = {r1}
    Targets = {alice}
    Target <- OneCall
    Genuine = {r1}
    Inactive = {alice}
    CreatedAt <- Creations
    RegisteredAt <- Registrations
    MaxBlock = 3
    MaxSignals = 1
CHECK_DEADLOCK FALSE
INVARIANTS TypeOK PortsDistinct FailureStopsStarted ExitTellsWhy TrackedIsConsistent
PROPERTIES TroubleEndsNode
