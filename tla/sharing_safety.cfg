SPECIFICATION Spec
CONSTANTS
    a = a
    b = b
    c = c
    t1 = t1
    t2 = t2
    Shutdown = Shutdown
    Testcases = {t1, t2}
    Workers <- ThreeWorkers
    Groups <- ThreeWorkers
    GroupOf <- OwnGroup
    Routes <- Chain
    Finds <- FoundAtTheEnds
    Capacity = 1
    MaxRestarts <- RestartOfB
    MaxShutdowns = 1
    Timeouts = TRUE
INVARIANTS
    TypeOK
    OnlyAlongRoutes
    LiveWorkersAreKnown
PROPERTIES
    NoEcho
CHECK_DEADLOCK FALSE
