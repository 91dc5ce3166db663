SPECIFICATION FairSpec
CONSTANTS
    a = a
    b = b
    c = c
    t1 = t1
    t2 = t2
    Shutdown = Shutdown
    Testcases = {t1, t2}
    Workers <- TwoWorkers
    Groups <- TwoWorkers
    GroupOf <- OwnGroupOfTwo
    Routes <- Both
    Finds <- FoundByA
    Capacity = 6
    MaxRestarts <- RestartOfBInTwo
    MaxShutdowns = 1
    Timeouts = FALSE
PROPERTIES
    LauncherEnds
    EveryTestcaseArrives
    SharingDiesOut
CHECK_DEADLOCK FALSE
