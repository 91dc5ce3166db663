SPECIFICATION FairSpec
CONSTANTS
    a = a
    b = b
    NoInput = NoInput
    NotReturned = NotReturned
    LoadIds <- MCLoadIds
    Inputs <- MCInputs
    LoadInputs <- MCLoadInputs
    Verdicts <- MCVerdicts
    HarnessExits = {"Ok"}
    HarnessMayFail = TRUE
    CrashStatuses = {"TargetCrash"}
    HarnessMayExit = TRUE
    HasTimeout = TRUE
    TimeoutStatuses = {"Exit"}
    FuzzerMayFault = FALSE
    SaveMayFail = TRUE
    MaxDepth = 3
    MaxExecs = 4
PROPERTIES
    ImplementsLoadSpec
    ReachesFuzzing
    HungTargetIsStopped
