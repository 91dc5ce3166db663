SPECIFICATION Spec
CONSTANTS
    a = a
    b = b
    NoInput = NoInput
    NotReturned = NotReturned
    LoadIds <- MCLoadIds
    Inputs <- MCInputs
    LoadInputs <- MCLoadInputs
    Verdicts <- MCVerdicts
    HarnessExits = {"Ok"}
    HarnessMayFail = FALSE
    CrashStatuses = {"TargetCrash"}
    HarnessMayExit = FALSE
    HasTimeout = FALSE
    TimeoutStatuses = {"Exit"}
    FuzzerMayFault = FALSE
    SaveMayFail = FALSE
    MaxDepth = 3
    MaxExecs = 4
INVARIANTS
    LoadReturnsEveryInput
