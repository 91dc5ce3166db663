SPECIFICATION Spec
CONSTANTS
    a = a
    b = b
    NoInput = NoInput
    NotReturned = NotReturned
    LoadIds <- MCLoadIds
    Inputs <- MCInputs
    LoadInputs <- MCLoadInputs
    Verdicts <- MCVerdicts
    HarnessExits = {"Ok"}
    HarnessMayFail = TRUE
    CrashStatuses = {"TargetCrash"}
    HarnessMayExit = TRUE
    HasTimeout = TRUE
    TimeoutStatuses = {"Exit", "Resume"}
    FuzzerMayFault = TRUE
    SaveMayFail = TRUE
    MaxDepth = 3
    MaxExecs = 4
INVARIANTS
    TypeOK
    LoadAccounted
    LoadReturnsAllOrNothing
    RestartHasSavedState
    DepthIsBalanced
    TargetCrashRestarts
PROPERTIES
    NothingIsUndone
