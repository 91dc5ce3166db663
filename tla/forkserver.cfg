SPECIFICATION FairSpec
CONSTANTS
    KillSignals = {"SIGTERM", "SIGKILL"}
    CrashExitcodes = {None, 1, 19}
    ExitCode = {0, 1}
    None = None
    MaxRuns = 4
INVARIANTS
    VerdictsAreRight
    DropLeavesNoChild
PROPERTIES
    ExecutionEnds
CHECK_DEADLOCK FALSE
