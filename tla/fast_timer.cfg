SPECIFICATION FairSpec
CONSTANTS
    Timeout = 2
    MaxRuns = 3
INVARIANTS
    TypeOK
    AlarmsFollowOverruns
PROPERTIES
    HangIsInterrupted
    DeleteReturns
CHECK_DEADLOCK FALSE
