SPECIFICATION MCSpec
CONSTANTS
    t1 = t1
    t2 = t2
    LastPage = 6
    Layout <- MCLayout
    InitialBrk = 4
    SnapshotBrk = 5
    Value = {0, 1}
    Zero = 0
    InitialContent <- MCInitialContent
    NoData = NoData
    Thread <- MCThread
    CacheLen = 2
    MaxLen = 2
    StartSteps = 1
    MaxSteps = 3
INVARIANTS
    ResetRestores
    DirtyIsComplete
SYMMETRY Symmetry
CHECK_DEADLOCK FALSE
