SPECIFICATION MCSpec
CONSTANTS
    TestcaseId = {1, 2, 3}
    None = None
    Policies = {"fifo", "identity"}
    MaxLen = 2
    DisabledId = {3}
    FewId = {2, 3}
INVARIANTS
    TypeOK
    NeverPanics
    GetIsTransparent
    QueueIsCorpus
    CacheIsListed
PROPERTIES
    EveryTestcaseIsScheduled
CHECK_DEADLOCK FALSE
