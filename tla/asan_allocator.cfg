SPECIFICATION Spec
CONSTANTS
    Granule = 4
    MemSize = 80
    AddrSize = 4
    AllocAlign = 8
    RedZone = 8
    QuarantineSize = 48
    Lens = {1, 4, 6, 34}
    Aligns = {0, 4, 16}
INVARIANTS
    TypeOK
    LegalCallsSucceed
    BoundsEnforced
    FreedIsPoisoned
    RecordsAgree
PROPERTY QuarantineHoldsBack
CHECK_DEADLOCK FALSE
