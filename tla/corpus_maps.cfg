SPECIFICATION MapsSpec
CONSTANTS
    TestcaseId = {1, 2, 3, 4}
    None = None
INVARIANTS
    LinkedInOrder
    HistoriesAgree
CHECK_DEADLOCK FALSE
