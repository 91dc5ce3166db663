SPECIFICATION Spec
CONSTANTS
    TestcaseId = {1, 2, 3}
    None = None
    Policies = {"fifo"}
    MaxLen = 2
    DisabledId = {3}
INVARIANTS
    GetFromAllFinds
