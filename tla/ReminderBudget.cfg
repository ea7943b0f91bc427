SPECIFICATION BudgetSpec
CONSTANTS
    ScanDeadline = 30
    Timeout = 2
    Work = 7
    Reserve = 3
    Lease = 30
INVARIANTS WorkEndsWithinLease ScanEndsInTime ReleaseIsCalled
CHECK_DEADLOCK FALSE
