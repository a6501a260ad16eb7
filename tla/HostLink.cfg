CONSTANTS
    MaxCalls = 4
    Keys = {k1}
    None = None
    FirstRev = 1
    MaxPending = 2
    MaxChildren = 3
    MaxFaults = 2
SPECIFICATION FairSpec
INVARIANTS
    TypeOK
    PendingIsInProgress
PROPERTIES
    RefusedOnlyAfterLoss
    CallsSettle
CHECK_DEADLOCK FALSE
