CONSTANTS
    MaxCalls = 3
    Keys = {k1}
    None = None
    FirstRev = 0
    MaxPending = 2
    MaxChildren = 2
    MaxFaults = 1
SPECIFICATION FairSpec
PROPERTIES
    ReconcileRecovers
CHECK_DEADLOCK FALSE
