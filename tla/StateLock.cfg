CONSTANTS
    Procs = {p1, p2, p3}
    Forced = FALSE
    NoLock = NoLock
    MaxWrites = 2
SPECIFICATION LockSpec
CHECK_DEADLOCK FALSE
SYMMETRY Symmetry
INVARIANTS
    LockTypeOK
    SoleOwner
    RefusedByTheLiving
