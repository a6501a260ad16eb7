CONSTANTS
    i1 = i1
    i2 = i2
    v1 = v1
    v2 = v2
    p = p
    q = q
    Items = {i1, i2}
    Versions = {v1, v2}
    Ops = {p, q}
    Plan <- Plans
    StagingPerOp = TRUE
    Errors = {"transport", "garbled", "oversized", "unsent"}
    LateCommands = TRUE
    Missing = Missing
    Untouched = Untouched
    Unread = Unread
    NoOp = NoOp
    NoResult = NoResult
    MaxFaults = 2
SPECIFICATION Spec
INVARIANTS
    TypeOK
    RollbacksRestore
    HealthySyncCompletes
PROPERTIES
    CompletedIsCurrent
