CONSTANTS
    p = p
    c = c
    None = None
    Order <- MCOrder
    Parent <- MCParent
    MaxChanges = 6
SPECIFICATION Spec
INVARIANTS
    TypeOK
    ToolsFollowAccess
    RunsAreAuthorised
CHECK_DEADLOCK FALSE
