CONSTANTS
    Sources = {s1, s2}
    OpIds = {o1, o2}
    Keys = {k1, k2}
    Bodies = {b1, b2}
    OpTypes = {"project.open", "schedule.create", "gateway.bind"}
    ExecutedFailCodes = {"SESSION_CONTROL_FRAME_TOO_LARGE"}
    SameKeyPerId = TRUE
    NoOp = NoOp
    NoBody = NoBody
    MaxRequests = 3
    MaxFaults = 1
SPECIFICATION Spec
SYMMETRY Symmetry
INVARIANTS
    TypeOK
    OneOperationPerKey
    ReportsHold
    RecordsAreHonest
    AdapterIsBound
