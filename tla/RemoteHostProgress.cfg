CONSTANTS
    Sources = {s1}
    OpIds = {o1, o2}
    Keys = {k1, k2}
    Bodies = {b1}
    OpTypes = {"project.open", "gateway.bind"}
    ExecutedFailCodes = {"SESSION_CONTROL_FRAME_TOO_LARGE"}
    SameKeyPerId = TRUE
    NoOp = NoOp
    NoBody = NoBody
    MaxRequests = 2
    MaxFaults = 1
SPECIFICATION FairSpec
PROPERTIES
    RunningSettles
    ImplementsLedger
