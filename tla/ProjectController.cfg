CONSTANTS
    Calls = {c1, c2, c3}
    Hosts = {n1, n2}
    Targets = {n1, n2}
    Roots = {r1, r2}
    None = None
    MaxFaults = 1
SPECIFICATION Spec
CHECK_DEADLOCK FALSE
SYMMETRY Symmetry
INVARIANTS
    TypeOK
    OneAtATime
    TargetsUnique
    UndisturbedHostsAgree
    SomeoneProceeds
