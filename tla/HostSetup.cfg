CONSTANTS
    v1 = v1
    v2 = v2
    Releases = {v1, v2}
    Procs = {p1, p2}
    None = None
    Wanted <- AnyAfterFirst
    MaxSetups = 3
    MaxFaults = 2
SPECIFICATION FairSpec
INVARIANTS
    TypeOK
    CurrentExists
    HealthySetupCompletes
PROPERTIES
    ReadyMeansInstalled
    SetupEnds
CHECK_DEADLOCK FALSE
