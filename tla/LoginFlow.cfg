CONSTANTS
    Runtimes = {r1, r2}
    MaxStarts = 3
    None = None
    MaxManaged = 2
SPECIFICATION FairSpec
INVARIANTS
    TypeOK
    RunningIsKnown
PROPERTIES
    EndedIsNotRevived
    LoginEnds
