CONSTANTS
    Ops = {o1, o2}
    Sources = {s1}
    Runtimes = {r1, r2}
    Tickets = {t1, t2}
    Sessions = {w1, w2}
    None = None
    MaxRequests = 2
    MaxFaults = 1
SPECIFICATION Spec
SYMMETRY Symmetry
INVARIANTS
    TypeOK
    OneOperationPerTicket
    CallsAreReserved
    LeaseIsEarned
    TicketsFollowOutcome
