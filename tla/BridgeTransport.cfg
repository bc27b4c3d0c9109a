\* Three calls of one caller (one that gave up counts as another), two panels, two faults.
SPECIFICATION Spec
CONSTANTS
    Callers = {c1}
    Panels = {p1, p2}
    Worker = worker
    QueueMax = 2
    ResultsMax = 1
    Timed = {1, 3}
    MaxCalls = 3
    MaxOpens = 2
    MaxFaults = 2
SYMMETRY Symmetry
CHECK_DEADLOCK FALSE
INVARIANTS
    TypeOK
    AtMostOnce
    DispatchOrder
    NoSilentLoss
PROPERTIES
    ImplementsService
