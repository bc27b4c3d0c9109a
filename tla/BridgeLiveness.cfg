\* Two calls by two callers, two panels and the worker, one fault.
SPECIFICATION Spec
CONSTANTS
    Callers = {c1, c2}
    Panels = {p1, p2}
    Worker = worker
    QueueMax = 2
    ResultsMax = 1
    Timed = {2}
    MaxCalls = 2
    MaxOpens = 2
    MaxFaults = 1
CHECK_DEADLOCK FALSE
PROPERTIES
    EventuallyDispatched
