\* Three clients and two keys with a budget of one use in four ticks: the budget
\* binds, as a request takes one tick at least.
SPECIFICATION Spec
CONSTANTS
    Clients = {c1, c2, c3}
    NKeys = 2
    Budget = 1
    Window = 4
    Rest = 2
    NoJob = NoJob
INVARIANTS
    TypeOK
    BudgetHeld
PROPERTIES
    QueueMoves
