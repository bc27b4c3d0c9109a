\* Two daemons and one terminal, four commands (or deaths of a daemon) in three days
\* of two moments each.
SPECIFICATION Spec
CONSTANTS
    Daemons = {d1, d2}
    Clients = {c1}
    Cadence <- MCCadence
    When <- MCWhen
    PerDay = 2
    Hour = 1
    MonthEnds <- MCMonthEnds
    NoDaemon = none
    MaxCommands = 4
CONSTRAINT FewAfterFault
CHECK_DEADLOCK FALSE
INVARIANTS
    TypeOK
    SchedulesKept
    RunsOncePerTime
PROPERTIES
    DueRuns
