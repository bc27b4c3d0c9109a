\* Two threads beside the main one, two turns in three processes, two restored
\* snapshots, one action to approve.
SPECIFICATION Spec
CONSTANTS
    Background = {b1, b2}
    Main = main
    NoThread = none
    Approvals = {a1}
    MaxTurns = 2
    MaxSessions = 3
    MaxResumes = 2
SYMMETRY Symmetry
CHECK_DEADLOCK FALSE
INVARIANTS
    TypeOK
    SettledIsNewest
    SnapshotNotOlder
PROPERTIES
    RefreshKeepsPlan
