\* As SessionSave.cfg, for the copies of an approval.
SPECIFICATION Spec
CONSTANTS
    Background = {b1, b2}
    Main = main
    NoThread = none
    Approvals = {a1}
    MaxTurns = 2
    MaxSessions = 3
    MaxResumes = 2
CHECK_DEADLOCK FALSE
INVARIANT NoneTwice
