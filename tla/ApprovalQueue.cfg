\* Two agents and two reviewers, two requests in the same second, one crash.
SPECIFICATION Spec
CONSTANTS
    Agents = {a1,a2}
    Reviewers = {r1, r2}
    Uids = {u1, u2}
    Stamps = {s1}
    MaxSuffix = 1
    MaxCommands = 2
    MaxCrashes = 1
    NoId = NoId
    NoFile = NoFile
    NoEntry = NoEntry
SYMMETRY Symmetry
CONSTRAINT ReviewersMeetAlone
CHECK_DEADLOCK FALSE
INVARIANTS
    TypeOK
    RanIsTrue
    HandlerOncePerCrash
    NoLostEntry
PROPERTIES
    DecisionsStick
