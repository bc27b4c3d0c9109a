\* Two runners, two runs over two files of one base name, a new file, four passes, a crash.
SPECIFICATION Spec
CONSTANTS
    x = x
    y = y
    q = q
    u1 = u1
    u2 = u2
    Runs = {u1, u2}
    Runners = {r1, r2}
    Sources = {x, y}
    Bases = {q}
    Actions <- MCActions
    Fresh = {n1}
    MaxSlot = 2
    MaxPasses = 4
    MaxRemoved = 1
    MaxCrashes = 1
    NoFile = NoFile
    NoPath = NoPath
    NoRun = NoRun
SYMMETRY Symmetry
CHECK_DEADLOCK FALSE
INVARIANTS
    TypeOK
    TrailKept
    NothingReplaced
PROPERTIES
    UndoRestores
