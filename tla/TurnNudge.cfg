\* As TurnLoop.cfg, for the number of nudges.
SPECIFICATION Spec
CONSTANTS
    MaxTurns = 4
    MaxNudges = 2
    MaxStreak = 1
INVARIANTS
    NudgesBounded
