\* Three further calls in a turn, two nudges, one automatic turn in a row.
SPECIFICATION Spec
CONSTANTS
    MaxTurns = 3
    MaxNudges = 2
    MaxStreak = 1
INVARIANTS
    TypeOK
    AnswerShown
    InterruptHeeded
    NeverSilentlyUnverified

    
