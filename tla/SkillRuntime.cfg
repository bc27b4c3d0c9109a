\* Two steps, budgets of three and two steps, two resumes and two crashes.
SPECIFICATION Spec
CONSTANTS
    first = first
    second = second
    Steps = {first, second}
    Entrypoint = first
    Unknown = unknown
    NoStep = NoStep
    Retries <- MCRetries
    RecoveryNext <- MCRecoveryNext
    StepBudget = 3
    TurnBudget = 2
    MaxResumes = 2
    MaxCrashes = 2
CHECK_DEADLOCK FALSE
INVARIANTS
    TypeOK
    OneStepPerCrash
PROPERTIES
    FinishedForGood
    RunsEnd
