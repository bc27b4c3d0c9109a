\* Sixteen replies over three targets, in any order, with every outcome.
SPECIFICATION DispatchSpec
CONSTANTS
    a = a
    b = b
    c = c
    Targets = {a, b, c}
    MaxDelegated = 2
    Replies <- MCReplies
    NoAction = NoAction
    Gate = Gate
INVARIANTS
    DispatchTypeOK
    NothingAfterFailure
    AccountedFor
    AnswerIsClean
    TrueWhenFresh
