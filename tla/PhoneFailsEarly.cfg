SPECIFICATION Spec
CONSTANTS
    long = long
    short = short
    Message = {long}
    Segments <- MCSegments
    MaxAttempts = 2
    MaxHandings = 2
    MaxDeaths = 0
INVARIANT OnlySpentBudgetFails
CHECK_DEADLOCK FALSE
