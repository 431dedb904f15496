SPECIFICATION BusySpec
CONSTANTS
    long = long
    short = short
    Message = {long}
    Segments <- MCSegments
    MaxAttempts = 2
    MaxHandings = 2
    MaxDeaths = 1
INVARIANT TypeOK
INVARIANT SentOnce
INVARIANT OneTrueVerdict
INVARIANT NothingForgotten
PROPERTY QueueEmpties
CHECK_DEADLOCK FALSE
