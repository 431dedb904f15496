SPECIFICATION FairSpec
CONSTANTS
    TimeoutMs = 2
    MaxRetries = 2
    Pauses <- PausesOneOrTwo
    Wait = 3
    Interval = 2
    Horizon = 24
INVARIANT TypeOK
INVARIANT WriteOnce
INVARIANT PendingIsTrue
INVARIANT EndsInTime
PROPERTY CancelIsFinal
CHECK_DEADLOCK FALSE
