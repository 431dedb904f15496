SPECIFICATION Spec
CONSTANTS
    TimeoutMs = 2
    MaxRetries = 1
    Pauses <- PausesOneOrTwo
    Wait = 3
    Interval = 2
    Horizon = 20
INVARIANT ConfirmedSendIsReported
CHECK_DEADLOCK FALSE
