SPECIFICATION Spec
CONSTANTS
    e1 = e1
    e2 = e2
    h1 = h1
    Event = {e1, e2}
    Hook = {h1}
    MaxHooks = 1
    MaxTries = 3
    MaxRefusals = 2
    MaxErrors = 2
    JobAttempts = 2
    MinFailures = 2
INVARIANT TypeOK
INVARIANT GivesUpInTime
INVARIANT CallsAreLogged
INVARIANT CountersMatchLog
PROPERTY DeliversEvents
PROPERTY EveryDeliverySettles
CHECK_DEADLOCK FALSE
