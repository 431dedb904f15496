SPECIFICATION Spec
CONSTANTS
    m1 = m1
    m2 = m2
    b1 = b1
    d1 = d1
    Message = {m1, m2}
    Batch = {b1}
    Device = {d1}
    BatchOf <- MCBatchOf
    IndexOf <- MCIndexOf
    DeviceOf <- MCDeviceOf
    WaveSize = 2
    PerMessage = 1
    StaleAfter = 0
    PushTTL = 1
    FetchLimit = 2
    SweepLimit = 1
    MaxAttempts = 2
    MaxDelay = 0
    MaxSentCount = 1
INVARIANT TypeOK
INVARIANT FailedUnsent
INVARIANT LateTruthTaken
PROPERTY NeverOfferedAgain
