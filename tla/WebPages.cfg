SPECIFICATION FairSpec
CONSTANTS
    name = name
    basic = basic
    Field <- OneField
    Value <- TwoValues
    Plan <- OnePlan
    MaxDrafts = 2
    MaxSends = 1
    MaxChanges = 1
    MaxCodes = 2
    MaxKeys = 2
    MaxPresses = 2
    MaxHooks = 2
    MaxHookPresses = 2
    MaxBillPresses = 1
INVARIANT TypeOK
PROPERTY TypedIsKept
PROPERTY SecretKept
PROPERTY OwnDialogCloses
PROPERTY WatchedIsSeen
CHECK_DEADLOCK FALSE
