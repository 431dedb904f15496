SPECIFICATION FairSpec
CONSTANTS
    ann = ann
    bob = bob
    Account = {ann, bob}
    Returning <- OnlyAnn
    Nobody = nobody
    Scenes <- AllScenes
INVARIANT TypeOK
INVARIANT RedirectsEnd
INVARIANT OwnRowsOnly
PROPERTY NoFalseSignOut
PROPERTY SentWhereTheyBelong
CHECK_DEADLOCK FALSE
