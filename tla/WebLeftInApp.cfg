SPECIFICATION FairSpec
CONSTANTS
    ann = ann
    bob = bob
    Account = {ann}
    Returning <- OnlyAnn
    Nobody = nobody
    Scenes <- AloneInTheApp
PROPERTY NobodyIsSentToSignIn
CHECK_DEADLOCK FALSE
