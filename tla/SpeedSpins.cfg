SPECIFICATION FairSpec
CONSTANTS
    Client = {c1, c2}
    None = None
    Env = {"kill"}
    MaxPkts = 4
    Retries = 2
    Capacity = 4
    MaxTroubles = 1
PROPERTY ListensAgain
CHECK_DEADLOCK FALSE
