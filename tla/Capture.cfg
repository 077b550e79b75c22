SPECIFICATION FairSpec
CONSTANTS
    Mode = "subscribe"
    Env = {"busy", "race", "crash", "error"}
    MaxChanges = 2
    MaxCrashes = 1
    MaxErrors = 1
INVARIANT TypeOK
INVARIANT AtMostOnce
INVARIANT InOrder
INVARIANT LogsAgree
PROPERTY KeptUntilRead
PROPERTY ImplementsFeed
PROPERTY AllRead
CHECK_DEADLOCK FALSE
