SPECIFICATION FairSpec
CONSTANTS
    a = a
    b = b
    c = c
    NoAddr = NoAddr
    Garbage = Garbage
    Node = {a, b, c}
    Link <- TwoSources
    Env = {"restart"}
    RetryLimit = 2
    MaxTasks = 2
    MaxFrags = 2
    Size <- BothLong
    MaxRestarts = 1
    MaxExec = 4
INVARIANT DeliveredWhole
INVARIANT NoHeapFault
INVARIANT TimerRuns
PROPERTY ImplementsService
PROPERTY TaskEnds
CHECK_DEADLOCK FALSE
