SPECIFICATION FairSpec
CONSTANTS
    a = a
    b = b
    c = c
    NoAddr = NoAddr
    Garbage = Garbage
    Node = {a, b}
    Link <- OneWay
    Env = {"detect", "slowprobe"}
    RetryLimit = 2
    MaxTasks = 1
    MaxFrags = 2
    Size <- OneLong
    MaxRestarts = 1
    MaxExec = 3
PROPERTY TaskEnds
CHECK_DEADLOCK FALSE
