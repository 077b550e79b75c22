SPECIFICATION Spec
CONSTANTS
    a = a
    b = b
    c = c
    NoAddr = NoAddr
    Garbage = Garbage
    Node = {a, b}
    Link <- OneWay
    Env = {"late"}
    RetryLimit = 2
    MaxTasks = 2
    MaxFrags = 2
    Size <- BothShort
    MaxRestarts = 1
    MaxExec = 2
INVARIANT SuccessMeansDelivered
CHECK_DEADLOCK FALSE
