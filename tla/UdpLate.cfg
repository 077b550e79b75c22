SPECIFICATION Spec
CONSTANTS
    a = a
    b = b
    c = c
    NoAddr = NoAddr
    Garbage = Garbage
    Node = {a, b}
    Link <- OneWay
    Env = {"late", "stop", "detect", "samesecond"}
    RetryLimit = 2
    MaxTasks = 2
    MaxFrags = 2
    Size <- LongThenShort
    MaxRestarts = 1
    MaxExec = 1
INVARIANT TypeOK
INVARIANT ResendBufferLive
INVARIANT ResendIsAwaited
INVARIANT FragmentsInPlace
CONSTRAINT FewInFlight
CHECK_DEADLOCK FALSE
