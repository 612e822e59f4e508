CONSTANTS
    p1 = p1
    p2 = p2
    c1 = c1
    c2 = c2
    e1 = e1
    e2 = e2
    e3 = e3
    e4 = e4
    e5 = e5
    k1 = k1
    k2 = k2
    Producers = {p1, p2}
    Closers = {c1, c2}
    Events = {e1, e2, e3, e4}
    Undecodable = {e4}
    OutOfRange = {e3}
    Keys = {k1, k2}
    KeyOf <- MCKeyOf
    QueueCapacity = 2
    BatchSize = 2
SPECIFICATION LiveSpec
CHECK_DEADLOCK FALSE
INVARIANTS
    TypeOK
    Accounting
    NoSendOnClosed
    CleanClose
PROPERTIES
    CloseReturns
    ImplementsLedger
