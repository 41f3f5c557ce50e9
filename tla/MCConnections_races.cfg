SPECIFICATION LiveSpec
CONSTANTS
    a = a
    b = b
    t1 = t1
    t2 = t2
    Node = {a, b}
    Thread = {t1, t2}
    Home <- OnA
    Restarts = TRUE
    MaxConn = 3
    MaxMsg = 1
    MaxGen = 1
INVARIANTS
    TypeOK
    StragglersOnly
PROPERTIES
    Delivered
    SendReturns
CHECK_DEADLOCK FALSE
