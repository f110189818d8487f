CONSTANTS
    None = None
    a1 = a1
    a2 = a2
    a3 = a3
    Op = {o1, o2}
    Conn = {c1, c2, c3}
    Address = {a1, a2, a3}
    Class <- MCClass
    Policy <- MCPolicy
    Kind = {read, write}
    MaxInflight = 2
    MaxConnections = 2
    MaxAttempts = 2
    MaxGeneration = 1
SPECIFICATION FairSpec
INVARIANTS
    ActiveCurrent
    SocketsBounded
PROPERTY Drains
CHECK_DEADLOCK FALSE
