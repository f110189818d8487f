CONSTANTS
    Ops = {o1, o2}
    Inputs = {d1, d2}
    Consumers = {c1}
    None = None
    MaxEvents = 2
    MaxNonces = 3
    MaxConsumers = 1
    Window = 2
    MaxStamp = 2
    MaxSessions = 2
    MaxConns = 2
    MaxRequests = 2
SYMMETRY Symmetry
CONSTRAINT OnePort
SPECIFICATION CSpec
INVARIANTS CursorsSound ToldTrue NoneInFlight
CHECK_DEADLOCK FALSE
