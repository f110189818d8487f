CONSTANTS
    Jobs = {j1}
    Cmds = {c1}
    None = None
    MaxJobs = 1
    MaxEvents = 4
    MaxWindows = 1
    MaxAuthority = 0
    Ops = {o1}
    MaxRevision = 2
    Chunks = 1
SPECIFICATION ASpec
CONSTRAINT Followed
INVARIANTS StagesReopen DispatchedOnce
PROPERTY PinsAccepted
CHECK_DEADLOCK FALSE
