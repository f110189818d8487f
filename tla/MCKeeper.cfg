SPECIFICATION SSpec
CONSTANTS
    l1 = l1
    l2 = l2
    o1 = o1
    o2 = o2
    c1 = c1
    None = None
    Leases = {l1, l2}
    Index <- MCIndex
    Quota = 4
    MaxLeases = 1
    MaxOps = 6
    MaxStaging = 2
    Calls <- MCCalls
    Collects <- MCCollects
    Repairs <- MCRepairs
    Cancels <- MCCancels
    Authorities = {1, 2}
    MaxNow = 1
    MaxBoot = 2
    MaxFaults = 1
    Conns = {c1}
    MaxConnections = 1
    Reads <- MCReads
    Pieces = 2
INVARIANTS
    PinsOwned
    Reopens
    ServedKept
    ReceiptsOrdered
CHECK_DEADLOCK FALSE
