SPECIFICATION Spec
CONSTANTS
    y = y
    z = z
    l1 = l1
    l2 = l2
    a = a
    b = b
    None = None
    Tokens = {y, z}
    Stage <- MCStage
    Byte = {a, b}
    Requests <- MCRequests
    Leases = {l1, l2}
    Given = {l1}
    Authorities = {1, 2}
    MaxBytes = 2
    MaxRecords = 2
    MaxRebinds = 2
    MaxWindows = 2
    MaxArchive = 2
INVARIANTS
    RecordsReopen
    AcknowledgedKept
CHECK_DEADLOCK FALSE
