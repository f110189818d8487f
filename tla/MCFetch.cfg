CONSTANTS
    None = None
    t = t
    a = a
    b = b
    c = c
    x = x
    Record <- MCRecord
    Deps <- MCDeps
    Prev <- MCPrev
    Actor <- MCActor
    Number <- MCNumber
    Target <- MCTarget
    Own <- MCOwn
    Catalogues <- MCCatalogues
    Transfers <- MCTransfers
    MaxRecords = 4
    MaxOrphans = 0
    MaxLive = 2
    PageSize = 1
    MaxEntries = 2
SPECIFICATION Spec
INVARIANTS
    AcknowledgedDurable
    ProposalSound
    SessionsReaped
CHECK_DEADLOCK FALSE
