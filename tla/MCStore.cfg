SPECIFICATION BSpec
CONSTRAINT OneUse
CONSTANTS
    Spaces <- MCSpaces
    Objects <- MCObjects
    Actors <- MCActors
    Ops <- MCOps
    Digests <- MCDigests
    Nonces <- MCNonces
    Envelopes <- MCEnvelopes
    Gens <- MCGens
    Caches <- MCCaches
    Blocks <- MCBlocks
    Prepared <- MCPrepared
    FileOps <- MCFileOps
    StageOp <- MCStageOp
    Contents <- MCContents
    Header <- MCHeader
    Controls <- MCControls
    Entry <- MCEntry
    Genesis <- MCGenesis
    Members <- MCMembers
    Role <- MCRole
    Packages <- MCPackages
    Package <- MCPackage
    None = None
    Absent = Absent
    MaxEpoch = 2
    MaxFence = 2
    MaxControls = 3
    MaxRevision = 7
    MaxMaterials = 2
    MaxJobs = 1
    Chunks = 2
    BlockHeader <- MCBlockHeader
    s1 = s1
    o1 = o1
    a1 = a1
    op1 = op1
    op2 = op2
    op3 = op3
    op4 = op4
    v1 = v1
    v2 = v2
    d1 = d1
    d2 = d2
    n1 = n1
    n2 = n2
    e1 = e1
    e2 = e2
    e3 = e3
    e4 = e4
    e5 = e5
    e6 = e6
    g1 = g1
    t1 = t1
    c1 = c1
    c2 = c2
    c3 = c3
    c4 = c4
    m1 = m1
    m2 = m2
    m3 = m3
    w1 = w1
    w2 = w2
    k1 = k1
    k2 = k2
    k3 = k3
INVARIANTS
    StoreReopens
    FilesWhole
    ReadersTrue
PROPERTIES
    PinsHold
    WritesUnderHead
    ImplementsLedger
CHECK_DEADLOCK FALSE
