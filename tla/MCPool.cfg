SPECIFICATION TimerSpec
CONSTANTS
    Peers <- MCPeers
    Jobs = {"a1", "a2", "b1"}
    PeerOf <- MCPeerOf
    Conns = {"c1", "c2"}
    Limits = {1, 2}
    MaxQueued = 3
    PerPeer = 2
    None = None
INVARIANTS ConnectionsOwned NoOvertaking
PROPERTIES Answered
CHECK_DEADLOCK FALSE
