CONSTANTS
    Channels = {a, b}
    None = None
    MaxRequests = 1
    Budget = 1
    Ids = {i1, i2}
    MaxVersion = 1
SYMMETRY Symmetry
SPECIFICATION Spec
INVARIANTS SlotsAccounted NoneForgotten NoLostWake
CHECK_DEADLOCK FALSE
