CONSTANTS
    Jobs = {j1, j2}
    Cmds = {c1}
    None = None
    MaxJobs = 2
    MaxEvents = 8
    MaxWindows = 1
    MaxAuthority = 1
SPECIFICATION FairSSpec
INVARIANTS EffectsTrue ServingResolved
PROPERTIES SelectedSettles
CHECK_DEADLOCK FALSE
