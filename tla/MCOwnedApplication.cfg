SPECIFICATION OSpec
CONSTANTS
    Changes <- MCChanges
    Deps <- MCDeps
    Targets <- MCTargets
    Slot <- MCSlot
    Ops = {o1, o2, x1}
    OwnOps = {o1, o2}
    DirectOps = {x1}
    MaxEvents = 2
    MaxNonces = 2
    MaxOwner = 1
    MaxJournal = 5
    MaxIntents = 2
    None = None
SYMMETRY MCSymmetry
CONSTRAINT OneIntent
INVARIANTS ObserverServes JournalTrue
PROPERTIES AnswersTrue ImplementsDocument
CHECK_DEADLOCK FALSE
