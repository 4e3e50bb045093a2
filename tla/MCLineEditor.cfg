CONSTANTS
    Letters = {"a", "A"}
    Typed = {"a"}
    Uncased <- MCUncased
    ChoiceLists <- MCChoiceLists
    InitialValues <- MCInitialValues
    Room = 3
    RoomUnaligned = 4
    WrapWidth = 3
    CommandWidth = 1
    MaxLength = 4
    MaxCommand = 2
    MaxHistory = 3
    MaxDrift = 1
SPECIFICATION Spec
INVARIANTS TypeOK SelectionInText ChangedIfDifferent
PROPERTIES HistoryKept
CHECK_DEADLOCK FALSE
