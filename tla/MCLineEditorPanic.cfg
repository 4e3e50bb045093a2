CONSTANTS
    Letters = {"a", "A"}
    Typed = {"a"}
    Uncased <- MCUncased
    ChoiceLists <- MCAlike
    InitialValues <- MCInitialValues
    Room = 3
    RoomUnaligned = 4
    WrapWidth = 3
    CommandWidth = 1
    MaxLength = 4
    MaxCommand = 2
    MaxHistory = 3
    MaxDrift = 1
SPECIFICATION Spec
INVARIANTS NeverPanics
CHECK_DEADLOCK FALSE
