SPECIFICATION Spec
CONSTANTS
    Process = {p1}
    MaxSeq = 4
    MaxMessages = 3
    MaxFaults = 2
INVARIANTS
    NothingLost
    OneFileEach
    FiledByOrigin
    SentAgainOnlyAfterFault
PROPERTIES
    FinalForever
    NeverOverwritten
