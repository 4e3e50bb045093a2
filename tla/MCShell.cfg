SPECIFICATION Spec
CONSTANTS
    Lines <- MCLines
    Fields <- MCFields
    Buffer = 3
    MaxRows = 3
    MaxCommands = 3
INVARIANTS
    SpoilsAtMostOne
    CompleteWhenEnded
    WordsWhenSpaced
    FieldOfLeastCost
CHECK_DEADLOCK FALSE
