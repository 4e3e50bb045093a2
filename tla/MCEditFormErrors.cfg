SPECIFICATION Spec
CONSTANTS
    NumFields = 3
    Skipped = {}
PROPERTY
    OnlyErrorsEdited
CHECK_DEADLOCK FALSE
