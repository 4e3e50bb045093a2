SPECIFICATION Spec
CONSTANTS
    NumFields = 4
    Skipped = {3}
INVARIANTS
    AskedOnlyWhenValid
    QueuedOnlyWhenAnswered
    FinishedOnlyValid
PROPERTY
    FormEnds
\* The form is closed when the user has left it.
CHECK_DEADLOCK FALSE
