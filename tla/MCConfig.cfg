SPECIFICATION Spec
CONSTANTS
    Dir = {a, b}
    OpValue = {o1}
    NameValue = {n1, n2}
    Empty = none
    MaxFaults = 2
INVARIANTS
    ConfirmedKept
    LogHasCurrentName
