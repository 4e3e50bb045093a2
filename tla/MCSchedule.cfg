SPECIFICATION Spec
CONSTANTS
    Areas = {a1, a2}
    Intervals = {1, 2}
    Hour = 2
    MaxTime = 4
    MaxFaults = 1
PROPERTIES
    ImplementsChecks
    NotTooOften
    NothingLeftDue
