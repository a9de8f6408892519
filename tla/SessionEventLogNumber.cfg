CONSTANTS
    Absent = Absent
    MaxEvents = 0
    MaxAppends = 4
    MaxFailures = 0
    MaxOpens = 2
SPECIFICATION Spec
INVARIANT ReconstructsEveryTurn
CHECK_DEADLOCK FALSE
