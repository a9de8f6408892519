\* A serve process while a command creates and deletes.
CONSTANTS
    Absent = Absent
    NumTasks = 2
    Recurring = {2}
    Existing = {1}
    Pollers = {p1}
    Serves = {p1}
    Commands = {c1}
    MaxTasks = 50
    LongRuns = FALSE
    MaxTime = 2
    MaxRuns = 3
    MaxFaults = 0
SPECIFICATION Spec
INVARIANTS
    ServeKeepsRunning
