\* One poller and one command, a store for one task; a process dies at any point
\* or a write fails.
CONSTANTS
    Absent = Absent
    NumTasks = 2
    Recurring = {2}
    Existing = {2}
    Pollers = {p1}
    Serves = {p1}
    Commands = {c1}
    MaxTasks = 1
    LongRuns = FALSE
    MaxTime = 2
    MaxRuns = 3
    MaxFaults = 1
SPECIFICATION FairSpec
INVARIANTS
    TypeOK
    RunsOnce
PROPERTIES
    DueTaskRuns
