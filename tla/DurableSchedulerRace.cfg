\* Two pollers, one of which may die; claims turn stale while their run goes on.
CONSTANTS
    Absent = Absent
    NumTasks = 2
    Recurring = {2}
    Existing = {1, 2}
    Pollers = {p1, p2}
    Serves = {p2}
    Commands = {}
    MaxTasks = 50
    LongRuns = TRUE
    MaxTime = 2
    MaxRuns = 0
    MaxFaults = 1
SPECIFICATION Spec
INVARIANTS
    NoSlotSkipped
    Exclusive
    ClaimHasOwner
