\* Two clients stream at the same time.
CONSTANTS
    None = None
    Absent = Absent
    NumTasks = 2
    Contexts = {x}
    Clients = {c1, c2}
    MaxTasks = 2
    Capacity = 3
    NumStreams = 2
    MaxRequests = 2
    MaxConfigs = 0
SPECIFICATION Spec
INVARIANTS
    StreamShowsItsOwn
CHECK_DEADLOCK FALSE
