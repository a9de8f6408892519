\* Three tasks in a store for two; one stream, whose client reads slowly or leaves.
CONSTANTS
    None = None
    Absent = Absent
    NumTasks = 3
    Contexts = {x}
    Clients = {c1}
    MaxTasks = 2
    Capacity = 2
    NumStreams = 1
    MaxRequests = 3
    MaxConfigs = 1
SPECIFICATION Spec
INVARIANTS
    TypeOK
    IndexesInSync
PROPERTIES
    EvictsOldestEnded
    StreamsEnd
CHECK_DEADLOCK FALSE
