CONSTANTS
    Absent = Absent
    Root = Root
    c1 = c1
    g1 = g1
    tool = tool
    user = user
    Agents = {c1, g1}
    Owner <- MCOwner
    Callers = {tool, user}
    Ops <- MCOps
    MaxConcurrent = 1
    MaxCalls = 3
    MaxTasks = 3
SPECIFICATION Spec
INVARIANT NoLostWakeup
CHECK_DEADLOCK FALSE
