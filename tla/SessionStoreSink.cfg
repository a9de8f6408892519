\* Two concurrent emitters, four events, a channel of one.
CONSTANTS
    a = a
    b = b
    c = c
    big = big
    Events = {a, b, c, big}
    Emitters = {p1, p2}
    Capacity = 1
    MaxBytes = 3
    Cost <- SmallCosts
    NoEvent = NoEvent
SPECIFICATION Spec
INVARIANTS
    TypeOK
    SinkInv
    OkCloseIsDurable
    OkCloseRefusedNothing
    StoredFollowsAccepted
    QuietDrainIsComplete
    BudgetIsExact
    Bounded
PROPERTIES
    ImplementsDurableFeed
    CloseReturns
    AcceptedIsSettled
    DroppedDrainReturns
CHECK_DEADLOCK FALSE
