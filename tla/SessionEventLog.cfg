\* Crashes, a failing write and cap evictions: two processes, four events, a cap
\* of one event.
CONSTANTS
    Absent = Absent
    MaxEvents = 1
    MaxAppends = 4
    MaxFailures = 1
    MaxOpens = 2
SPECIFICATION Spec
INVARIANTS
    TypeOK
    LiveMatchesScan
    FastPathIsExact
    RecoveryKeepsTurnNumbers
    SyncedIsKeptOrSummarised
    CapHolds
    EachEventOnce
PROPERTY
    ImplementsCanonicalStore
CHECK_DEADLOCK FALSE
