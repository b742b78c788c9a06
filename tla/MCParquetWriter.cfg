\* Two threads append while the flusher runs, under the fairness of threads,
\* timers and the clock; the process may be killed once.
CONSTANTS
    r1 = r1
    r2 = r2
    r3 = r3
    r4 = r4
    trades = trades
    Rows <- ThreadRows
    Streams = {trades}
    StreamOf <- ThreadStream
    HourOf <- ThreadHour
    HoursPerDay = 2
    Workers = {w1, w2}
    Flusher = fl
    BatchRows = 2
    BatchSeconds = 1
    MaxCrashes = 1
SPECIFICATION FairSpec
INVARIANTS
    RowsInOnePlace
    PartsInTheirPartition
    BuffersBounded
    DrainLeavesOnlyLateRows
PROPERTIES
    RowsLeaveMemory
    ImplementsRowSink
CONSTRAINT TakenInOrder
