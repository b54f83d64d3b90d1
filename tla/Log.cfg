CONSTANTS
    t1 = t1  t2 = t2
    Threads <- TwoThreads
    Tids <- TwoTids
    NoTid = "0"
    kBufferSize = 14
    kMaxNumericSize = 5
    MinInt <- LeastByte
    MaxInt = 255
    Sites <- MCSites
    Newline = "nl"
    gLogLevel = 2
    Items <- MCItems
    MaxItems = 2
    MaxLines = 2
    Time = "time"
    NoStatement = NoStatement
SYMMETRY Symmetry
SPECIFICATION LogSpec
INVARIANTS
    ReapedOnce
    NoOverrun
    ItemsLegible
    LinesSeparate
    OwnTid
\* A process whose threads have ended may do nothing.
CHECK_DEADLOCK FALSE
