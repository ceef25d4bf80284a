SPECIFICATION FairSpec
CONSTANTS
    Rows = {r1, r2, r3, r4}
    BATCH_SIZE = 3
    FLUSH_INTERVAL = 2
    MaxStarts = 2
CHECK_DEADLOCK FALSE
INVARIANTS
    AtMostOneCopy
    FirstInFirstFlushed
    FlushedInTime
    StopLosesOneBatchAtMost
PROPERTIES
    ImplementsRowSink
    EveryRowIsSettled
