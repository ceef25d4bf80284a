SPECIFICATION ServerSpec
CONSTANTS
    Rows = {s1, s2, s3}
    PAYLOADS = 2
    BATCH_SIZE = 2
    FLUSH_INTERVAL = 1
    MaxStarts = 2
CHECK_DEADLOCK FALSE
INVARIANTS
    PayloadsBeforeRow
    QueuedOnceAfterAdd
    AnswerMatchesStores
