SPECIFICATION FairPipelineSpec
CONSTANTS
    Rows = {s1, s2, s3, s4}
    MaxStarts = 1
    BATCH_SIZE = 2
    FLUSH_INTERVAL = 1
    INSERT_TIME = 2
    ATTEMPTS = 3
    BACKOFF = 2
    Announced = {s1, s2}
CHECK_DEADLOCK FALSE
INVARIANTS
    GivenUpHasCause
PROPERTY
    QueuedIsDecided
