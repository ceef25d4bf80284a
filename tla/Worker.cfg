SPECIFICATION FairSpec
CONSTANTS
    s1 = s1
    s2 = s2
    s3 = s3
    acme = acme
    globex = globex
    Spans = {s1, s2}
    TenantOf <- TwoTenants
    TraceOf <- TwoTraces
    ANALYZERS = 2
    ATTEMPTS = 2
    BACKOFF = 1
    TRACE_TIMEOUT = 2
    MaxFailures = 1
    MaxStarts = 2
CHECK_DEADLOCK FALSE
INVARIANTS
    BuffersAgree
    AnalysedAtMostOnce
    FlagsAtMostOnce
    ForeignScoresWereLeftBehind
PROPERTIES
    PoppedSpanIsDoneWith
    BufferedTraceIsFlushed
