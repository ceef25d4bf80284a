SPECIFICATION Spec
CONSTANTS
    s1 = s1
    s2 = s2
    s3 = s3
    acme = acme
    globex = globex
    Spans = {s1, s3}
    TenantOf <- TwoTenants
    TraceOf <- NoTraceIds
    ANALYZERS = 2
    ATTEMPTS = 2
    BACKOFF = 1
    TRACE_TIMEOUT = 2
    MaxFailures = 0
    MaxStarts = 1
CHECK_DEADLOCK FALSE
INVARIANT
    TraceRowsAreOfOneTenant
