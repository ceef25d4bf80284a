SPECIFICATION Spec
CONSTANTS
    Spans <- MCSpans
    TraceOf <- MCTraceOf
    Begin <- MCBegin
    Late <- MCLate
    Analysed <- MCAnalysed
    Limit = 1
    MaxRequests = 2
INVARIANTS
    StatusWasTrue
    SpanlessTraceIsOutdated
    MissedTraceMeansLateSpan
    PanelShowsSelection
CHECK_DEADLOCK FALSE
