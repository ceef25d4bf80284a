SPECIFICATION Spec
CONSTANTS
    SpanSet <- MCSpanSet
    Coherence = 3
    Gap = 2
INVARIANTS
    PendingOnlyIfBare
    FlagsAreScored
    OneReportPerSymptom
    DeferredAnomalyIsReported
CHECK_DEADLOCK FALSE
