SPECIFICATION Spec
CONSTANTS
    Spans <- MCSpans
    Begin <- MCBegin
    Agent <- MCAgent
    Late <- MCLate
    Flaggable <- MCFlaggable
    Filters <- MCFilters
    DefaultFilter <- MCDefault
    Limit = 2
    Now = 3
    MaxNow = 4
    MaxRequests = 4
    LastExpiring = 1
INVARIANTS
    RowsInOrder
    MissingSpanHasCause
    SettledListIsCurrent
PROPERTIES
    LoadingEnds
CHECK_DEADLOCK FALSE
