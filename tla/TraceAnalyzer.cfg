SPECIFICATION TraceSpec
CONSTANTS
    Spans <- MCSpans
    Null = "None"
    MaxSpans = 5
    VerifyTools = {"check"}
    WriteTools = {"deploy"}
    VerifyPrompts = {"verify"}
    Disjunctive = {"weather"}
    Questions = {"ask"}
    Entities <- MCEntities
    Ratio <- Similarity
    Hybrid <- Similarity
    Cosine <- MCCosine
    RoutingGraph <- MCRoutingGraph
    Thresholds <- Defaults
CHECK_DEADLOCK FALSE
INVARIANTS
    PartsReportNothingNew
    OnlyBordersHideFindings
