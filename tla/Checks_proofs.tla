---------------------------- MODULE Checks_proofs ----------------------------
(***************************************************************************)
(* Proofs about the worker's checks, for all texts and thresholds: those   *)
(* of one span (SpanChecks) first, then those of a trace (TraceAnalyzer).  *)
(*                                                                         *)
(* What the checks of a span leave is judged at the end, when the          *)
(* conditions they looked at are no longer in the state.  IInv carries     *)
(* them: FlagInv says of a flag under which condition it was raised,       *)
(* PassedInv what a check must have left once it is over, BareInv that a   *)
(* bare span gets nothing.                                                 *)
(*                                                                         *)
(* What the checks of a trace find in a part of it is compared with what   *)
(* they find in the whole, check by check: each local check looks at the   *)
(* spans of its flag alone, so it agrees on a sequence and on a longer one *)
(* around it (Agree).  A loop is reported once for a tool, where its run   *)
(* is long enough for the first time, so there the two agree on the tool.  *)
(***************************************************************************)
EXTENDS SpanChecks, TraceAnalyzer, FiniteSetTheorems, WellFoundedInduction, TLAPS

-----------------------------------------------------------------------------
(* The checks of a span *)

PositionInv ==
    /\ span \in SpanSet
    /\ check \in 1 .. 14
    /\ outcome = "done" => check = 14

FlagInv ==
    /\ "tool_not_available" \in flags => span.tool # None /\ ~Listed
    /\ "wrong_tool_choice" \in flags => Listed /\ ClearlyBetter
    /\ "unnecessary_tool_call" \in flags => span.tool # None
    /\ "wrong_tool_args" \in flags => span.args.form = "object" /\ (Listed => span.fits)
    /\ "no_tool" \in flags => span.tool = None
    /\ "response_anomaly" \in flags => span.tool # None /\ ~(Listed /\ BetterOfLast)

PassedInv ==
    /\ check > 1 /\ span.tool # None /\ ~Listed => "tool_not_in_list" \in log
    /\ check > 2 /\ Ranked /\ Best >= Coherence /\ ClearlyBetter => "wrong_tool_choice" \in flags
    /\ check > 6 /\ span.raw_response # None => "format_match" \in log
    /\ check > 10 /\ (span.response # None \/ span.args.form # None) => "output_truncated" \in log
    /\ check > 12 /\ span.prompt # None => "prompt_token_count" \in log

DeferredInv ==
    "prompt_vs_response" \in log /\ span.prompt = "long" /\ ~span.similar =>
        "response_anomaly" \in flags \/ (Listed /\ BetterOfLast)

BareInv == Bare => log = {} /\ flags = {}

IInv == PositionInv /\ FlagInv /\ PassedInv /\ DeferredInv /\ BareInv

-----------------------------------------------------------------------------
(* Which check is which *)

LEMMA CheckNames ==
    /\ Len(Checks) = 13
    /\ Checks[1] = "tool_not_available" /\ Checks[2] = "wrong_tool_choice"
    /\ Checks[3] = "unnecessary_tool_call" /\ Checks[4] = "wrong_tool_args"
    /\ Checks[5] = "no_tool" /\ Checks[6] = "parsing_error" /\ Checks[7] = "response_anomaly"
    /\ Checks[8] = "output_schema_violation" /\ Checks[9] = "required_fields_missing"
    /\ Checks[10] = "output_truncated" /\ Checks[11] = "type_coercion_error"
    /\ Checks[12] = "context_overflow" /\ Checks[13] = "missing_details"
BY DEF Checks, ToolCallChecks, OutputSchemaChecks, SemanticChecks

LEMMA NowIs ==
    ASSUME check \in 1 .. 14
    PROVE  /\ Now("tool_not_available") => check = 1
           /\ Now("wrong_tool_choice") => check = 2
           /\ Now("unnecessary_tool_call") => check = 3
           /\ Now("wrong_tool_args") => check = 4
           /\ Now("no_tool") => check = 5
           /\ Now("parsing_error") => check = 6
           /\ Now("response_anomaly") => check = 7
           /\ Now("output_schema_violation") => check = 8
           /\ Now("required_fields_missing") => check = 9
           /\ Now("output_truncated") => check = 10
           /\ Now("type_coercion_error") => check = 11
           /\ Now("context_overflow") => check = 12
           /\ Now("missing_details") => check = 13
BY CheckNames DEF Now

\* What is said of a span stays true of it.
LEMMA SameSpan ==
    ASSUME span' = span
    PROVE  /\ Listed' <=> Listed
           /\ Ranked' <=> Ranked
           /\ Bare' <=> Bare
           /\ ClearlyBetter' <=> ClearlyBetter
           /\ BetterOfLast' <=> BetterOfLast
           /\ Best' = Best
<1>1. Best' = Best /\ Greatest(span.later)' = Greatest(span.later)
  BY DEF Best
<1>2. QED BY <1>1 DEF Listed, Ranked, Bare, ClearlyBetter, BetterOfLast, Similarity

\* Where no two tools share a name both checks compare the same.
LEMMA SameComparison == ~Namesakes => (BetterOfLast <=> ClearlyBetter)
BY DEF Namesakes, BetterOfLast, ClearlyBetter, Best, Similarity

\* A span has a best tool if it has tools at all.
LEMMA BestExists ==
    ASSUME span \in SpanSet, Listed
    PROVE  Best \in Int
<1> DEFINE D == DOMAIN span.offered
           Above(t) == {u \in D : Similarity(u) > Similarity(t)}
           T == {Cardinality(Above(t)) : t \in D}
<1>1. IsFiniteSet(D) /\ \A t \in D : Similarity(t) \in Int
  BY SimilarityAssumption DEF Similarity
<1>2. \A t \in D : IsFiniteSet(Above(t)) /\ Cardinality(Above(t)) \in Nat
  <2>1. \A t \in D : Above(t) \in SUBSET D
    OBVIOUS
  <2>2. QED BY <1>1, <2>1, FS_Subset, FS_CardinalityType
<1>3. T \subseteq Nat /\ T # {}
  BY <1>2 DEF Listed
<1>4. \E n \in T : \A m \in T : ~(<<m, n>> \in OpToRel(<, Nat))
  BY <1>3, NatLessThanWellFounded, WFMin
<1>5. PICK n \in T : \A m \in T : ~(<<m, n>> \in OpToRel(<, Nat))
  BY <1>4
<1>6. \A a, b \in Nat : a < b => <<a, b>> \in OpToRel(<, Nat)
  BY Zenon DEF OpToRel
<1>7. \A m \in T : ~(m < n)
  BY <1>3, <1>5, <1>6, Zenon
<1>8. PICK t \in D : n = Cardinality(Above(t))
  BY <1>5
<1>9. \A u \in D : Similarity(u) <= Similarity(t)
  <2> SUFFICES ASSUME NEW u \in D, Similarity(u) > Similarity(t) PROVE FALSE
    BY <1>1
  <2>1. Above(u) \in SUBSET Above(t) /\ u \in Above(t) /\ u \notin Above(u)
    BY <1>1
  <2>2. Cardinality(Above(u)) <= Cardinality(Above(t)) /\ Cardinality(Above(u)) # Cardinality(Above(t))
    BY <1>2, <2>1, FS_Subset
  <2>3. ~(Cardinality(Above(u)) < Cardinality(Above(t)))
    BY <1>7, <1>8
  <2>4. QED BY <1>2, <2>2, <2>3
<1>10. Best \in {Similarity(u) : u \in D}
  <2>1. \E m \in {span.offered[u] : u \in D} : \A u \in D : span.offered[u] <= m
    BY <1>9 DEF Similarity
  <2>2. Best \in {span.offered[u] : u \in D}
    BY <2>1, Zenon DEF Best, Greatest
  <2>3. QED BY <2>2 DEF Similarity
<1>11. QED BY <1>1, <1>10

\* A tool that falls short of the best by the gap does not rank first.
LEMMA BestOutranks ==
    ASSUME span \in SpanSet, Ranked, ClearlyBetter, NEW outranked \in Outranked
    PROVE  outranked
<1>1. Best \in Int /\ Similarity(span.tool) \in Int
  BY BestExists, SimilarityAssumption DEF Ranked, Listed, Similarity
<1>2. Similarity(span.tool) < Best
  BY <1>1, SimilarityAssumption DEF ClearlyBetter
<1>3. QED BY <1>2 DEF Outranked

-----------------------------------------------------------------------------
(* The invariant *)

LEMMA InvStep == IInv /\ [Next]_vars => IInv'
<1> SUFFICES ASSUME IInv, [Next]_vars PROVE IInv'
  OBVIOUS
<1> USE DEF IInv, PositionInv
<1>a. check \in 1 .. 14 /\ Len(Checks) = 13
  BY CheckNames
<1>b. ASSUME span' = span, log' = log, flags' = flags, check' = check, outcome' # "done" \/ check = 14
      PROVE  IInv'
  BY <1>b, SameSpan DEF FlagInv, PassedInv, DeferredInv, BareInv
<1>1. CASE CheckToolNotAvailable
  <2>1. CASE span.tool # None /\ SearchRaises
    BY <1>1, <1>b, <2>1 DEF CheckToolNotAvailable, Raise
  <2>2. CASE ~(span.tool # None /\ SearchRaises)
    <3>1. Verdict("tool_not_available",
                  IF span.tool # None /\ ~Listed THEN {"tool_not_in_list"} ELSE {},
                  span.tool # None /\ ~Listed)
      BY <1>1, <2>2 DEF CheckToolNotAvailable
    <3>2. QED BY <3>1, <1>a, NowIs, SameSpan
              DEF Verdict, Now, FlagInv, PassedInv, DeferredInv, BareInv, Bare
  <2>3. QED BY <2>1, <2>2
<1>2. CASE CheckWrongToolChoice
  <2>0. CASE Ranked /\ EmbeddingRaises
    BY <1>2, <1>b, <2>0 DEF CheckWrongToolChoice, ToolChoice, Raise
  <2> SUFFICES ASSUME ~(Ranked /\ EmbeddingRaises) PROVE IInv'
    BY <2>0
  <2>a. PICK outranked \in Outranked :
            LET compared == Ranked /\ Best >= Coherence /\ outranked
            IN  Verdict("wrong_tool_choice",
                        (IF compared THEN {"score_gap"} ELSE {})
                            \cup (IF Ranked THEN {"embedding_rank", "embedding_score"}
                                  ELSE IF Listed /\ span.prompt # None THEN {"containment_match"} ELSE {}),
                        compared /\ ClearlyBetter)
    BY <1>2 DEF CheckWrongToolChoice, ToolChoice
  <2>b. Ranked /\ ClearlyBetter => outranked
    BY <2>a, BestOutranks DEF PositionInv
  <2>1. /\ check = 2 /\ check' = 3 /\ UNCHANGED <<span, outcome>> /\ outcome = "running"
        /\ log \subseteq log' /\ \A m \in log' : m \in log \/ m # "prompt_vs_response"
        /\ flags' = IF Ranked /\ Best >= Coherence /\ ClearlyBetter
                    THEN flags \cup {"wrong_tool_choice"} ELSE flags
    BY <2>a, <2>b, <1>a, NowIs DEF Verdict, Now
  <2>2. span.prompt = None => ~Ranked /\ log' = log
    BY <2>a DEF Verdict, Ranked
  <2>3. Ranked => Listed
    BY DEF Ranked
  <2>4. /\ Listed' <=> Listed
        /\ Ranked' <=> Ranked
        /\ Bare' <=> Bare
        /\ ClearlyBetter' <=> ClearlyBetter
        /\ BetterOfLast' <=> BetterOfLast
        /\ Best' = Best
    BY <2>1, SameSpan
  <2>5. PositionInv' /\ FlagInv'
    BY <2>1, <2>3, <2>4 DEF FlagInv
  <2>6. PassedInv' /\ DeferredInv'
    BY <2>1, <2>4 DEF PassedInv, DeferredInv
  <2>7. BareInv'
    BY <2>1, <2>2, <2>4 DEF BareInv, Bare
  <2>8. QED BY <2>5, <2>6, <2>7
<1>3. CASE CheckUnnecessaryToolCall
  BY <1>3, <1>a, <1>b, NowIs, SameSpan
  DEF CheckUnnecessaryToolCall, Verdict, Now, FlagInv, PassedInv, DeferredInv, BareInv, Bare
<1>4. CASE CheckWrongArgs
  BY <1>4, <1>a, <1>b, NowIs, SameSpan
  DEF CheckWrongArgs, Verdict, Now, FlagInv, PassedInv, DeferredInv, BareInv, Bare
<1>5. CASE CheckNoTool
  BY <1>5, <1>a, <1>b, NowIs, SameSpan
  DEF CheckNoTool, Verdict, Now, FlagInv, PassedInv, DeferredInv, BareInv, Bare
<1>6. CASE CheckParsingError
  BY <1>6, <1>a, <1>b, NowIs, SameSpan
  DEF CheckParsingError, Verdict, Now, FlagInv, PassedInv, DeferredInv, BareInv, Bare
<1>7. CASE CheckResponseAnomaly
  <2>1. CASE /\ span.prompt # None /\ span.response # None /\ span.tool # None
             /\ span.prompt = "long" /\ EmbeddingRaises
    BY <1>7, <1>b, <2>1 DEF CheckResponseAnomaly, Anomaly, Raise
  <2>2. CASE ~(/\ span.prompt # None /\ span.response # None /\ span.tool # None
               /\ span.prompt = "long" /\ EmbeddingRaises)
    <3> DEFINE judged == span.prompt # None /\ span.response # None /\ span.tool # None
               flagged == judged /\ span.prompt = "long" /\ ~(Listed /\ BetterOfLast) /\ ~span.similar
    <3>1. Verdict("response_anomaly", IF judged THEN {"prompt_vs_response"} ELSE {}, flagged)
      BY <1>7, <2>2 DEF CheckResponseAnomaly, Anomaly
    <3>2. QED BY <3>1, <1>a, NowIs, SameSpan
              DEF Verdict, Now, FlagInv, PassedInv, DeferredInv, BareInv, Bare
  <2>3. QED BY <2>1, <2>2
<1>8. CASE CheckOutputSchemaViolation
  BY <1>8, <1>a, <1>b, NowIs, SameSpan
  DEF CheckOutputSchemaViolation, Verdict, Now, FlagInv, PassedInv, DeferredInv, BareInv, Bare
<1>9. CASE CheckRequiredFieldsMissing
  <2>1. CASE Validated /\ span.schema = "odd"
    BY <1>9, <1>b, <2>1 DEF CheckRequiredFieldsMissing, Raise
  <2>2. CASE ~(Validated /\ span.schema = "odd")
    <3>1. /\ check = 9 /\ check' = 10 /\ UNCHANGED <<span, outcome>> /\ outcome = "running"
          /\ log \subseteq log' /\ log' \subseteq log \cup {"required_fields_missing"}
          /\ flags \subseteq flags' /\ flags' \subseteq flags \cup {"required_fields_missing"}
      <4>1. Now("required_fields_missing") /\ UNCHANGED <<span, outcome>> /\ check' = check + 1
        BY <1>9, <2>2 DEF CheckRequiredFieldsMissing, Verdict
      <4>2. /\ log \subseteq log' /\ log' \subseteq log \cup {"required_fields_missing"}
            /\ flags \subseteq flags' /\ flags' \subseteq flags \cup {"required_fields_missing"}
        BY <1>9, <2>2 DEF CheckRequiredFieldsMissing, Verdict
      <4>3. check = 9 /\ outcome = "running"
        BY <1>a, <4>1, NowIs DEF Now
      <4>4. QED BY <4>1, <4>2, <4>3
    <3>2. Bare => log' = log /\ flags' = flags
      <4>1. Bare => span.args.form = None
        BY DEF Bare
      <4>2. Bare => ~Validated
        BY <4>1 DEF Validated, None
      <4>3. QED BY <1>9, <2>2, <4>2 DEF CheckRequiredFieldsMissing, Verdict
    <3>3. PositionInv' /\ FlagInv'
      BY <3>1, SameSpan DEF FlagInv
    <3>4. PassedInv'
      BY <3>1, SameSpan DEF PassedInv
    <3>5. DeferredInv' /\ BareInv'
      BY <3>1, <3>2, SameSpan DEF DeferredInv, BareInv
    <3>6. QED BY <3>3, <3>4, <3>5
  <2>3. QED BY <2>1, <2>2
<1>10. CASE CheckOutputTruncated
  <2>1. CASE span.raw_response = "value"
    BY <1>10, <1>b, <2>1 DEF CheckOutputTruncated, Raise
  <2>2. CASE ~(span.raw_response = "value")
    <3>1. /\ check = 10 /\ check' = 11 /\ UNCHANGED <<span, outcome>> /\ outcome = "running"
          /\ log \subseteq log' /\ log' \subseteq log \cup {"output_truncated"}
          /\ flags \subseteq flags' /\ flags' \subseteq flags \cup {"output_truncated"}
      BY <1>10, <1>a, <2>2, NowIs DEF CheckOutputTruncated, Verdict, Now
    <3>2. Bare => log' = log /\ flags' = flags
      BY <1>10, <2>2 DEF CheckOutputTruncated, Verdict, Bare, None
    <3>3. PositionInv' /\ FlagInv'
      BY <3>1, SameSpan DEF FlagInv
    <3>4. PassedInv'
      <4>1. span.response # None \/ span.args.form # None => "output_truncated" \in log'
        BY <1>10, <2>2 DEF CheckOutputTruncated, Verdict
      <4>2. QED BY <3>1, <4>1, SameSpan DEF PassedInv
    <3>5. DeferredInv' /\ BareInv'
      BY <3>1, <3>2, SameSpan DEF DeferredInv, BareInv
    <3>6. QED BY <3>3, <3>4, <3>5
  <2>3. QED BY <2>1, <2>2
<1>11. CASE CheckTypeCoercionError
  BY <1>11, <1>a, <1>b, NowIs, SameSpan
  DEF CheckTypeCoercionError, Verdict, Now, FlagInv, PassedInv, DeferredInv, BareInv, Bare, Validated, None
<1>12. CASE CheckContextOverflow
  BY <1>12, <1>a, <1>b, NowIs, SameSpan
  DEF CheckContextOverflow, Verdict, Now, FlagInv, PassedInv, DeferredInv, BareInv, Bare, Raise
<1>13. CASE CheckMissingDetails
  BY <1>13, <1>a, <1>b, NowIs, SameSpan
  DEF CheckMissingDetails, Verdict, Now, FlagInv, PassedInv, DeferredInv, BareInv, Bare
<1>14. CASE Write
  BY <1>14, <1>a, <1>b DEF Write
<1>15. CASE UNCHANGED vars
  BY <1>15, <1>b DEF vars
<1>16. QED
  BY <1>1, <1>2, <1>3, <1>4, <1>5, <1>6, <1>7, <1>8, <1>9, <1>10, <1>11, <1>12, <1>13,
     <1>14, <1>15 DEF Next, ToolCall, OutputSchema

LEMMA SpecInv == Spec => []IInv
<1>1. Init => IInv
  BY DEF Init, IInv, PositionInv, FlagInv, PassedInv, DeferredInv, BareInv
<1>2. QED BY <1>1, InvStep, PTL DEF Spec

-----------------------------------------------------------------------------
(* The properties *)

\* Of the flags that are meant to be kept apart none are raised together,
\* whatever the tools offered and the payloads are, but for arguments, those of
\* a wrong tool that fits the prompt all the same and those of no tool, and for
\* tools of one name.
THEOREM SpecOneReportPerSymptom == Spec => []OneReportPerSymptom
<1>1. IInv => OneReportPerSymptom
  <2> SUFFICES ASSUME FlagInv, NEW pair \in KeptApart, pair \subseteq flags PROVE Tolerated(pair)
    BY DEF IInv, OneReportPerSymptom
  <2>1. CASE pair = {"tool_not_available", "wrong_tool_choice"}
    BY <2>1 DEF FlagInv
  <2>a. CASE pair = {"wrong_tool_choice", "response_anomaly"}
    BY <2>a, SameComparison DEF FlagInv, Tolerated
  <2>2. CASE pair = {"wrong_tool_choice", "wrong_tool_args"}
    BY <2>2 DEF FlagInv, Tolerated
  <2>3. CASE pair \in {{"no_tool", f} : f \in {"tool_not_available", "wrong_tool_choice",
                                             "unnecessary_tool_call", "response_anomaly"}}
    BY <2>3 DEF FlagInv, Listed
  <2>4. CASE pair = {"no_tool", "wrong_tool_args"}
    BY <2>4 DEF FlagInv, Tolerated
  <2>5. QED BY <2>1, <2>a, <2>2, <2>3, <2>4 DEF KeptApart
<1>2. QED BY <1>1, SpecInv, PTL

\* After its analysis only a bare span has neither a score nor a flag.
THEOREM SpecPendingOnlyIfBare == Spec => []PendingOnlyIfBare
<1>1. IInv => PendingOnlyIfBare
  <2> SUFFICES ASSUME IInv, outcome = "done" PROVE log \cup flags = {} <=> Bare
    BY DEF PendingOnlyIfBare
  <2>1. check = 14
    BY DEF IInv, PositionInv
  <2>2. Bare => log \cup flags = {}
    BY DEF IInv, BareInv
  <2>3. ASSUME log = {} PROVE Bare
    <3>1. /\ span.tool = None \/ Listed
          /\ span.raw_response = None /\ span.prompt = None
          /\ span.response = None /\ span.args.form = None
      BY <2>1, <2>3 DEF IInv, PassedInv
    <3>2. QED BY <3>1 DEF Bare
  <2>4. QED BY <2>2, <2>3
<1>2. QED BY <1>1, SpecInv, PTL

\* What response_anomaly leaves to wrong_tool_choice is reported there, unless
\* that check looks no further.
THEOREM SpecDeferredAnomalyIsReported == Spec => []DeferredAnomalyIsReported
<1>1. IInv => DeferredAnomalyIsReported
  <2> SUFFICES ASSUME IInv, outcome = "done", "prompt_vs_response" \in log,
                      span.prompt = "long", ~span.similar, "response_anomaly" \notin flags,
                      "wrong_tool_choice" \notin flags
               PROVE  Listed /\ (span.contained \/ Best < Coherence \/ Namesakes)
    BY DEF DeferredAnomalyIsReported
  <2>0. Listed /\ BetterOfLast
    BY DEF IInv, DeferredInv
  <2> SUFFICES ASSUME ~Namesakes PROVE span.contained \/ Best < Coherence
    BY <2>0
  <2>1. Listed /\ ClearlyBetter
    BY <2>0, SameComparison
  <2>2. ~span.contained => Ranked
    BY <2>1 DEF Ranked, None
  <2>3. ~span.contained => ~(Best >= Coherence)
    BY <2>1, <2>2 DEF IInv, PositionInv, PassedInv
  <2>4. Best \in Int /\ Coherence \in Int
    BY <2>1, BestExists, SimilarityAssumption DEF IInv, PositionInv
  <2>5. QED BY <2>1, <2>3, <2>4
<1>2. QED BY <1>1, SpecInv, PTL

\* What a check flags it has scored, in one step.
LEMMA VerdictScores ==
    ASSUME FlagsAreScored, NEW name, NEW metrics, NEW flagged, Verdict(name, metrics, flagged),
           flagged => \/ MetricOf[name] \in metrics
                      \/ name = "wrong_tool_args" /\ "blank" \in span.args.values
    PROVE  FlagsAreScored'
BY DEF FlagsAreScored, Verdict

LEMMA ScoredStep == FlagsAreScored /\ [Next]_vars => FlagsAreScored'
<1> SUFFICES ASSUME FlagsAreScored, [Next]_vars PROVE FlagsAreScored'
  OBVIOUS
<1>a. CASE UNCHANGED <<span, log, flags>>
  BY <1>a DEF FlagsAreScored
<1>1. CASE CheckToolNotAvailable
  <2>1. CASE UNCHANGED <<span, log, flags>>
    BY <1>a, <2>1
  <2>2. CASE Verdict("tool_not_available",
                     IF span.tool # None /\ ~Listed THEN {"tool_not_in_list"} ELSE {},
                     span.tool # None /\ ~Listed)
    BY <2>2, VerdictScores DEF MetricOf
  <2>3. QED BY <1>1, <2>1, <2>2 DEF CheckToolNotAvailable, Raise
<1>2. CASE CheckWrongToolChoice
  <2>1. CASE UNCHANGED <<span, log, flags>>
    BY <1>a, <2>1
  <2>2. ASSUME NEW outranked \in Outranked,
               LET compared == Ranked /\ Best >= Coherence /\ outranked
               IN  Verdict("wrong_tool_choice",
                           (IF compared THEN {"score_gap"} ELSE {})
                               \cup (IF Ranked THEN {"embedding_rank", "embedding_score"}
                                     ELSE IF Listed /\ span.prompt # None THEN {"containment_match"} ELSE {}),
                           compared /\ ClearlyBetter)
        PROVE  FlagsAreScored'
    BY <2>2, VerdictScores DEF MetricOf
  <2>3. QED BY <1>2, <2>1, <2>2 DEF CheckWrongToolChoice, ToolChoice, Raise
<1>3. CASE CheckUnnecessaryToolCall
  BY <1>a, <1>3, VerdictScores DEF CheckUnnecessaryToolCall, MetricOf
<1>4. CASE CheckWrongArgs
  BY <1>a, <1>4, VerdictScores DEF CheckWrongArgs, MetricOf
<1>5. CASE CheckNoTool
  BY <1>a, <1>5, VerdictScores DEF CheckNoTool, MetricOf
<1>6. CASE CheckParsingError
  BY <1>a, <1>6, VerdictScores DEF CheckParsingError, MetricOf
<1>7. CASE CheckResponseAnomaly
  <2> DEFINE judged == span.prompt # None /\ span.response # None /\ span.tool # None
             flagged == judged /\ span.prompt = "long" /\ ~(Listed /\ BetterOfLast) /\ ~span.similar
  <2>1. CASE UNCHANGED <<span, log, flags>>
    BY <1>a, <2>1
  <2>2. CASE Verdict("response_anomaly", IF judged THEN {"prompt_vs_response"} ELSE {}, flagged)
    BY <2>2, VerdictScores DEF MetricOf
  <2>3. QED BY <1>7, <2>1, <2>2 DEF CheckResponseAnomaly, Anomaly, Raise
<1>8. CASE CheckOutputSchemaViolation
  BY <1>a, <1>8, VerdictScores DEF CheckOutputSchemaViolation, MetricOf
<1>9. CASE CheckRequiredFieldsMissing
  BY <1>a, <1>9, VerdictScores DEF CheckRequiredFieldsMissing, MetricOf, Raise
<1>10. CASE CheckOutputTruncated
  BY <1>a, <1>10, VerdictScores DEF CheckOutputTruncated, MetricOf, Raise
<1>11. CASE CheckTypeCoercionError
  BY <1>a, <1>11, VerdictScores DEF CheckTypeCoercionError, MetricOf
<1>12. CASE CheckContextOverflow
  BY <1>a, <1>12, VerdictScores DEF CheckContextOverflow, MetricOf, Raise
<1>13. CASE CheckMissingDetails
  BY <1>a, <1>13, VerdictScores DEF CheckMissingDetails, MetricOf
<1>14. CASE Write \/ UNCHANGED vars
  BY <1>a, <1>14 DEF Write, vars
<1>15. QED
  BY <1>1, <1>2, <1>3, <1>4, <1>5, <1>6, <1>7, <1>8, <1>9, <1>10, <1>11, <1>12, <1>13,
     <1>14 DEF Next, ToolCall, OutputSchema

\* No check flags without the score the flag rests on, but for blank arguments.
THEOREM SpecFlagsAreScored == Spec => []FlagsAreScored
<1>1. Init => FlagsAreScored
  BY DEF Init, FlagsAreScored
<1>2. QED BY <1>1, ScoredStep, PTL DEF Spec

-----------------------------------------------------------------------------
(* A sequence of spans inside a longer one *)

\* t lies in u behind the first d spans of it.
Placed(t, u, d) ==
    /\ t \in Seq(Spans) /\ u \in Seq(Spans) /\ d \in Nat
    /\ Len(t) + d <= Len(u)
    /\ \A i \in DOMAIN t : t[i] = u[i + d]

Window(t, d) == {i + d : i \in DOMAIN t}
Shift(f, d) == [f EXCEPT !.at = {i + d : i \in f.at}]

\* The flags of the local checks.
LocalChecks(t) ==
    UNION {StaleContext(t), StepRepetition(t), TerminationLoop(t), ContextPropagationFailure(t),
           WrongAgentHandoff(t), InformationWithholding(t), ClarificationSkipped(t)}

LEMMA PlacedFacts ==
    ASSUME NEW t, NEW u, NEW d, Placed(t, u, d)
    PROVE  /\ d \in Nat /\ Len(t) \in Nat /\ Len(u) \in Nat
           /\ DOMAIN t = 1 .. Len(t) /\ DOMAIN u = 1 .. Len(u)
           /\ Window(t, d) = d + 1 .. d + Len(t)
           /\ \A i \in 1 .. Len(t) : i + d \in 1 .. Len(u) /\ u[i + d] = t[i]
<1>1. /\ d \in Nat /\ Len(t) \in Nat /\ Len(u) \in Nat
      /\ DOMAIN t = 1 .. Len(t) /\ DOMAIN u = 1 .. Len(u) /\ Len(t) + d <= Len(u)
  BY DEF Placed
<1>2. Window(t, d) = d + 1 .. d + Len(t)
  <2>1. ASSUME NEW j \in d + 1 .. d + Len(t) PROVE j \in Window(t, d)
    <3>1. j - d \in DOMAIN t /\ (j - d) + d = j
      BY <1>1
    <3>2. QED BY <3>1 DEF Window
  <2>2. QED BY <1>1, <2>1 DEF Window
<1>3. QED BY <1>1, <1>2 DEF Placed

\* What is at places i and i - 1 of u is at i - d and i - 1 - d of t.
LEMMA BackShift ==
    ASSUME NEW t, NEW u, NEW d, Placed(t, u, d), NEW i \in Window(t, d)
    PROVE  i \in Int /\ i - d \in 1 .. Len(t) /\ (i - d) + d = i /\ t[i - d] = u[i]
<1>1. i \in d + 1 .. d + Len(t)
  BY PlacedFacts
<1>2. i \in Int /\ i - d \in 1 .. Len(t) /\ (i - d) + d = i
  BY <1>1, PlacedFacts
<1>3. u[(i - d) + d] = t[i - d]
  BY <1>2, PlacedFacts
<1>4. QED BY <1>2, <1>3

LEMMA ShiftFlag ==
    ASSUME NEW type, NEW at, NEW names, NEW d
    PROVE  Shift(Flag(type, at, names), d) = Flag(type, {i + d : i \in at}, names)
BY DEF Shift, Flag

LEMMA ShiftPair ==
    ASSUME NEW a \in Int, NEW b \in Int, NEW d \in Int
    PROVE  {j + d : j \in {a, b}} = {a + d, b + d}
OBVIOUS

LEMMA ShiftRange ==
    ASSUME NEW a \in Int, NEW b \in Int, NEW d \in Int
    PROVE  {j + d : j \in a .. b} = a + d .. b + d
<1>1. ASSUME NEW k \in a + d .. b + d PROVE k \in {j + d : j \in a .. b}
  <2>1. k - d \in a .. b /\ (k - d) + d = k
    OBVIOUS
  <2>2. QED BY <2>1
<1>2. QED BY <1>1

\* The fields of a flag.
LEMMA FlagFields ==
    ASSUME NEW type, NEW at, NEW names
    PROVE  /\ Flag(type, at, names).type = type
           /\ Flag(type, at, names).at = at
           /\ Flag(type, at, names).names = names
BY DEF Flag

-----------------------------------------------------------------------------
(* One check after the other *)

LEMMA OutputPairsShift ==
    ASSUME NEW t, NEW u, NEW d, Placed(t, u, d), NEW i \in 2 .. Len(t)
    PROVE  /\ t[i] = u[i + d] /\ t[i - 1] = u[(i + d) - 1]
           /\ i + d \in 2 .. Len(u) /\ (i + d) - 1 = (i - 1) + d
           /\ i \in OutputPairs(t) <=> i + d \in OutputPairs(u)
<1>1. /\ i \in 1 .. Len(t) /\ i - 1 \in 1 .. Len(t) /\ (i - 1) + d = (i + d) - 1
      /\ i + d \in 2 .. Len(u)
  BY PlacedFacts DEF Placed
<1>2. t[i] = u[i + d] /\ t[i - 1] = u[(i + d) - 1]
  BY <1>1, PlacedFacts
<1>3. QED BY <1>1, <1>2 DEF OutputPairs

\* A pair of neighbours in the window is one of t.
LEMMA PairInWindow ==
    ASSUME NEW t, NEW u, NEW d, Placed(t, u, d), NEW i \in Int, {i - 1, i} \subseteq Window(t, d)
    PROVE  /\ i - d \in 2 .. Len(t) /\ (i - d) + d = i
           /\ {j + d : j \in {(i - d) - 1, i - d}} = {i - 1, i}
<1>1. d \in Nat /\ Len(t) \in Nat /\ i \in d + 1 .. d + Len(t) /\ i - 1 \in d + 1 .. d + Len(t)
  BY PlacedFacts
<1>2. i - d \in 2 .. Len(t) /\ (i - d) + d = i /\ ((i - d) - 1) + d = i - 1
  BY <1>1
<1>3. QED BY <1>1, <1>2, ShiftPair

\* A check finds in t what it finds in u behind the first d spans.
Agree(A, B, t, d) ==
    /\ \A f \in A : Shift(f, d) \in B
    /\ \A g \in B : g.at \subseteq Window(t, d) => \E f \in A : Shift(f, d) = g

\* The places T of t are those of U in the window, with the same names.
SamePlaces(t, u, d, T, U, P, Q) ==
    /\ T \subseteq 2 .. Len(t) /\ U \subseteq 2 .. Len(u)
    /\ \A i \in 2 .. Len(t) : i \in T <=> i + d \in U
    /\ \A i \in T : P[i] = Q[i + d]

Neighbours(type, T, P) == {Flag(type, {i - 1, i}, P[i]) : i \in T}

\* So it is with a check that looks at neighbours and at nothing else.
LEMMA NeighboursAgree ==
    ASSUME NEW t, NEW u, NEW d, Placed(t, u, d), NEW type,
           NEW T, NEW U, NEW P, NEW Q, SamePlaces(t, u, d, T, U, P, Q)
    PROVE  Agree(Neighbours(type, T, P), Neighbours(type, U, Q), t, d)
<1> USE DEF SamePlaces
<1>1. ASSUME NEW i \in T
      PROVE  Shift(Flag(type, {i - 1, i}, P[i]), d) = Flag(type, {(i + d) - 1, i + d}, Q[i + d])
  <2>1. i \in Int /\ i - 1 \in Int /\ d \in Int /\ (i - 1) + d = (i + d) - 1
    BY PlacedFacts
  <2>2. {j + d : j \in {i - 1, i}} = {(i + d) - 1, i + d}
    BY <2>1, ShiftPair
  <2>3. Shift(Flag(type, {i - 1, i}, P[i]), d) = Flag(type, {j + d : j \in {i - 1, i}}, P[i])
    BY ShiftFlag
  <2>4. P[i] = Q[i + d]
    OBVIOUS
  <2>5. QED BY <2>2, <2>3, <2>4
<1>2. ASSUME NEW i \in U, Flag(type, {i - 1, i}, Q[i]).at \subseteq Window(t, d)
      PROVE  i - d \in T /\ (i - d) + d = i
  <2>1. i \in Int /\ {i - 1, i} \subseteq Window(t, d)
    BY <1>2, FlagFields, PlacedFacts
  <2>2. i - d \in 2 .. Len(t) /\ (i - d) + d = i
    BY <2>1, PairInWindow
  <2>3. QED BY <2>2
<1>3. \A i \in T : i + d \in U
  OBVIOUS
<1>4. ASSUME NEW i \in U, Flag(type, {i - 1, i}, Q[i]).at \subseteq Window(t, d)
      PROVE  \E j \in T : Shift(Flag(type, {j - 1, j}, P[j]), d) = Flag(type, {i - 1, i}, Q[i])
  <2>1. Shift(Flag(type, {(i - d) - 1, i - d}, P[i - d]), d) = Flag(type, {i - 1, i}, Q[i])
    BY <1>1, <1>2, <1>4
  <2>2. QED BY <1>2, <1>4, <2>1
<1> DEFINE F(i) == Flag(type, {i - 1, i}, P[i])
           G(i) == Flag(type, {i - 1, i}, Q[i])
<1>5. \A i \in T : Shift(F(i), d) = G(i + d)
  BY <1>1
<1>6. \A i \in U : G(i).at \subseteq Window(t, d) => \E j \in T : Shift(F(j), d) = G(i)
  BY <1>4
<1> HIDE DEF F, G
<1>7. Agree({F(i) : i \in T}, {G(i) : i \in U}, t, d)
  BY <1>3, <1>5, <1>6 DEF Agree
<1>8. QED BY <1>7 DEF F, G, Neighbours

LEMMA StaleContextAgrees ==
    ASSUME NEW t, NEW u, NEW d, Placed(t, u, d)
    PROVE  Agree(StaleContext(t), StaleContext(u), t, d)
<1> DEFINE Copied(prompt, output) == Ratio[<<prompt, output>>] >= Thresholds.stale_context
           Stale(s) == {i \in OutputPairs(s) : Copied(s[i].prompt, s[i - 1].tool_output)}
           NoNames(s) == [i \in Stale(s) |-> <<>>]
<1>1. ASSUME NEW i \in 2 .. Len(t) PROVE i \in Stale(t) <=> i + d \in Stale(u)
  <2> HIDE DEF Copied
  <2>1. QED BY OutputPairsShift
<1>2. Stale(t) \subseteq 2 .. Len(t) /\ Stale(u) \subseteq 2 .. Len(u)
  BY DEF OutputPairs
<1>3. \A i \in Stale(t) : i + d \in Stale(u) /\ NoNames(t)[i] = NoNames(u)[i + d]
  BY <1>1, <1>2
<1>4. StaleContext(t) = Neighbours("stale_context", Stale(t), NoNames(t))
  BY DEF StaleContext, Neighbours
<1>5. StaleContext(u) = Neighbours("stale_context", Stale(u), NoNames(u))
  BY DEF StaleContext, Neighbours
<1> HIDE DEF Stale, NoNames
<1>6. SamePlaces(t, u, d, Stale(t), Stale(u), NoNames(t), NoNames(u))
  BY <1>1, <1>2, <1>3 DEF SamePlaces
<1>7. QED BY <1>4, <1>5, <1>6, NeighboursAgree

LEMMA WrongAgentHandoffAgrees ==
    ASSUME NEW t, NEW u, NEW d, Placed(t, u, d)
    PROVE  Agree(WrongAgentHandoff(t), WrongAgentHandoff(u), t, d)
<1> DEFINE Wrong(s) == {i \in 2 .. Len(s) : Violation(s[i - 1].agent, s[i].agent)}
           Agents(s) == [i \in Wrong(s) |-> <<s[i - 1].agent, s[i].agent>>]
<1>1. ASSUME NEW i \in 2 .. Len(t)
      PROVE  (i \in Wrong(t) <=> i + d \in Wrong(u)) /\ t[i] = u[i + d] /\ t[i - 1] = u[(i + d) - 1]
  BY OutputPairsShift
<1>2. Wrong(t) \subseteq 2 .. Len(t) /\ Wrong(u) \subseteq 2 .. Len(u)
  OBVIOUS
<1>3. \A i \in Wrong(t) : i + d \in Wrong(u) /\ Agents(t)[i] = Agents(u)[i + d]
  BY <1>1, <1>2
<1>4. WrongAgentHandoff(t) = Neighbours("wrong_agent_handoff", Wrong(t), Agents(t))
  BY DEF WrongAgentHandoff, Neighbours
<1>5. WrongAgentHandoff(u) = Neighbours("wrong_agent_handoff", Wrong(u), Agents(u))
  BY DEF WrongAgentHandoff, Neighbours
<1> HIDE DEF Wrong, Agents
<1>6. SamePlaces(t, u, d, Wrong(t), Wrong(u), Agents(t), Agents(u))
  BY <1>1, <1>2, <1>3 DEF SamePlaces
<1>7. QED BY <1>4, <1>5, <1>6, NeighboursAgree

LEMMA InformationWithholdingAgrees ==
    ASSUME NEW t, NEW u, NEW d, Placed(t, u, d)
    PROVE  Agree(InformationWithholding(t), InformationWithholding(u), t, d)
<1> DEFINE Withholds(a, b) ==
               /\ a.response # Null /\ b.prompt # Null
               /\ b.tool \notin VerifyTools /\ b.prompt \notin VerifyPrompts
               /\ Withheld(a.response, b.prompt)
           Lost(s) == {i \in 2 .. Len(s) : Withholds(s[i - 1], s[i])}
           NoNames(s) == [i \in Lost(s) |-> <<>>]
<1>1. ASSUME NEW i \in 2 .. Len(t) PROVE i \in Lost(t) <=> i + d \in Lost(u)
  <2> HIDE DEF Withholds
  <2>1. QED BY OutputPairsShift
<1>2. Lost(t) \subseteq 2 .. Len(t) /\ Lost(u) \subseteq 2 .. Len(u)
  OBVIOUS
<1>3. \A i \in Lost(t) : i + d \in Lost(u) /\ NoNames(t)[i] = NoNames(u)[i + d]
  BY <1>1, <1>2
<1>4. InformationWithholding(t) = Neighbours("information_withholding", Lost(t), NoNames(t))
  BY DEF InformationWithholding, Neighbours
<1>5. InformationWithholding(u) = Neighbours("information_withholding", Lost(u), NoNames(u))
  BY DEF InformationWithholding, Neighbours
<1> HIDE DEF Lost, NoNames
<1>6. SamePlaces(t, u, d, Lost(t), Lost(u), NoNames(t), NoNames(u))
  BY <1>1, <1>2, <1>3 DEF SamePlaces
<1>7. QED BY <1>4, <1>5, <1>6, NeighboursAgree

LEMMA ClarificationSkippedAgrees ==
    ASSUME NEW t, NEW u, NEW d, Placed(t, u, d)
    PROVE  Agree(ClarificationSkipped(t), ClarificationSkipped(u), t, d)
<1> DEFINE Skips(one) == one.prompt \in Disjunctive /\ one.response \notin Questions \union {Null}
           Skipped(s) == {i \in DOMAIN s : Skips(s[i])}
           F(i) == Flag("clarification_skipped", {i}, <<>>)
<1>1. /\ ClarificationSkipped(t) = {F(i) : i \in Skipped(t)}
      /\ ClarificationSkipped(u) = {F(i) : i \in Skipped(u)}
  BY DEF ClarificationSkipped
<1> HIDE DEF Skips
<1>2. ASSUME NEW i \in Skipped(t) PROVE i + d \in Skipped(u) /\ Shift(F(i), d) = F(i + d)
  <2>1. i \in 1 .. Len(t) /\ i + d \in 1 .. Len(u) /\ u[i + d] = t[i]
    BY PlacedFacts
  <2>2. i + d \in Skipped(u)
    BY <2>1, PlacedFacts
  <2>3. Shift(F(i), d) = Flag("clarification_skipped", {j + d : j \in {i}}, <<>>)
    BY ShiftFlag
  <2>4. {j + d : j \in {i}} = {i + d}
    OBVIOUS
  <2>5. QED BY <2>2, <2>3, <2>4
<1>3. ASSUME NEW i \in Skipped(u), F(i).at \subseteq Window(t, d)
      PROVE  i - d \in Skipped(t) /\ (i - d) + d = i
  <2>1. i \in Window(t, d)
    BY <1>3, FlagFields
  <2>2. i - d \in 1 .. Len(t) /\ (i - d) + d = i /\ t[i - d] = u[i]
    BY <2>1, BackShift
  <2>3. QED BY <2>2, PlacedFacts
<1>4. ASSUME NEW i \in Skipped(u), F(i).at \subseteq Window(t, d)
      PROVE  \E j \in Skipped(t) : Shift(F(j), d) = F(i)
  <2>1. Shift(F(i - d), d) = F((i - d) + d)
    BY <1>2, <1>3, <1>4
  <2>2. QED BY <1>3, <1>4, <2>1
<1> HIDE DEF Skipped, F
<1>5. QED BY <1>1, <1>2, <1>4 DEF Agree

LEMMA StepRepetitionAgrees ==
    ASSUME NEW t, NEW u, NEW d, Placed(t, u, d)
    PROVE  Agree(StepRepetition(t), StepRepetition(u), t, d)
<1> DEFINE Calls(s) == {i \in DOMAIN s : s[i].tool # Null}
           Same(s) == {ab \in Calls(s) \X Calls(s) :
                          ab[1] < ab[2] /\ Normalise(s[ab[1]]) = Normalise(s[ab[2]])}
           F(ab) == Flag("step_repetition", {ab[1], ab[2]}, <<>>)
<1>1. /\ StepRepetition(t) = {F(ab) : ab \in Same(t)}
      /\ StepRepetition(u) = {F(ab) : ab \in Same(u)}
  BY DEF StepRepetition
<1>2. ASSUME NEW ab \in Same(t)
      PROVE  <<ab[1] + d, ab[2] + d>> \in Same(u) /\ Shift(F(ab), d) = F(<<ab[1] + d, ab[2] + d>>)
  <2>1. PICK a \in Calls(t), b \in Calls(t) :
            ab = <<a, b>> /\ a < b /\ Normalise(t[a]) = Normalise(t[b])
    OBVIOUS
  <2>2. /\ a \in 1 .. Len(t) /\ a + d \in 1 .. Len(u) /\ u[a + d] = t[a]
        /\ b \in 1 .. Len(t) /\ b + d \in 1 .. Len(u) /\ u[b + d] = t[b]
    BY PlacedFacts
  <2>3. a + d \in Calls(u) /\ b + d \in Calls(u) /\ a + d < b + d
    BY <2>1, <2>2, PlacedFacts
  <2>4. <<a + d, b + d>> \in Same(u)
    BY <2>1, <2>2, <2>3
  <2>5. Shift(F(ab), d) = Flag("step_repetition", {j + d : j \in {a, b}}, <<>>)
    BY <2>1, ShiftFlag
  <2>6. {j + d : j \in {a, b}} = {a + d, b + d}
    BY <2>2, PlacedFacts, ShiftPair
  <2>7. QED BY <2>1, <2>4, <2>5, <2>6
<1>3. ASSUME NEW ab \in Same(u), F(ab).at \subseteq Window(t, d)
      PROVE  \E cd \in Same(t) : Shift(F(cd), d) = F(ab)
  <2>1. PICK a \in Calls(u), b \in Calls(u) :
            ab = <<a, b>> /\ a < b /\ Normalise(u[a]) = Normalise(u[b])
    OBVIOUS
  <2>2. a \in Window(t, d) /\ b \in Window(t, d)
    BY <1>3, <2>1, FlagFields
  <2>3. /\ a \in Int /\ a - d \in 1 .. Len(t) /\ (a - d) + d = a /\ t[a - d] = u[a]
        /\ b \in Int /\ b - d \in 1 .. Len(t) /\ (b - d) + d = b /\ t[b - d] = u[b]
    BY <2>2, BackShift
  <2>4. a - d \in Calls(t) /\ b - d \in Calls(t) /\ a - d < b - d
    <3>1. a - d < b - d
      BY <2>1, <2>3, PlacedFacts
    <3>2. u[a].tool # Null /\ u[b].tool # Null
      BY <2>1
    <3>3. QED BY <2>3, <3>1, <3>2, PlacedFacts
  <2>5. <<a - d, b - d>> \in Same(t)
    BY <2>1, <2>3, <2>4
  <2>6. Shift(F(<<a - d, b - d>>), d) = F(<<(a - d) + d, (b - d) + d>>)
    BY <1>2, <2>5
  <2>7. QED BY <2>1, <2>3, <2>5, <2>6
<1>4. \A ab \in Same(t) : Shift(F(ab), d) \in {F(cd) : cd \in Same(u)}
  BY <1>2
<1> HIDE DEF Same, F
<1>5. QED BY <1>1, <1>3, <1>4 DEF Agree

LEMMA LowPairShift ==
    ASSUME NEW t, NEW u, NEW d, Placed(t, u, d), NEW i \in 2 .. Len(t)
    PROVE  LowPair(t, i) <=> LowPair(u, i + d)
<1>1. /\ t[i] = u[i + d] /\ t[i - 1] = u[(i + d) - 1]
      /\ i \in OutputPairs(t) <=> i + d \in OutputPairs(u)
  BY OutputPairsShift
<1> DEFINE Low(prompt, output) ==
        Hybrid[<<prompt, output>>] < Thresholds.context_propagation_failure
<1>2. /\ LowPair(t, i) <=> i \in OutputPairs(t) /\ Low(t[i].prompt, t[i - 1].tool_output)
      /\ LowPair(u, i + d) <=>
            i + d \in OutputPairs(u) /\ Low(u[i + d].prompt, u[(i + d) - 1].tool_output)
  BY DEF LowPair
<1> HIDE DEF Low
<1>3. QED BY <1>1, <1>2

LEMMA ContextPropagationFailureAgrees ==
    ASSUME NEW t, NEW u, NEW d, Placed(t, u, d)
    PROVE  Agree(ContextPropagationFailure(t), ContextPropagationFailure(u), t, d)
<1> DEFINE Low(s) == {i \in DOMAIN s : LowPair(s, i) /\ LowPair(s, i - 1)}
           F(i) == Flag("context_propagation_failure", i - 2 .. i, <<>>)
<1>1. /\ ContextPropagationFailure(t) = {F(i) : i \in Low(t)}
      /\ ContextPropagationFailure(u) = {F(i) : i \in Low(u)}
  BY DEF ContextPropagationFailure
<1>2. /\ \A i \in Low(t) : i \in 3 .. Len(t)
      /\ \A i \in Low(u) : i \in 3 .. Len(u)
  BY PlacedFacts DEF LowPair, OutputPairs
<1>3. ASSUME NEW i \in 3 .. Len(t)
      PROVE  i \in Low(t) <=> i + d \in Low(u)
  <2>1. /\ i \in 2 .. Len(t) /\ i - 1 \in 2 .. Len(t) /\ (i - 1) + d = (i + d) - 1
        /\ i \in DOMAIN t /\ i + d \in DOMAIN u
    BY PlacedFacts
  <2>2. (LowPair(t, i) <=> LowPair(u, i + d)) /\ (LowPair(t, i - 1) <=> LowPair(u, (i + d) - 1))
    BY <2>1, LowPairShift
  <2>3. QED BY <2>1, <2>2
<1> HIDE DEF Low
<1>4. ASSUME NEW i \in Low(t) PROVE i + d \in Low(u) /\ Shift(F(i), d) = F(i + d)
  <2>1. i \in 3 .. Len(t) /\ i \in Int /\ i - 2 \in Int /\ d \in Int /\ (i - 2) + d = (i + d) - 2
    BY <1>2, PlacedFacts
  <2>2. {j + d : j \in i - 2 .. i} = (i + d) - 2 .. i + d
    BY <2>1, ShiftRange
  <2>3. Shift(F(i), d) = Flag("context_propagation_failure", {j + d : j \in i - 2 .. i}, <<>>)
    <3> DEFINE at == i - 2 .. i
    <3> HIDE DEF at
    <3>1. Shift(Flag("context_propagation_failure", at, <<>>), d)
              = Flag("context_propagation_failure", {j + d : j \in at}, <<>>)
      BY ShiftFlag
    <3>2. QED BY <3>1 DEF at
  <2>4. i + d \in Low(u)
    BY <1>3, <2>1
  <2>5. QED BY <2>2, <2>3, <2>4
<1>5. ASSUME NEW i \in Low(u), F(i).at \subseteq Window(t, d)
      PROVE  \E j \in Low(t) : Shift(F(j), d) = F(i)
  <2>1. i \in Nat /\ i - 2 .. i \subseteq Window(t, d)
    BY <1>2, <1>5, FlagFields, PlacedFacts
  <2>2. i \in d + 1 .. d + Len(t) /\ i - 2 \in d + 1 .. d + Len(t)
    BY <2>1, PlacedFacts
  <2>3. i - d \in 3 .. Len(t) /\ (i - d) + d = i
    BY <2>2, PlacedFacts
  <2>4. i - d \in Low(t)
    BY <1>3, <2>3
  <2>5. Shift(F(i - d), d) = F((i - d) + d)
    BY <1>4, <2>4
  <2>6. QED BY <2>3, <2>4, <2>5
<1> HIDE DEF F
<1>6. QED BY <1>1, <1>4, <1>5 DEF Agree

-----------------------------------------------------------------------------
(* Loops, reported where a tool's run is long enough for the first time *)

LEMMA LeastPlace ==
    ASSUME NEW S, S \subseteq Nat, S # {}
    PROVE  \E n \in S : \A m \in S : m >= n
<1>1. PICK n \in S : \A m \in S : ~(<<m, n>> \in OpToRel(<, Nat))
  BY NatLessThanWellFounded, WFMin
<1>2. \A a, b \in Nat : a < b => <<a, b>> \in OpToRel(<, Nat)
  BY Zenon DEF OpToRel
<1>3. \A m \in S : ~(m < n)
  BY <1>1, <1>2, Zenon
<1>4. QED BY <1>3

N == Thresholds.termination_loop_n

Looping(s) == {i \in DOMAIN s : Len(s) >= 2 /\ InLoop(s, i, N)}

LEMMA LoopIsReported ==
    ASSUME NEW s \in Seq(Spans), NEW i \in Looping(s)
    PROVE  \E f \in TerminationLoop(s) : f.type = "termination_loop" /\ f.names = <<s[i].tool>>
<1> DEFINE Same == {j \in Looping(s) : s[j].tool = s[i].tool}
           Firsts == {j \in Looping(s) : \A k \in Looping(s) : s[k].tool = s[j].tool => k >= j}
           F(j) == Flag("termination_loop", j - N + 1 .. j, <<s[j].tool>>)
<1>1. TerminationLoop(s) = {F(j) : j \in Firsts}
  BY DEF TerminationLoop, Looping, N
<1>2. Same \subseteq Nat /\ Same # {}
  BY DEF Looping
<1>3. PICK j \in Same : \A k \in Same : k >= j
  BY <1>2, LeastPlace
<1>4. j \in Firsts /\ s[j].tool = s[i].tool
  BY <1>3
<1>5. F(j).type = "termination_loop" /\ F(j).names = <<s[j].tool>>
  BY FlagFields
<1> HIDE DEF Firsts, F
<1>6. QED BY <1>1, <1>4, <1>5

\* A flag comes from a place whose run is long enough.
LEMMA LoopHasPlace ==
    ASSUME NEW s \in Seq(Spans), NEW f \in TerminationLoop(s)
    PROVE  \E i \in Looping(s) : f = Flag("termination_loop", i - N + 1 .. i, <<s[i].tool>>)
BY DEF TerminationLoop, Looping, N

LEMMA LoopShift ==
    ASSUME NEW t, NEW u, NEW d, Placed(t, u, d), NEW i \in 1 .. Len(t), i >= N
    PROVE  InLoop(t, i, N) <=> InLoop(u, i + d, N)
<1>1. N \in Nat \ {0} /\ d \in Nat /\ i \in Nat
  BY ThresholdAssumption, PlacedFacts DEF N
<1>2. u[i + d] = t[i] /\ i + d >= N
  BY <1>1, PlacedFacts
<1>3. ASSUME NEW j \in i - N + 1 .. i PROVE j + d \in (i + d) - N + 1 .. i + d /\ u[j + d] = t[j]
  <2>1. j \in 1 .. Len(t) /\ j + d \in (i + d) - N + 1 .. i + d
    BY <1>1, PlacedFacts
  <2>2. QED BY <2>1, PlacedFacts
<1>4. ASSUME NEW k \in (i + d) - N + 1 .. i + d
      PROVE  k - d \in i - N + 1 .. i /\ (k - d) + d = k
  BY <1>1
<1>5. (\A j \in i - N + 1 .. i : t[j].tool = t[i].tool)
          <=> (\A k \in (i + d) - N + 1 .. i + d : u[k].tool = u[i + d].tool)
  <2>1. ASSUME \A j \in i - N + 1 .. i : t[j].tool = t[i].tool,
               NEW k \in (i + d) - N + 1 .. i + d
        PROVE  u[k].tool = u[i + d].tool
    <3>1. k - d \in i - N + 1 .. i /\ u[k] = t[k - d]
      BY <1>3, <1>4
    <3>2. QED BY <1>2, <2>1, <3>1
  <2>2. ASSUME \A k \in (i + d) - N + 1 .. i + d : u[k].tool = u[i + d].tool,
               NEW j \in i - N + 1 .. i
        PROVE  t[j].tool = t[i].tool
    BY <1>2, <1>3, <2>2
  <2>3. QED BY <2>1, <2>2
<1>6. QED BY <1>2, <1>5 DEF InLoop

\* A loop of t is one of u, and a loop of u within t is one of t.
LEMMA TerminationLoopAgrees ==
    ASSUME NEW t, NEW u, NEW d, Placed(t, u, d)
    PROVE  /\ \A f \in TerminationLoop(t) : \E g \in TerminationLoop(u) : SameFinding(f, g)
           /\ \A g \in TerminationLoop(u) :
                  g.at \subseteq Window(t, d) /\ Len(t) # 1
                      => \E f \in TerminationLoop(t) : SameFinding(f, g)
<1>0. t \in Seq(Spans) /\ u \in Seq(Spans) /\ N \in Nat \ {0} /\ d \in Nat /\ Len(t) + d <= Len(u)
  BY ThresholdAssumption DEF Placed, N
<1>1. ASSUME NEW f \in TerminationLoop(t)
      PROVE  \E g \in TerminationLoop(u) : SameFinding(f, g)
  <2>1. PICK i \in Looping(t) : f = Flag("termination_loop", i - N + 1 .. i, <<t[i].tool>>)
    BY <1>0, LoopHasPlace
  <2>2. i \in 1 .. Len(t) /\ i >= N /\ InLoop(t, i, N) /\ Len(t) >= 2
    BY PlacedFacts DEF Looping, InLoop
  <2>3. i + d \in DOMAIN u /\ u[i + d] = t[i] /\ Len(u) >= 2
    BY <1>0, <2>2, PlacedFacts
  <2>4. i + d \in Looping(u)
    BY <2>2, <2>3, LoopShift DEF Looping
  <2>5. PICK g \in TerminationLoop(u) : g.type = "termination_loop" /\ g.names = <<u[i + d].tool>>
    BY <1>0, <2>4, LoopIsReported
  <2>6. f.type = "termination_loop" /\ f.names = <<t[i].tool>>
    BY <2>1, FlagFields
  <2>7. QED BY <2>3, <2>5, <2>6 DEF SameFinding
<1>2. ASSUME NEW g \in TerminationLoop(u), g.at \subseteq Window(t, d), Len(t) # 1
      PROVE  \E f \in TerminationLoop(t) : SameFinding(f, g)
  <2>1. PICK i \in Looping(u) : g = Flag("termination_loop", i - N + 1 .. i, <<u[i].tool>>)
    BY <1>0, LoopHasPlace
  <2>2. i \in 1 .. Len(u) /\ i >= N /\ InLoop(u, i, N)
    BY PlacedFacts DEF Looping, InLoop
  <2>3. i - N + 1 .. i \subseteq Window(t, d)
    <3> DEFINE at == i - N + 1 .. i
    <3> HIDE DEF at
    <3>1. Flag("termination_loop", at, <<u[i].tool>>).at = at
      BY FlagFields
    <3>2. g = Flag("termination_loop", at, <<u[i].tool>>)
      BY <2>1 DEF at
    <3>3. at \subseteq Window(t, d)
      BY <1>2, <3>1, <3>2
    <3>4. QED BY <3>3 DEF at
  <2>4. i \in Window(t, d) /\ i - N + 1 \in d + 1 .. d + Len(t)
    BY <1>0, <2>2, <2>3, PlacedFacts
  <2>5. i - d \in 1 .. Len(t) /\ (i - d) + d = i /\ t[i - d] = u[i]
    BY <2>4, BackShift
  <2>6. i - d >= N /\ Len(t) >= 2
    <3>1. i \in Nat /\ Len(t) \in Nat
      BY <2>2, PlacedFacts
    <3>2. i - N + 1 >= d + 1
      BY <1>0, <2>4, <3>1
    <3>3. i - d >= N
      BY <1>0, <3>1, <3>2
    <3>4. Len(t) >= 1
      BY <2>5, <3>1
    <3>5. \A k \in Nat : k >= 1 /\ k # 1 => k >= 2
      OBVIOUS
    <3>6. QED BY <1>2, <3>1, <3>3, <3>4, <3>5, Zenon
  <2>7. i - d \in Looping(t)
    BY <2>2, <2>5, <2>6, LoopShift, PlacedFacts DEF Looping
  <2>8. PICK f \in TerminationLoop(t) : f.type = "termination_loop" /\ f.names = <<t[i - d].tool>>
    BY <1>0, <2>7, LoopIsReported
  <2>9. g.type = "termination_loop" /\ g.names = <<u[i].tool>>
    BY <2>1, FlagFields
  <2>10. QED BY <2>5, <2>8, <2>9 DEF SameFinding
<1>3. QED BY <1>1, <1>2

-----------------------------------------------------------------------------
(* All local checks *)

\* f is what Flag makes of a check's name and some places.
IsFlag(f, type) ==
    /\ f.type = type /\ f.at \subseteq Int
    /\ f = Flag(f.type, f.at, f.names)

LEMMA MadeOfPlaces ==
    ASSUME NEW type, NEW at, NEW names, at \subseteq Int
    PROVE  IsFlag(Flag(type, at, names), type)
BY DEF IsFlag, Flag

LEMMA LocalReports ==
    ASSUME NEW t \in Seq(Spans), NEW f
    PROVE  /\ f \in StaleContext(t) => IsFlag(f, "stale_context")
           /\ f \in StepRepetition(t) => IsFlag(f, "step_repetition")
           /\ f \in TerminationLoop(t) => IsFlag(f, "termination_loop")
           /\ f \in ContextPropagationFailure(t) => IsFlag(f, "context_propagation_failure")
           /\ f \in WrongAgentHandoff(t) => IsFlag(f, "wrong_agent_handoff")
           /\ f \in InformationWithholding(t) => IsFlag(f, "information_withholding")
           /\ f \in ClarificationSkipped(t) => IsFlag(f, "clarification_skipped")
<1> USE MadeOfPlaces
<1>0. DOMAIN t = 1 .. Len(t) /\ Len(t) \in Nat
  OBVIOUS
<1>1. ASSUME f \in StaleContext(t) PROVE IsFlag(f, "stale_context")
  <2>1. PICK i \in OutputPairs(t) : f = Flag("stale_context", {i - 1, i}, <<>>)
    BY <1>1 DEF StaleContext
  <2>2. {i - 1, i} \subseteq Int
    BY <1>0 DEF OutputPairs
  <2>3. QED BY <2>1, <2>2
<1>2. ASSUME f \in StepRepetition(t) PROVE IsFlag(f, "step_repetition")
  <2> DEFINE Calls == {i \in DOMAIN t : t[i].tool # Null}
             Same == {ab \in Calls \X Calls :
                         ab[1] < ab[2] /\ Normalise(t[ab[1]]) = Normalise(t[ab[2]])}
             F(ab) == Flag("step_repetition", {ab[1], ab[2]}, <<>>)
  <2>1. StepRepetition(t) = {F(ab) : ab \in Same}
    BY DEF StepRepetition
  <2>2. PICK ab \in Same : f = F(ab)
    BY <1>2, <2>1
  <2>3. PICK a \in Calls, b \in Calls : ab = <<a, b>>
    OBVIOUS
  <2>4. {a, b} \subseteq Int /\ f = Flag("step_repetition", {a, b}, <<>>)
    BY <1>0, <2>2, <2>3
  <2>5. QED BY <2>4
<1>3. ASSUME f \in TerminationLoop(t) PROVE IsFlag(f, "termination_loop")
  <2>1. PICK i \in Looping(t) : f = Flag("termination_loop", i - N + 1 .. i, <<t[i].tool>>)
    BY <1>3, LoopHasPlace
  <2>2. i - N + 1 .. i \subseteq Int
    OBVIOUS
  <2>3. QED BY <2>1, <2>2
<1>4. ASSUME f \in ContextPropagationFailure(t) PROVE IsFlag(f, "context_propagation_failure")
  <2>1. PICK i \in DOMAIN t : f = Flag("context_propagation_failure", i - 2 .. i, <<>>)
    BY <1>4 DEF ContextPropagationFailure
  <2>2. i - 2 .. i \subseteq Int
    OBVIOUS
  <2>3. QED BY <2>1, <2>2
<1>5. ASSUME f \in WrongAgentHandoff(t) PROVE IsFlag(f, "wrong_agent_handoff")
  <2>1. PICK i \in 2 .. Len(t) :
            f = Flag("wrong_agent_handoff", {i - 1, i}, <<t[i - 1].agent, t[i].agent>>)
    BY <1>5 DEF WrongAgentHandoff
  <2>2. {i - 1, i} \subseteq Int
    BY <1>0
  <2>3. QED BY <2>1, <2>2
<1>6. ASSUME f \in InformationWithholding(t) PROVE IsFlag(f, "information_withholding")
  <2>1. PICK i \in 2 .. Len(t) : f = Flag("information_withholding", {i - 1, i}, <<>>)
    BY <1>6 DEF InformationWithholding
  <2>2. {i - 1, i} \subseteq Int
    BY <1>0
  <2>3. QED BY <2>1, <2>2
<1>7. ASSUME f \in ClarificationSkipped(t) PROVE IsFlag(f, "clarification_skipped")
  <2>1. PICK i \in DOMAIN t : f = Flag("clarification_skipped", {i}, <<>>)
    BY <1>7 DEF ClarificationSkipped
  <2>2. {i} \subseteq Int
    BY <1>0
  <2>3. QED BY <2>1, <2>2
<1>8. QED BY <1>1, <1>2, <1>3, <1>4, <1>5, <1>6, <1>7

\* The other checks speak of the trace from its beginning.
LEMMA GlobalReports ==
    ASSUME NEW t \in Seq(Spans), NEW f
    PROVE  /\ f \in HistoryLoss(t) => IsFlag(f, "history_loss")
           /\ f \in ConversationReset(t) => IsFlag(f, "conversation_reset")
           /\ f \in VerificationFlags(t) =>
                  IsFlag(f, "no_verification") \/ IsFlag(f, "incomplete_verification")
<1> USE MadeOfPlaces
<1>1. ASSUME f \in HistoryLoss(t) PROVE IsFlag(f, "history_loss")
  <2>1. PICK i \in Comparable(t, 4) : f = Flag("history_loss", 1 .. i, <<>>)
    BY <1>1 DEF HistoryLoss
  <2>2. 1 .. i \subseteq Int
    OBVIOUS
  <2>3. QED BY <2>1, <2>2
<1>2. ASSUME f \in ConversationReset(t) PROVE IsFlag(f, "conversation_reset")
  <2>1. PICK i \in Comparable(t, 5) : f = Flag("conversation_reset", 1 .. i, <<>>)
    BY <1>2 DEF ConversationReset
  <2>2. 1 .. i \subseteq Int
    OBVIOUS
  <2>3. QED BY <2>1, <2>2
<1>3. ASSUME f \in VerificationFlags(t)
      PROVE  IsFlag(f, "no_verification") \/ IsFlag(f, "incomplete_verification")
  <2>1. PICK type \in {"no_verification", "incomplete_verification"} : f = Flag(type, DOMAIN t, <<>>)
    BY <1>3 DEF VerificationFlags
  <2>2. DOMAIN t \subseteq Int
    OBVIOUS
  <2>3. QED BY <2>1, <2>2
<1>4. QED BY <1>1, <1>2, <1>3

LEMMA LocalChecksAreLocal ==
    ASSUME NEW t \in Seq(Spans), NEW f
    PROVE  f \in LocalChecks(t) <=> f \in Analyze(t) /\ f.type \in Local
<1>1. f \in Analyze(t) <=>
          f \in LocalChecks(t) \/ f \in HistoryLoss(t) \/ f \in ConversationReset(t) \/ f \in VerificationFlags(t)
  BY DEF Analyze, LocalChecks
<1>2. f \in LocalChecks(t) => f.type \in Local
  BY LocalReports DEF LocalChecks, Local, IsFlag
<1>3. f \in HistoryLoss(t) \/ f \in ConversationReset(t) \/ f \in VerificationFlags(t) => f.type \notin Local
  BY GlobalReports DEF Local, IsFlag
<1>4. QED BY <1>1, <1>2, <1>3

LEMMA ReportsAreFlags ==
    ASSUME NEW t \in Seq(Spans), NEW f \in Analyze(t)
    PROVE  IsFlag(f, f.type)
<1>1. f \in LocalChecks(t) => IsFlag(f, f.type)
  BY LocalReports DEF LocalChecks, IsFlag
<1>2. f \in HistoryLoss(t) \/ f \in ConversationReset(t) \/ f \in VerificationFlags(t) => IsFlag(f, f.type)
  BY GlobalReports DEF IsFlag
<1>3. QED BY <1>1, <1>2 DEF Analyze, LocalChecks

LEMMA ShiftKeepsType ==
    ASSUME NEW f, NEW d, IsFlag(f, f.type)
    PROVE  Shift(f, d).type = f.type
<1>1. Shift(f, d) = Flag(f.type, {i + d : i \in f.at}, f.names)
  BY ShiftFlag DEF IsFlag
<1>2. QED BY <1>1, FlagFields

LEMMA ShiftByNothing ==
    ASSUME NEW f, IsFlag(f, f.type)
    PROVE  Shift(f, 0) = f
<1>1. Shift(f, 0) = Flag(f.type, {i + 0 : i \in f.at}, f.names)
  BY ShiftFlag DEF IsFlag
<1>2. {i + 0 : i \in f.at} = f.at
  <2>1. \A i \in f.at : i + 0 = i
    BY DEF IsFlag
  <2>2. QED BY <2>1
<1>3. QED BY <1>1, <1>2 DEF IsFlag

LEMMA SameAsItself ==
    ASSUME NEW f
    PROVE  SameFinding(f, f)
BY DEF SameFinding

LEMMA LoopStays ==
    ASSUME NEW s \in Seq(Spans), NEW f \in TerminationLoop(s), NEW g, NEW d, SameFinding(f, g)
    PROVE  SameFinding(Shift(f, d), g)
<1>1. PICK i \in Looping(s) : f = Flag("termination_loop", i - N + 1 .. i, <<s[i].tool>>)
  BY LoopHasPlace
<1> DEFINE at == i - N + 1 .. i
<1> HIDE DEF at
<1>2. f = Flag("termination_loop", at, <<s[i].tool>>)
  BY <1>1 DEF at
<1>3. Shift(f, d) = Flag("termination_loop", {j + d : j \in at}, <<s[i].tool>>)
  BY <1>2, ShiftFlag
<1>4. /\ f.type = "termination_loop" /\ Shift(f, d).type = "termination_loop"
      /\ Shift(f, d).names = f.names
  BY <1>2, <1>3, FlagFields
<1>5. QED BY <1>4 DEF SameFinding

\* The checks that agree to the letter.
Exact(t) ==
    UNION {StaleContext(t), StepRepetition(t), ContextPropagationFailure(t), WrongAgentHandoff(t),
           InformationWithholding(t), ClarificationSkipped(t)}

LEMMA ExactAgrees ==
    ASSUME NEW t, NEW u, NEW d, Placed(t, u, d)
    PROVE  Agree(Exact(t), Exact(u), t, d)
<1>1. /\ Agree(StaleContext(t), StaleContext(u), t, d)
      /\ Agree(StepRepetition(t), StepRepetition(u), t, d)
      /\ Agree(ContextPropagationFailure(t), ContextPropagationFailure(u), t, d)
      /\ Agree(WrongAgentHandoff(t), WrongAgentHandoff(u), t, d)
      /\ Agree(InformationWithholding(t), InformationWithholding(u), t, d)
      /\ Agree(ClarificationSkipped(t), ClarificationSkipped(u), t, d)
  BY StaleContextAgrees, StepRepetitionAgrees, ContextPropagationFailureAgrees,
     WrongAgentHandoffAgrees, InformationWithholdingAgrees, ClarificationSkippedAgrees
<1>2. QED BY <1>1 DEF Agree, Exact

LEMMA LocalIsExactOrLoop ==
    ASSUME NEW t
    PROVE  LocalChecks(t) = Exact(t) \union TerminationLoop(t)
BY DEF LocalChecks, Exact

\* What the local checks find in t is found in u.
LEMMA FoundInWhole ==
    ASSUME NEW t, NEW u, NEW d, Placed(t, u, d), NEW f \in LocalChecks(t)
    PROVE  \E g \in LocalChecks(u) : SameFinding(Shift(f, d), g)
<1>1. CASE f \in Exact(t)
  <2>1. Shift(f, d) \in Exact(u)
    BY <1>1, ExactAgrees DEF Agree
  <2>2. QED BY <2>1, SameAsItself, LocalIsExactOrLoop
<1>2. CASE f \in TerminationLoop(t)
  <2>1. PICK g \in TerminationLoop(u) : SameFinding(f, g)
    BY <1>2, TerminationLoopAgrees
  <2>2. SameFinding(Shift(f, d), g)
    BY <1>2, <2>1, LoopStays DEF Placed
  <2>3. QED BY <2>2, LocalIsExactOrLoop
<1>3. QED BY <1>1, <1>2, LocalIsExactOrLoop

\* And what they find in u by spans of t alone is found in t.
LEMMA FoundInPart ==
    ASSUME NEW t, NEW u, NEW d, Placed(t, u, d), NEW g \in LocalChecks(u),
           g.at \subseteq Window(t, d), Len(t) # 1 \/ g.type # "termination_loop"
    PROVE  \E f \in LocalChecks(t) : SameFinding(Shift(f, d), g)
<1>1. CASE g \in Exact(u)
  <2>1. PICK f \in Exact(t) : Shift(f, d) = g
    BY <1>1, ExactAgrees DEF Agree
  <2>2. QED BY <2>1, SameAsItself, LocalIsExactOrLoop
<1>2. CASE g \in TerminationLoop(u)
  <2>1. g.type = "termination_loop"
    BY <1>2, LocalReports DEF Placed, IsFlag
  <2>2. PICK f \in TerminationLoop(t) : SameFinding(f, g)
    BY <1>2, <2>1, TerminationLoopAgrees
  <2>3. SameFinding(Shift(f, d), g)
    BY <2>2, LoopStays DEF Placed
  <2>4. QED BY <2>3, LocalIsExactOrLoop
<1>3. QED BY <1>1, <1>2, LocalIsExactOrLoop

-----------------------------------------------------------------------------
(* The buffer and the parts *)

\* The buffer holds the end of the trace.
BufferInv == Placed(buffer, trace, Offset) /\ Offset + Len(buffer) = Len(trace)

\* A part is a run of the trace u whose local flags have been written.
IsPart(part, u, written) ==
    \E t, d : /\ Placed(t, u, d)
              /\ part = Window(t, d)
              /\ \A f \in LocalChecks(t) : Shift(f, d) \in written

PartsInv == \A part \in analysed : IsPart(part, trace, trace_flags)

TraceInv == BufferInv /\ PartsInv /\ PartsReportNothingNew

LEMMA SameFindingTransitive ==
    ASSUME NEW f, NEW g, NEW h, SameFinding(f, g), SameFinding(g, h)
    PROVE  SameFinding(f, h)
BY DEF SameFinding

\* A flag of t, written with its places in the trace, is a flag of the trace.
LEMMA NewFlagsAreFound ==
    ASSUME BufferInv, NEW f \in Analyze(buffer), InTrace(f).type \in Local
    PROVE  \E g \in LocalFlags : SameFinding(InTrace(f), g)
<1>1. InTrace(f) = Shift(f, Offset)
  BY DEF InTrace, Shift
<1>2. f \in LocalChecks(buffer)
  <2>1. buffer \in Seq(Spans)
    BY DEF BufferInv, Placed
  <2>2. f.type \in Local
    BY <1>1, <2>1, ReportsAreFlags, ShiftKeepsType
  <2>3. QED BY <2>1, <2>2, LocalChecksAreLocal
<1>3. \E g \in LocalChecks(trace) : SameFinding(InTrace(f), g)
  BY <1>1, <1>2, FoundInWhole DEF BufferInv
<1>4. QED BY <1>3, LocalChecksAreLocal DEF LocalFlags, BufferInv, Placed

\* The trace has grown by a span.
LEMMA ProcessStep ==
    ASSUME TraceInv, NEW next \in Spans, Process(next)
    PROVE  TraceInv'
<1>1. /\ trace \in Seq(Spans) /\ buffer \in Seq(Spans)
      /\ trace' = Append(trace, next) /\ buffer' = Append(buffer, next)
      /\ analysed' = analysed /\ trace_flags' = trace_flags
  BY DEF TraceInv, BufferInv, Placed, Process
<1>2. /\ Len(trace) \in Nat /\ Len(buffer) \in Nat /\ Offset \in Nat
      /\ trace' \in Seq(Spans) /\ Len(trace') = Len(trace) + 1
      /\ buffer' \in Seq(Spans) /\ Len(buffer') = Len(buffer) + 1
      /\ DOMAIN trace = 1 .. Len(trace) /\ DOMAIN buffer = 1 .. Len(buffer)
      /\ DOMAIN buffer' = 1 .. Len(buffer) + 1
      /\ \A i \in 1 .. Len(trace) : trace'[i] = trace[i]
      /\ trace'[Len(trace) + 1] = next
      /\ \A i \in 1 .. Len(buffer) : buffer'[i] = buffer[i]
      /\ buffer'[Len(buffer) + 1] = next
  BY <1>1 DEF TraceInv, BufferInv, Placed
<1>3. Offset' = Offset
  BY <1>2 DEF Offset
<1>4. BufferInv'
  <2>1. ASSUME NEW i \in 1 .. Len(buffer) + 1 PROVE buffer'[i] = trace'[i + Offset]
    <3>1. CASE i = Len(buffer) + 1
      <4>1. i + Offset = Len(trace) + 1
        BY <1>2, <3>1 DEF Offset
      <4>2. QED BY <1>2, <3>1, <4>1
    <3>2. CASE i # Len(buffer) + 1
      <4>1. i \in 1 .. Len(buffer) /\ i + Offset \in 1 .. Len(trace)
        BY <1>2, <3>2 DEF Offset
      <4>2. buffer[i] = trace[i + Offset]
        BY <1>2, <4>1 DEF TraceInv, BufferInv, Placed
      <4>3. QED BY <1>2, <4>1, <4>2
    <3>3. QED BY <3>1, <3>2
  <2>2. Offset + Len(buffer') = Len(trace')
    BY <1>2 DEF Offset
  <2>3. QED BY <1>2, <1>3, <2>1, <2>2 DEF BufferInv, Placed
<1>5. ASSUME NEW t, NEW d, Placed(t, trace, d) PROVE Placed(t, trace', d)
  BY <1>2, <1>5 DEF Placed
<1>6. PartsInv'
  <2>1. ASSUME NEW part \in analysed PROVE IsPart(part, trace', trace_flags)
    <3>1. PICK t, d : /\ Placed(t, trace, d) /\ part = Window(t, d)
                      /\ \A f \in LocalChecks(t) : Shift(f, d) \in trace_flags
      BY DEF TraceInv, PartsInv, IsPart
    <3>2. Placed(t, trace', d)
      BY <1>5, <3>1
    <3>3. QED BY <3>1, <3>2 DEF IsPart
  <2>2. QED BY <1>1, <2>1 DEF PartsInv
<1>7. Placed(trace, trace', 0)
  BY <1>1, <1>2 DEF Placed
<1>8. ASSUME NEW f \in trace_flags, f.type \in Local
      PROVE  \E h \in LocalFlags' : SameFinding(f, h)
  <2>1. PICK g \in LocalFlags : SameFinding(f, g)
    BY <1>8 DEF TraceInv, PartsReportNothingNew
  <2>2. g \in LocalChecks(trace) /\ IsFlag(g, g.type)
    BY <1>1, LocalChecksAreLocal, ReportsAreFlags DEF LocalFlags
  <2>3. PICK h \in LocalChecks(trace') : SameFinding(Shift(g, 0), h)
    BY <1>7, <2>2, FoundInWhole
  <2>4. Shift(g, 0) = g
    BY <2>2, ShiftByNothing
  <2>5. SameFinding(f, h)
    BY <2>1, <2>3, <2>4, SameFindingTransitive
  <2>6. h \in LocalFlags'
    BY <1>2, LocalChecksAreLocal DEF LocalFlags
  <2>7. QED BY <2>5, <2>6
<1>9. QED BY <1>1, <1>4, <1>6, <1>8 DEF TraceInv, PartsReportNothingNew

\* The buffer is forgotten, its flags being written or not.
LEMMA BufferIsForgotten ==
    ASSUME TraceInv, trace' = trace, buffer' = <<>>
    PROVE  BufferInv'
<1>1. trace \in Seq(Spans) /\ Len(trace) \in Nat
  BY DEF TraceInv, BufferInv, Placed
<1>2. Offset' = Len(trace)
  BY <1>1 DEF Offset
<1>3. <<>> \in Seq(Spans) /\ Len(<<>>) = 0 /\ DOMAIN <<>> = {}
  OBVIOUS
<1>4. QED BY <1>1, <1>2, <1>3 DEF BufferInv, Placed

LEMMA FlagsStayFound ==
    ASSUME TraceInv, trace' = trace,
           trace_flags' \subseteq trace_flags \union {InTrace(f) : f \in Analyze(buffer)}
    PROVE  PartsReportNothingNew'
<1>1. LocalFlags' = LocalFlags
  BY DEF LocalFlags
<1>2. ASSUME NEW f \in trace_flags', f.type \in Local
      PROVE  \E g \in LocalFlags : SameFinding(f, g)
  <2>1. CASE f \in trace_flags
    BY <1>2, <2>1 DEF TraceInv, PartsReportNothingNew
  <2>2. CASE f \notin trace_flags
    <3>1. PICK e \in Analyze(buffer) : f = InTrace(e)
      BY <2>2
    <3>2. QED BY <1>2, <3>1, NewFlagsAreFound DEF TraceInv
  <2>3. QED BY <2>1, <2>2
<1>3. QED BY <1>1, <1>2 DEF PartsReportNothingNew

\* Parts that were analysed stay what they are.
LEMMA OldParts ==
    ASSUME PartsInv, NEW part \in analysed, NEW more, trace_flags \subseteq more
    PROVE  IsPart(part, trace, more)
<1>1. PICK t, d : /\ Placed(t, trace, d) /\ part = Window(t, d)
                  /\ \A f \in LocalChecks(t) : Shift(f, d) \in trace_flags
  BY DEF PartsInv, IsPart
<1>2. QED BY <1>1 DEF IsPart

LEMMA FlushStep ==
    ASSUME TraceInv, Flush
    PROVE  TraceInv'
<1>1. /\ trace' = trace /\ buffer' = <<>>
      /\ trace_flags' = trace_flags \union {InTrace(f) : f \in Analyze(buffer)}
      /\ analysed' = analysed \union {{i + Offset : i \in DOMAIN buffer}}
  BY DEF Flush
<1>2. buffer \in Seq(Spans) /\ Placed(buffer, trace, Offset)
  BY DEF TraceInv, BufferInv, Placed
<1>3. ASSUME NEW f \in LocalChecks(buffer) PROVE Shift(f, Offset) \in trace_flags'
  <2>1. f \in Analyze(buffer)
    BY <1>2, LocalChecksAreLocal
  <2>2. InTrace(f) = Shift(f, Offset)
    BY DEF InTrace, Shift
  <2>3. QED BY <1>1, <2>1, <2>2
<1>4. IsPart(Window(buffer, Offset), trace, trace_flags')
  BY <1>2, <1>3 DEF IsPart
<1>5. \A part \in analysed' : IsPart(part, trace, trace_flags')
  <2>1. trace_flags \subseteq trace_flags'
    BY <1>1
  <2>2. \A part \in analysed : IsPart(part, trace, trace_flags')
    BY <2>1, OldParts DEF TraceInv
  <2>3. QED BY <1>1, <1>4, <2>2 DEF Window
<1>6. PartsInv'
  BY <1>1, <1>5 DEF PartsInv
<1>7. QED BY <1>1, <1>6, BufferIsForgotten, FlagsStayFound DEF TraceInv

LEMMA FlushFailsStep ==
    ASSUME TraceInv, FlushFails
    PROVE  TraceInv'
<1>1. /\ trace' = trace /\ buffer' = <<>> /\ analysed' = analysed
      /\ trace_flags' \subseteq trace_flags \union {InTrace(f) : f \in Analyze(buffer)}
      /\ trace_flags \subseteq trace_flags'
  BY DEF FlushFails
<1>2. \A part \in analysed : IsPart(part, trace, trace_flags')
  BY <1>1, OldParts DEF TraceInv
<1>3. PartsInv'
  BY <1>1, <1>2 DEF PartsInv
<1>4. QED BY <1>1, <1>3, BufferIsForgotten, FlagsStayFound DEF TraceInv

LEMMA SpecTraceInv == TraceSpec => []TraceInv
<1>1. TraceInit => TraceInv
  <2> SUFFICES ASSUME TraceInit PROVE TraceInv
    OBVIOUS
  <2>1. trace = <<>> /\ buffer = <<>> /\ analysed = {} /\ trace_flags = {}
    BY DEF TraceInit
  <2>2. <<>> \in Seq(Spans) /\ Len(<<>>) = 0 /\ DOMAIN <<>> = {}
    OBVIOUS
  <2>3. Offset = 0
    BY <2>1, <2>2 DEF Offset
  <2>4. BufferInv
    BY <2>1, <2>2, <2>3 DEF BufferInv, Placed
  <2>5. QED BY <2>1, <2>4 DEF TraceInv, PartsInv, PartsReportNothingNew
<1>2. TraceInv /\ [TraceNext]_traceVars => TraceInv'
  <2> SUFFICES ASSUME TraceInv, [TraceNext]_traceVars PROVE TraceInv'
    OBVIOUS
  <2>1. ASSUME NEW next \in Spans, Process(next) PROVE TraceInv'
    BY <2>1, ProcessStep
  <2>2. CASE Flush
    BY <2>2, FlushStep
  <2>3. CASE FlushFails
    BY <2>3, FlushFailsStep
  <2>4. CASE UNCHANGED traceVars
    BY <2>4 DEF TraceInv, BufferInv, Offset, PartsInv, PartsReportNothingNew, LocalFlags, traceVars
  <2>5. QED BY <2>1, <2>2, <2>3, <2>4 DEF TraceNext
<1>3. QED BY <1>1, <1>2, PTL DEF TraceSpec

\* However late spans cut a trace into parts, and whichever flush fails, the
\* local checks report of a part only what they would report of the trace.
THEOREM SpecPartsReportNothingNew == TraceSpec => []PartsReportNothingNew
<1>1. TraceInv => PartsReportNothingNew
  BY DEF TraceInv
<1>2. QED BY <1>1, SpecTraceInv, PTL

\* And what they would report of spans that all lie in an analysed part is
\* reported, for any texts, thresholds and length of a trace.
THEOREM SpecOnlyBordersHideFindings == TraceSpec => []OnlyBordersHideFindings
<1>1. TraceInv => OnlyBordersHideFindings
  <2> SUFFICES ASSUME TraceInv, NEW part \in analysed, NEW g \in LocalFlags,
                      g.at \subseteq part, ~LoneCall(part, g)
               PROVE  \E f \in trace_flags : SameFinding(f, g)
    BY DEF OnlyBordersHideFindings
  <2>1. PICK t, d : /\ Placed(t, trace, d) /\ part = Window(t, d)
                    /\ \A f \in LocalChecks(t) : Shift(f, d) \in trace_flags
    BY DEF TraceInv, PartsInv, IsPart
  <2>2. g \in LocalChecks(trace)
    BY LocalChecksAreLocal DEF LocalFlags, TraceInv, BufferInv, Placed
  <2>3. Len(t) # 1 \/ g.type # "termination_loop"
    <3> SUFFICES ASSUME Len(t) = 1 PROVE Cardinality(part) = 1
      BY DEF LoneCall
    <3>1. part = d + 1 .. d + 1 /\ d \in Nat
      BY <2>1, PlacedFacts
    <3>2. part = {d + 1}
      BY <3>1
    <3>3. QED BY <3>2, FS_Singleton
  <2>4. PICK f \in LocalChecks(t) : SameFinding(Shift(f, d), g)
    BY <2>1, <2>2, <2>3, FoundInPart
  <2>5. QED BY <2>1, <2>4
<1>2. QED BY <1>1, SpecTraceInv, PTL
=============================================================================
