----------------------------- MODULE SpanChecks -----------------------------
(***************************************************************************)
(* What the worker makes of one span: the thirteen checks of its three     *)
(* span analyzers (worker/tool_call_analyzer.py, output_schema_analyzer.py *)
(* and semantic_span_analyzer.py) in the order process_span runs them,     *)
(* with the scores they log, the flags they raise and the exceptions that  *)
(* escape them.                                                            *)
(*                                                                         *)
(* A span is a record of what the checks can tell about its text.  A       *)
(* similarity is an integer; the distance a better tool must have is Gap,  *)
(* the least a tool must have is Coherence.  The embedder answers:         *)
(* Worker.tla has its failures.                                            *)
(*                                                                         *)
(* Nothing sees to it that the tools offered differ by name.  Of those of  *)
(* one name wrong_tool_choice takes the most similar, offered              *)
(* (tool_call_analyzer.py:248), and response_anomaly the last of the list, *)
(* later (:620); of a name offered once the two are the same.              *)
(***************************************************************************)
EXTENDS Integers, FiniteSets, Sequences, TLC

CONSTANTS SpanSet,          \* the spans that may be analysed
          Coherence, Gap    \* tool_coherence_threshold, and the 0.10 of a gap

\* With a gap above 0 the best tool is never the wrong choice, as where its
\* rank is 1.
ASSUME SimilarityAssumption ==
    /\ Coherence \in Int /\ Gap \in Nat \ {0}
    /\ \A s \in SpanSet : /\ IsFiniteSet(DOMAIN s.offered)
                         /\ \A t \in DOMAIN s.offered : s.offered[t] \in Int

None == "none"

VARIABLES span,     \* the span under analysis
          check,    \* the number of the next check
          log,      \* metrics logged for it
          flags,    \* flags raised for it
          outcome   \* "running", "done", "retried" or "given up"
vars == <<span, check, log, flags, outcome>>

ToolCallChecks == <<"tool_not_available", "wrong_tool_choice", "unnecessary_tool_call",
                    "wrong_tool_args", "no_tool", "parsing_error", "response_anomaly">>
OutputSchemaChecks == <<"output_schema_violation", "required_fields_missing",
                        "output_truncated", "type_coercion_error", "context_overflow">>
SemanticChecks == <<"missing_details">>
Checks == ToolCallChecks \o OutputSchemaChecks \o SemanticChecks

Init == /\ span \in SpanSet
        /\ check = 1 /\ log = {} /\ flags = {} /\ outcome = "running"

Now(name) == outcome = "running" /\ check <= Len(Checks) /\ Checks[check] = name

\* A check logs its metrics before it looks at a threshold.
Verdict(name, metrics, flagged) ==
    /\ Now(name)
    /\ log' = log \cup metrics
    /\ flags' = IF flagged THEN flags \cup {name} ELSE flags
    /\ check' = check + 1
    /\ UNCHANGED <<span, outcome>>

\* process_span does not catch what a check raises: nothing is written.  The
\* loop takes a ValueError for a span that is not stored yet.  What the check
\* had logged by then stays in the analyzer (Worker.tla).
Raise(name, result) == Now(name) /\ outcome' = result /\ UNCHANGED <<span, check, log, flags>>
-----------------------------------------------------------------------------
\* The tool called, and the tools offered with their similarity to the prompt:
\* as wrong_tool_choice compares them, and as response_anomaly does.
Listed == span.tool # None /\ span.tool \in DOMAIN span.offered
Similarity(t) == span.offered[t]
Greatest(sims) == CHOOSE n \in {sims[t] : t \in DOMAIN sims} : \A t \in DOMAIN sims : sims[t] <= n
Best == Greatest(span.offered)
ClearlyBetter == Best - Similarity(span.tool) >= Gap
BetterOfLast == Greatest(span.later) - span.later[span.tool] >= Gap
ClearlyBetterStrictly == Best - Similarity(span.tool) > Gap

\* An element of available_tools that is no object stops whoever comes to it:
\* the search for the called tool, if it stands before that, and the embedding
\* of them all.
SearchRaises == span.odd_tool = "first" \/ (span.odd_tool = "last" /\ ~Listed)
EmbeddingRaises == span.odd_tool # None

CheckToolNotAvailable ==
    LET absent == span.tool # None /\ ~Listed
    IN  IF span.tool # None /\ SearchRaises THEN Raise("tool_not_available", "given up")
        ELSE Verdict("tool_not_available", IF absent THEN {"tool_not_in_list"} ELSE {}, absent)

\* Where prompt and tool share a lemma nothing is ranked.  Among tools as
\* similar as the called one the order of the list decides about the rank.
Ranked == Listed /\ span.prompt # None /\ ~span.contained
Outranked == IF ~Ranked THEN {FALSE}
             ELSE {b \in BOOLEAN :
                       /\ Similarity(span.tool) < Best => b
                       /\ b => \E t \in DOMAIN span.offered \ {span.tool} : Similarity(t) >= Similarity(span.tool)}

ToolChoice(better) ==
    IF Ranked /\ EmbeddingRaises THEN Raise("wrong_tool_choice", "given up")
    ELSE \E outranked \in Outranked :
             LET compared == Ranked /\ Best >= Coherence /\ outranked
             IN  Verdict("wrong_tool_choice",
                         (IF compared THEN {"score_gap"} ELSE {})
                             \cup (IF Ranked THEN {"embedding_rank", "embedding_score"}
                                   ELSE IF Listed /\ span.prompt # None THEN {"containment_match"} ELSE {}),
                         compared /\ better)

CheckWrongToolChoiceStrictly == ToolChoice(ClearlyBetterStrictly)

CheckWrongToolChoice == ToolChoice(ClearlyBetter)

\* Short, without entities and action verbs; then near the social centroid.
CheckUnnecessaryToolCall ==
    LET gated == span.tool # None /\ span.prompt # None /\ span.small_talk # "no"
    IN  Verdict("unnecessary_tool_call", IF gated THEN {"social_centroid_score"} ELSE {},
                gated /\ span.small_talk = "near")

\* Arguments are judged whether or not a tool is named.  Values are looked at
\* unless the called tool does not fit the prompt; a blank
\* one is a violation without a score, literals and quotes of the prompt are
\* none, the others are embedded.
CheckWrongArgs ==
    LET judged == span.prompt # None /\ span.args.form = "object"
        fitted == judged /\ Listed
        values == IF judged /\ (fitted => span.fits) THEN span.args.values ELSE {}
    IN  Verdict("wrong_tool_args",
                (IF fitted THEN {"tool_fit_score"} ELSE {})
                    \cup (IF values \cap {"near", "far"} # {} THEN {"arg_grounding"} ELSE {}),
                values \cap {"blank", "far"} # {})

CheckNoTool ==
    LET judged == span.tool = None /\ span.prompt # None
    IN  Verdict("no_tool", IF judged THEN {"prompt_expects_tool"} ELSE {}, judged /\ span.expects_tool)
-----------------------------------------------------------------------------
\* The registry (tool_call_registry.py): how a model hands over its tool calls.
Api(arguments) == [transport |-> "api_structured", detects |-> TRUE, arguments |-> arguments]
RawText(detects) == [transport |-> "raw_text", detects |-> detects, arguments |-> "in_text"]

ClaudeEntries == "claude-3-opus" :> Api("object") @@ "claude-2-bedrock" :> RawText(TRUE)
OpenAIEntries == "gpt-4o" :> Api("json_string")
CloudEntries == "gemini-2-0-flash" :> Api("proto_struct") @@ "command-r" :> Api("object")
HermesLlamaEntries == "hermes-3" :> RawText(TRUE) @@ "llama-3-1" :> RawText(TRUE)
DeepseekEntries == "deepseek-v3" :> RawText(FALSE) @@ "deepseek-r1" :> RawText(TRUE)
SmallModelEntries == "phi4-mini" :> RawText(TRUE) @@ "bitnet-2b" :> RawText(TRUE)
Registry == ClaudeEntries @@ OpenAIEntries @@ CloudEntries
                @@ HermesLlamaEntries @@ DeepseekEntries @@ SmallModelEntries

\* raw_response is "text" (no JSON), "value" (JSON, but no object, or its first
\* choice is none), "plain" or "length" (an object that was cut, or not).
Misparsed ==
    IF span.model \notin DOMAIN Registry THEN TRUE
    ELSE LET entry == Registry[span.model]
         IN  IF entry.transport = "raw_text" THEN entry.detects /\ ~span.detected
             ELSE \/ span.raw_response = "text"
                  \/ /\ span.detected /\ entry.arguments = "json_string"
                     /\ span.raw_response # "value" /\ span.argument_field = "object"

CheckParsingError ==
    LET judged == span.raw_response # None
    IN  Verdict("parsing_error", IF judged THEN {"format_match"} ELSE {}, judged /\ Misparsed)

\* Left to wrong_tool_choice where a clearly better tool was offered.
Anomaly(deferred) ==
    LET judged == span.prompt # None /\ span.response # None /\ span.tool # None
        long == judged /\ span.prompt = "long"
    IN  IF long /\ EmbeddingRaises THEN Raise("response_anomaly", "given up")
        ELSE Verdict("response_anomaly", IF judged THEN {"prompt_vs_response"} ELSE {},
                     long /\ ~deferred /\ ~span.similar)

CheckResponseAnomalyAlways == Anomaly(FALSE)

CheckResponseAnomaly == Anomaly(Listed /\ BetterOfLast)
-----------------------------------------------------------------------------
CheckOutputSchemaViolation ==
    LET judged == span.schema # None /\ span.response # None
    IN  Verdict("output_schema_violation", IF judged THEN {"output_schema_violation"} ELSE {},
                judged /\ span.response # "json")

\* Both read the arguments against the schema; jsonschema raises on a schema
\* that is JSON and no schema.
Validated == /\ span.schema \notin {None, "text"} /\ span.args.form \in {"empty", "list", "object"}

CheckRequiredFieldsMissing ==
    IF Validated /\ span.schema = "odd" THEN Raise("required_fields_missing", "given up")
    ELSE Verdict("required_fields_missing", IF Validated THEN {"required_fields_missing"} ELSE {},
                 Validated /\ span.schema \in {"missing", "both"})

CheckTypeCoercionError ==
    Verdict("type_coercion_error", IF Validated THEN {"type_coercion_error"} ELSE {},
            Validated /\ span.schema \in {"mistyped", "both"})

\* _parse_finish_reason asks any JSON value for its choices.
Cut == \/ span.raw_response = "length"
       \/ span.response = "open" \/ span.args.form = "open"

CheckOutputTruncatedOfResponse ==
    IF span.raw_response = "value" THEN Raise("output_truncated", "given up")
    ELSE LET judged == span.response # None
         IN  Verdict("output_truncated", IF judged THEN {"output_truncated"} ELSE {}, judged /\ Cut)

CheckOutputTruncated ==
    IF span.raw_response = "value" THEN Raise("output_truncated", "given up")
    ELSE LET judged == {span.raw_response, span.response, span.args.form} # {None}
         IN  Verdict("output_truncated", IF judged THEN {"output_truncated"} ELSE {}, judged /\ Cut)

\* tiktoken refuses a prompt that spells one of its special tokens, with a
\* ValueError.
CheckContextOverflow ==
    IF span.prompt # None /\ span.tokens = "special" THEN Raise("context_overflow", "retried")
    ELSE Verdict("context_overflow", IF span.prompt # None THEN {"prompt_token_count"} ELSE {},
                 span.prompt # None /\ span.tokens = "over")

\* Of two names or more in the prompt, how many the response has.
CheckMissingDetailsUnlogged ==
    LET judged == span.prompt # None /\ span.response # None /\ span.names # "few"
    IN  Verdict("missing_details", IF judged /\ span.names # "lost" THEN {"missing_details"} ELSE {},
                judged /\ span.names = "lost")

CheckMissingDetails ==
    LET judged == span.prompt # None /\ span.response # None /\ span.names # "few"
    IN  Verdict("missing_details", IF judged THEN {"missing_details"} ELSE {}, judged /\ span.names = "lost")

\* write_scores and write_flags.
Write == /\ outcome = "running" /\ check > Len(Checks)
         /\ outcome' = "done"
         /\ UNCHANGED <<span, check, log, flags>>
-----------------------------------------------------------------------------
ToolCall == \/ CheckToolNotAvailable \/ CheckWrongToolChoice \/ CheckUnnecessaryToolCall
            \/ CheckWrongArgs \/ CheckNoTool \/ CheckParsingError \/ CheckResponseAnomaly

OutputSchema == \/ CheckOutputSchemaViolation \/ CheckRequiredFieldsMissing
                \/ CheckOutputTruncated \/ CheckTypeCoercionError \/ CheckContextOverflow

Next == ToolCall \/ OutputSchema \/ CheckMissingDetails \/ Write

Spec == Init /\ [][Next]_vars
-----------------------------------------------------------------------------
\* A span without prompt, response, raw response and arguments, whose tool, if
\* any, was offered.
Bare == /\ {span.prompt, span.response, span.raw_response, span.args.form} = {None}
        /\ span.tool = None \/ Listed

\* The dashboard calls a span "pending" while it has neither a score nor a
\* flag.  After its analysis only a bare span is (spans.py:539).
PendingOnlyIfBare == outcome = "done" => (log \cup flags = {} <=> Bare)

\* Every flag has the score it rests on beside it, "MUST call log_score BEFORE
\* threshold comparison" (tool_call_analyzer.py:609), but for arguments that
\* are blank.
MetricOf ==
    [tool_not_available |-> "tool_not_in_list", wrong_tool_choice |-> "embedding_score",
     unnecessary_tool_call |-> "social_centroid_score", wrong_tool_args |-> "arg_grounding",
     no_tool |-> "prompt_expects_tool", parsing_error |-> "format_match",
     response_anomaly |-> "prompt_vs_response", output_schema_violation |-> "output_schema_violation",
     required_fields_missing |-> "required_fields_missing", output_truncated |-> "output_truncated",
     type_coercion_error |-> "type_coercion_error", context_overflow |-> "prompt_token_count",
     missing_details |-> "missing_details"]
FlagsAreScored ==
    \A f \in flags : MetricOf[f] \in log \/ (f = "wrong_tool_args" /\ "blank" \in span.args.values)

\* Flags that the checks mean to keep apart: a tool that was not offered is not
\* also the wrong choice (tool_call_analyzer.py:220), an answer or arguments
\* that follow from the wrong tool are no problem of their own (:616, :370), and
\* a span without a call is no_tool's alone (:601).  Three of these pairs do occur
\* together, and then only as follows: wrong_tool_args beside wrong_tool_choice
\* where the description of the wrong tool fits the prompt all the same, since
\* :383 asks for that and not for the better tool; wrong_tool_args beside
\* no_tool where a span has arguments and no tool, since :353 does not ask for
\* the name; and response_anomaly beside wrong_tool_choice where tools of one
\* name are offered.
KeptApart == {{"tool_not_available", "wrong_tool_choice"},
              {"wrong_tool_choice", "response_anomaly"}, {"wrong_tool_choice", "wrong_tool_args"}}
                 \cup {{"no_tool", f} : f \in {"tool_not_available", "wrong_tool_choice",
                                              "unnecessary_tool_call", "wrong_tool_args", "response_anomaly"}}
Namesakes == span.later # span.offered
Tolerated(pair) == \/ pair = {"wrong_tool_choice", "wrong_tool_args"} /\ span.fits
                   \/ pair = {"no_tool", "wrong_tool_args"} /\ span.args.form = "object"
                   \/ pair = {"wrong_tool_choice", "response_anomaly"} /\ Namesakes

OneReportPerSymptom == \A pair \in KeptApart : pair \subseteq flags => Tolerated(pair)

\* An answer unlike its prompt that response_anomaly leaves to wrong_tool_choice
\* is reported there, unless the prompt names the tool, no tool is coherent, or
\* tools of one name are offered (tool_call_analyzer.py:616, :233, :261, :620).
DeferredAnomalyIsReported ==
    outcome = "done" /\ "prompt_vs_response" \in log /\ span.prompt = "long" /\ ~span.similar =>
        \/ flags \cap {"response_anomaly", "wrong_tool_choice"} # {}
        \/ Listed /\ (span.contained \/ Best < Coherence \/ Namesakes)
=============================================================================
