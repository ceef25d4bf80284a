---------------------------- MODULE TraceAnalyzer ----------------------------
(***************************************************************************)
(* The trace checks of the worker (worker/trace_analyzer.py), run on what  *)
(* the trace buffer holds when it is flushed (worker/main.py:141-188).  A  *)
(* span that comes late opens a new buffer entry, so one trace may be      *)
(* analysed in several parts, each as if it were a trace of its own.       *)
(*                                                                         *)
(* A span is a record of what the checks read: three texts, a tool with    *)
(* the tokens of its arguments, an agent; Null where the column is NULL.   *)
(* What the embedder, rapidfuzz and spaCy say about texts is constant.     *)
(* Scores and thresholds are in hundredths.                                *)
(*                                                                         *)
(* A flag records the check, the spans it was drawn from and the names in  *)
(* its detail.                                                             *)
(***************************************************************************)
EXTENDS Naturals, Integers, Sequences, FiniteSets, SequencesExt

CONSTANTS
    Spans,               \* the spans a trace is made of
    Null,
    MaxSpans,            \* bound of the model: longest trace
    VerifyTools,         \* tools with a verification keyword in name or description
    WriteTools,          \* tools with a write or mutate keyword
    VerifyPrompts,       \* prompts with a verification keyword as a word
    Disjunctive,         \* prompts with "or", "either" or "which"
    Questions,           \* responses with a question mark
    Entities,            \* text -> named entities spaCy finds
    Ratio,               \* <<prompt, output>> -> rapidfuzz ratio, 0 to 100
    Hybrid,              \* <<prompt, output>> -> cosine and bag of words
    Cosine(_, _),        \* prompt, prior prompts -> cosine with their centroid
    RoutingGraph,        \* agent -> agents it may hand over to
    Thresholds           \* THRESHOLDS of main.py

ASSUME ThresholdAssumption ==
    /\ Thresholds.termination_loop_n \in Nat \ {0}
    /\ Thresholds.conversation_reset <= Thresholds.history_loss

VARIABLES
    trace,       \* history: the spans of the trace, in order of processing
    buffer,      \* trace_buffer[tid]
    analysed,    \* history: the parts analysed, as sets of positions in trace
    trace_flags  \* flags written, with positions in trace

traceVars == <<trace, buffer, analysed, trace_flags>>

-----------------------------------------------------------------------------
(* The checks; t is the sequence of spans given to analyze() *)

Flag(type, at, names) == [type |-> type, at |-> at, names |-> names]

\* Mutant: ranges over pairs start one too late.
OutputPairsFromSecond(t) ==
    {i \in 3 .. Len(t) : t[i - 1].tool_output # Null /\ t[i].prompt # Null}

\* Neighbours i-1, i of which the output or response and the prompt exist.
OutputPairs(t) == {i \in 2 .. Len(t) : t[i - 1].tool_output # Null /\ t[i].prompt # Null}

\* The score is the ratio divided by 100, the threshold is not.
StaleContext(t) ==
    {Flag("stale_context", {i - 1, i}, <<>>) :
        i \in {j \in OutputPairs(t) :
            Ratio[<<t[j].prompt, t[j - 1].tool_output>>] >= Thresholds.stale_context}}

\* The tokens of name and arguments, in any order; none is there twice.
Normalise(span) == {span.tool} \union span.args

StepRepetition(t) ==
    LET calls == {i \in DOMAIN t : t[i].tool # Null}
        same == {ab \in calls \X calls : ab[1] < ab[2] /\ Normalise(t[ab[1]]) = Normalise(t[ab[2]])}
    IN  {Flag("step_repetition", {ab[1], ab[2]}, <<>>) : ab \in same}

\* The last n spans up to i are calls of one tool, with nothing in between.
InLoop(t, i, n) ==
    /\ i >= n
    /\ t[i].tool # Null
    /\ \A j \in i - n + 1 .. i : t[j].tool = t[i].tool

\* One flag for each tool, when its run first reaches n.
TerminationLoop(t) ==
    LET n == Thresholds.termination_loop_n
        looping == {i \in DOMAIN t : Len(t) >= 2 /\ InLoop(t, i, n)}
    IN  {Flag("termination_loop", i - n + 1 .. i, <<t[i].tool>>) :
            i \in {j \in looping : \A k \in looping : t[k].tool = t[j].tool => k >= j}}

\* The prompt misses what the previous output said.
LowPair(t, i) ==
    /\ i \in OutputPairs(t)
    /\ Hybrid[<<t[i].prompt, t[i - 1].tool_output>>] < Thresholds.context_propagation_failure

\* Mutant: the streak of low pairs starts at 1.
PropagationFromOne(t) ==
    {Flag("context_propagation_failure", (i - 2 .. i) \intersect DOMAIN t, <<>>) :
        i \in {j \in DOMAIN t : LowPair(t, j) /\ (j = 2 \/ LowPair(t, j - 1))}}

\* Two low pairs in a row.
ContextPropagationFailure(t) ==
    {Flag("context_propagation_failure", i - 2 .. i, <<>>) :
        i \in {j \in DOMAIN t : LowPair(t, j) /\ LowPair(t, j - 1)}}

\* The prompts before i that exist.
PriorPrompts(t, i) ==
    LET before == SelectSeq(SubSeq(t, 1, i - 1), LAMBDA span : span.prompt # Null)
    IN  [k \in DOMAIN before |-> before[k].prompt]

\* Spans from `first` on that have a prompt and prompts before them.
Comparable(t, first) == {i \in first .. Len(t) : t[i].prompt # Null /\ PriorPrompts(t, i) # <<>>}

History(t, i) == Cosine(t[i].prompt, PriorPrompts(t, i))

\* range(3, len(spans)): the first three spans are never judged.
HistoryLoss(t) ==
    {Flag("history_loss", 1 .. i, <<>>) :
        i \in {j \in Comparable(t, 4) : History(t, j) < Thresholds.history_loss}}

\* prev_score: the score before i's, 100 when i is the first one compared.
PrevScore(t, i) ==
    LET earlier == {j \in Comparable(t, 5) : j < i}
    IN  IF earlier = {} THEN 100 ELSE History(t, Max(earlier))

\* A score that is low, and 0.15 or more lower than the one before it.
ConversationReset(t) ==
    {Flag("conversation_reset", 1 .. i, <<>>) :
        i \in {j \in Comparable(t, 5) :
            /\ History(t, j) < Thresholds.conversation_reset
            /\ PrevScore(t, j) - History(t, j) >= 15}}

\* A known agent hands over to one its row of the graph does not list.
Violation(src, dst) ==
    /\ Null \notin {src, dst}
    /\ src # dst
    /\ src \in DOMAIN RoutingGraph
    /\ dst \notin RoutingGraph[src]

WrongAgentHandoff(t) ==
    {Flag("wrong_agent_handoff", {i - 1, i}, <<t[i - 1].agent, t[i].agent>>) :
        i \in {j \in 2 .. Len(t) : Violation(t[j - 1].agent, t[j].agent)}}

\* Less than half of two or more entities are passed on.
Withheld(response, prompt) ==
    /\ Cardinality(Entities[response]) >= 2
    /\ 2 * Cardinality(Entities[response] \intersect Entities[prompt])
          < Cardinality(Entities[response])

\* A span that verifies is left to incomplete_verification.
InformationWithholding(t) ==
    {Flag("information_withholding", {i - 1, i}, <<>>) :
        i \in {j \in 2 .. Len(t) :
            /\ t[j - 1].response # Null /\ t[j].prompt # Null
            /\ t[j].tool \notin VerifyTools /\ t[j].prompt \notin VerifyPrompts
            /\ Withheld(t[j - 1].response, t[j].prompt)}}

ClarificationSkipped(t) ==
    {Flag("clarification_skipped", {i}, <<>>) :
        i \in {j \in DOMAIN t :
            /\ t[j].prompt \in Disjunctive
            /\ t[j].response \notin Questions \union {Null}}}

Verifies(t) == {i \in DOMAIN t : t[i].tool \in VerifyTools}
ToolsOf(t) == {t[i].tool : i \in DOMAIN t} \ {Null}

\* A trace that writes, with two tools or more, and never verifies.
NoVerification(t) ==
    /\ Len(t) >= 2
    /\ ToolsOf(t) \intersect WriteTools # {}
    /\ Cardinality(ToolsOf(t)) >= 2
    /\ Verifies(t) = {}

\* The first verifying span's prompt names too few of the entities produced
\* before it.
IncompleteVerification(t) ==
    LET first == Min(Verifies(t))
        produced == UNION {Entities[t[i].response] : i \in 1 .. first - 1}
        covered == Entities[t[first].prompt] \intersect produced
    IN  /\ Verifies(t) # {}
        /\ produced # {}
        /\ 100 * Cardinality(covered) < Thresholds.incomplete_verification * Cardinality(produced)

\* Flags about the trace as a whole.
VerificationFlags(t) ==
    {Flag(type, DOMAIN t, <<>>) : type \in
        IF NoVerification(t) THEN {"no_verification"}
        ELSE IF IncompleteVerification(t) THEN {"incomplete_verification"} ELSE {}}

Analyze(t) ==
    UNION {StaleContext(t), StepRepetition(t), TerminationLoop(t), ContextPropagationFailure(t),
           HistoryLoss(t), WrongAgentHandoff(t), InformationWithholding(t), ConversationReset(t),
           ClarificationSkipped(t), VerificationFlags(t)}

-----------------------------------------------------------------------------
(* The buffer of one trace *)

TraceInit ==
    /\ trace = <<>>
    /\ buffer = <<>>
    /\ analysed = {}
    /\ trace_flags = {}

\* A span of the trace has been processed.
Process(span) ==
    /\ Len(trace) < MaxSpans
    /\ trace' = Append(trace, span)
    /\ buffer' = Append(buffer, span)
    /\ UNCHANGED <<analysed, trace_flags>>

\* What the buffer holds is the end of the trace.
Offset == Len(trace) - Len(buffer)
InTrace(f) == [f EXCEPT !.at = {i + Offset : i \in f.at}]

\* The trace was quiet for long enough: analyze what is there and forget it.
Flush ==
    /\ buffer # <<>>
    /\ trace_flags' = trace_flags \union {InTrace(f) : f \in Analyze(buffer)}
    /\ analysed' = analysed \union {{i + Offset : i \in DOMAIN buffer}}
    /\ buffer' = <<>>
    /\ UNCHANGED trace

\* A check or a writer raises, the writer with or without its commit; the
\* part is forgotten all the same.
FlushFails ==
    /\ buffer # <<>>
    /\ trace_flags' \in {trace_flags, trace_flags \union {InTrace(f) : f \in Analyze(buffer)}}
    /\ buffer' = <<>>
    /\ UNCHANGED <<trace, analysed>>

TraceNext == (\E span \in Spans : Process(span)) \/ Flush \/ FlushFails

TraceSpec == TraceInit /\ [][TraceNext]_traceVars

-----------------------------------------------------------------------------
(* Properties *)

\* Checks whose evidence is a few spans, not the trace up to a point.
Local == {"stale_context", "step_repetition", "termination_loop", "context_propagation_failure",
          "wrong_agent_handoff", "information_withholding", "clarification_skipped"}

\* A loop is reported once for a tool, wherever it is seen first.
SameFinding(f, g) ==
    /\ f.type = g.type
    /\ IF f.type = "termination_loop" THEN f.names = g.names ELSE f = g

LocalFlags == {f \in Analyze(trace) : f.type \in Local}

\* However a trace falls into parts, the local checks never report of a part
\* what they would not report of the whole trace.
PartsReportNothingNew ==
    \A f \in trace_flags : f.type \in Local => \E g \in LocalFlags : SameFinding(f, g)

\* A part of one span is not searched for loops, even if one call counts as one.
LoneCall(part, g) == g.type = "termination_loop" /\ Cardinality(part) = 1

\* And they miss only what spans two parts or lies in one whose flush failed.
OnlyBordersHideFindings ==
    \A part \in analysed, g \in LocalFlags :
        g.at \subseteq part /\ ~LoneCall(part, g) => \E f \in trace_flags : SameFinding(f, g)

=============================================================================
