--------------------------- MODULE MCTraceAnalyzer ---------------------------
(* Instance of TraceAnalyzer for TLC: two topics, two agents, four spans. *)
EXTENDS TraceAnalyzer

Prompts == {"deploy", "weather", "verify"}
Outputs == {"deploy", "log"}

\* Named entities of the texts.
MCEntities ==
    [text \in {"deploy", "weather", "verify", "report", "ask", "None"} |->
        CASE text = "report" -> {"db", "node"}
          [] text = "verify" -> {"db"}
          [] OTHER -> {}]

Similarity == [p \in Prompts \X Outputs |-> IF p[1] = p[2] THEN 100 ELSE 20]

\* The cosine of one-hot vectors with their mean, rounded down to hundredths.
MCCosine(prompt, prior) ==
    LET count(p) == Cardinality({k \in DOMAIN prior : prior[k] = p})
        norm == count("deploy") ^ 2 + count("weather") ^ 2 + count("verify") ^ 2
        square == (10000 * count(prompt) ^ 2) \div norm
    IN  CHOOSE c \in 0 .. 100 : c * c <= square /\ square < (c + 1) * (c + 1)

\* An agent that deploys and may hand over to the tester only.
Deploy == [prompt |-> "deploy", response |-> "report", tool_output |-> "deploy",
           tool |-> "deploy", args |-> {"prod"}, agent |-> "ops"]
\* The same call on another topic, after an output it does not take up.
Stray == [prompt |-> "weather", response |-> "report", tool_output |-> "log",
          tool |-> "deploy", args |-> {"prod"}, agent |-> "helper"]
\* The tester verifies one of two entities.
Check == [prompt |-> "verify", response |-> "ask", tool_output |-> "log",
          tool |-> "check", args |-> {}, agent |-> "tester"]
\* A span with a prompt only.
Bare == [prompt |-> "weather", response |-> "None", tool_output |-> "None",
         tool |-> "None", args |-> {}, agent |-> "None"]

MCSpans == {Deploy, Stray, Check, Bare}
MCRoutingGraph == [a \in {"ops"} |-> {"tester"}]

\* The defaults of main.py, in hundredths (the count of a loop apart).
Defaults ==
    [stale_context |-> 8500, context_propagation_failure |-> 50, history_loss |-> 40,
     termination_loop_n |-> 3, conversation_reset |-> 25, incomplete_verification |-> 70]
=============================================================================
