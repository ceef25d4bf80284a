---------------------------- MODULE MCSpanChecks ----------------------------
(***************************************************************************)
(* Spans that vary one group of fields at a time: which fields are there,  *)
(* how the tools compare, what the payloads hold, what the prompt says,    *)
(* which tools share a name or are no objects.                             *)
(***************************************************************************)
EXTENDS SpanChecks

Args(form) == [form |-> form, values |-> {}]
Object(V) == [form |-> "object", values |-> V]
Tools(n, m) == "called" :> n @@ "other" :> m

Plain == [tool |-> "called", offered |-> Tools(2, 0), later |-> Tools(2, 0), odd_tool |-> None, contained |-> FALSE, fits |-> TRUE,
          prompt |-> "long", small_talk |-> "no", expects_tool |-> FALSE,
          tokens |-> "under", names |-> "few",
          response |-> "json", similar |-> TRUE,
          raw_response |-> "plain", model |-> "gpt-4o", detected |-> TRUE, argument_field |-> "string",
          args |-> Object({"quoted"}), schema |-> "met"]

Absent == {[Plain EXCEPT !.tool = t, !.prompt = p, !.response = r, !.raw_response = raw, !.args = a, !.schema = s] :
               t \in {None, "called", "unlisted"}, p \in {None, "short", "long"}, r \in {None, "json"},
               raw \in {None, "plain"}, a \in {Args(None), Object({"quoted"})}, s \in {None, "met"}}

Compared == {[Plain EXCEPT !.tool = t, !.offered = Tools(n, m), !.later = Tools(n, m), !.contained = c,
                           !.fits = f, !.prompt = p, !.small_talk = k, !.similar = l, !.args = Object({a}), !.expects_tool = e] :
                 t \in {None, "called", "unlisted"}, n \in 0 .. 3, m \in 0 .. 3, c \in BOOLEAN, f \in BOOLEAN,
                 p \in {"short", "long"}, k \in {"no", "far", "near"}, l \in BOOLEAN,
                 a \in {"blank", "literal", "far"}, e \in {TRUE}}

Payloads == {[Plain EXCEPT !.response = r, !.raw_response = raw, !.model = m, !.detected = d,
                           !.argument_field = f, !.args = a, !.schema = s] :
                 r \in {"json", "open", "text"}, raw \in {"text", "value", "plain", "length"},
                 m \in {"unknown", "gpt-4o", "claude-3-opus", "hermes-3", "deepseek-v3"}, d \in BOOLEAN,
                 f \in {"string", "object"}, a \in {Args(x) : x \in {"empty", "text", "open", "list"}} \cup {Object({"near"})},
                 s \in {"text", "odd", "met", "missing", "both"}}

Prompts == {[Plain EXCEPT !.tool = t, !.prompt = p, !.tokens = k, !.names = n, !.expects_tool = e, !.response = r] :
                t \in {None, "called"}, p \in {"short", "long"}, k \in {"under", "over", "special"},
                n \in {"few", "kept", "lost"}, e \in BOOLEAN, r \in {None, "text"}}

Odd == {[Plain EXCEPT !.tool = t, !.odd_tool = o, !.contained = c, !.prompt = p] :
            t \in {None, "called", "unlisted"}, o \in {"first", "last"}, c \in BOOLEAN,
            p \in {None, "short", "long"}}

Twice == {[Plain EXCEPT !.offered = Tools(n, m), !.later = Tools(i, j), !.similar = l] :
             n \in 0 .. 3, m \in 0 .. 3, i \in 0 .. 3, j \in 0 .. 3, l \in BOOLEAN}
Namesake == {s \in Twice : \A t \in DOMAIN s.offered : s.later[t] <= s.offered[t]}

MCSpanSet == Absent \cup Compared \cup Payloads \cup Prompts \cup Odd \cup Namesake
=============================================================================
