---------------------------- MODULE MCSpanViews ----------------------------
(***************************************************************************)
(* Three traces: the second has a span that is stored late and begins      *)
(* first of all, the third begins when the first does.                     *)
(***************************************************************************)
EXTENDS SpanViews

MCSpans   == {"s1", "s2", "s3", "s4"}
MCTraceOf == [s \in MCSpans |-> CASE s = "s1" -> "t1" [] s = "s4" -> "t3" [] OTHER -> "t2"]
MCBegin   == [s \in MCSpans |-> CASE s \in {"s1", "s4"} -> 2 [] s = "s2" -> 3 [] s = "s3" -> 1]
MCLate    == {"s2", "s3", "s4"}
MCAnalysed == {"s2"}
=============================================================================
