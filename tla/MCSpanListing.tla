--------------------------- MODULE MCSpanListing ---------------------------
(***************************************************************************)
(* Four spans in pages of two rows: two of them begin together, across the *)
(* border of the first page, one of these stored late; when the clock      *)
(* moves the oldest drops out of the window, and the youngest, which       *)
(* begins ahead of the clock, comes into it.                               *)
(***************************************************************************)
EXTENDS SpanListing

MCSpans  == {"s1", "s2", "s3", "s4"}
MCBegin  == [s \in MCSpans |-> CASE s = "s1" -> 1 [] s \in {"s2", "s3"} -> 2 [] s = "s4" -> 4]
MCAgent  == [s \in MCSpans |-> IF s = "s2" THEN "b" ELSE "a"]
MCLate == {"s3"}
MCFlaggable == {"s1", "s4"}
MCDefault == [flag |-> FALSE, agent |-> AnyAgent, range |-> 2]
MCFilters == {MCDefault, [MCDefault EXCEPT !.flag = TRUE, !.agent = "a"]}
=============================================================================
