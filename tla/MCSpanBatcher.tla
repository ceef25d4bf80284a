--------------------------- MODULE MCSpanBatcher ---------------------------
(* Instance of SpanBatcher for TLC: the rows are interchangeable. *)
EXTENDS SpanBatcher, TLC

RowSymmetry == Permutations(Rows)
=============================================================================
