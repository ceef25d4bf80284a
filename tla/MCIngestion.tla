---------------------------- MODULE MCIngestion ----------------------------
(* Instance of Ingestion for TLC: spans differ only in their id. *)
EXTENDS Ingestion, TLC

SpanSymmetry == Permutations(Rows)
=============================================================================
