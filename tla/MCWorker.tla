------------------------------ MODULE MCWorker ------------------------------
(* Instance of Worker for TLC: s3 is another tenant's span than s1 and s2. *)
EXTENDS Worker, TLC

CONSTANTS s1, s2, s3, acme, globex

TwoTenants == [s \in Spans |-> IF s = s3 THEN globex ELSE acme]

\* Each tenant's agent has trace ids of its own.
TwoTraces == [s \in Spans |-> IF s = s3 THEN "t2" ELSE "t1"]

\* Spans sent without a trace id: ingest stores "" for all of them.
NoTraceIds == [s \in Spans |-> ""]
=============================================================================
