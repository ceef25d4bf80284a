------------------------------ MODULE RowSink ------------------------------
(***************************************************************************)
(* What the Analyser's SpanBatcher promises the ingestion handler, with    *)
(* its queue, its timers and its threads taken away.  A row is handed over *)
(* once; some time later it is settled, in a group with others, and a      *)
(* settled row either has exactly one copy in ClickHouse or is gone for    *)
(* good.  Nothing brings a row back and nothing stores it twice.           *)
(***************************************************************************)
EXTENDS Naturals

CONSTANT Rows

VARIABLES
    received,   \* rows handed to the sink so far
    held,       \* rows the sink still answers for
    copies      \* copies of each row in the ClickHouse table

sinkVars == <<received, held, copies>>

Init ==
    /\ received = {}
    /\ held = {}
    /\ copies = [r \in Rows |-> 0]

\* SpanBatcher.add: the handler hands over a row the sink never saw.
Accept(r) ==
    /\ r \notin received
    /\ received' = received \union {r}
    /\ held' = held \union {r}
    /\ UNCHANGED copies

\* A group of held rows is settled: those in kept reach the table, the
\* others are gone (failed insert, discarded buffer, crash).
Settle(group, kept) ==
    /\ group \subseteq held
    /\ kept \subseteq group
    /\ held' = held \ group
    /\ copies' = [r \in Rows |-> IF r \in kept THEN 1 ELSE copies[r]]
    /\ UNCHANGED received

Next ==
    \/ \E r \in Rows : Accept(r)
    \/ \E group \in SUBSET held : \E kept \in SUBSET group : Settle(group, kept)

Spec == Init /\ [][Next]_sinkVars
=============================================================================
