----------------------------- MODULE Ingestion -----------------------------
(***************************************************************************)
(* POST /v1/spans of the Analyser (analyser/ingest.py): the four stores a  *)
(* span goes through, in the order the handler locks.  Handlers of several *)
(* spans interleave at every await; all of them share one SpanBatcher, one *)
(* Redis list and one S3 bucket.  The batcher is the SpanBatcher module;   *)
(* its rows stand for the spans.                                           *)
(*                                                                         *)
(* analysis_queue is written oldest first: LPUSH adds at the right end of  *)
(* the sequence and the worker's BRPOP takes from the left end.            *)
(***************************************************************************)
EXTENDS SpanBatcher

CONSTANT PAYLOADS    \* payload objects per span (four in s3.py)

ASSUME PayloadAssumption == PAYLOADS \in Nat \ {0}

VARIABLES
    request,         \* how far each span's handler is
    objects,         \* payload objects each span has in S3
    analysis_queue   \* the Redis list

handlerVars == <<request, objects, analysis_queue>>
serverVars == <<handlerVars, vars>>

InFlight == {"s3", "add", "lpush"}
Stages == {"new", "ok", "500", "cut off"} \union InFlight

ServerTypeOK ==
    /\ request \in [Rows -> Stages]
    /\ objects \in [Rows -> 0 .. PAYLOADS]
    /\ analysis_queue \in Seq(Rows)
    /\ TypeOK

ServerInit ==
    /\ request = [s \in Rows |-> "new"]
    /\ objects = [s \in Rows |-> 0]
    /\ analysis_queue = <<>>
    /\ Init

Moves(s, from, to) == request[s] = from /\ request' = [request EXCEPT ![s] = to]

-----------------------------------------------------------------------------
(* One request, await by await *)

\* A validated request with a good API key reaches the handler.
Post(s) ==
    /\ proc = "up"
    /\ Moves(s, "new", "s3")
    /\ UNCHANGED <<objects, analysis_queue, vars>>

\* put_object of the next payload; the last one lets the handler go on.
PutObject(s) ==
    /\ Moves(s, "s3", IF objects[s] + 1 = PAYLOADS THEN "add" ELSE "s3")
    /\ objects' = [objects EXCEPT ![s] = @ + 1]
    /\ UNCHANGED <<analysis_queue, vars>>

\* Mutant: a failed upload is logged and the handler goes on.
PutObjectIgnored(s) ==
    /\ Moves(s, "s3", "add")
    /\ UNCHANGED <<objects, analysis_queue, vars>>

\* put_object raises, with or without the object being stored: 500.  Payloads
\* uploaded before stay where they are.
PutObjectFails(s) ==
    /\ Moves(s, "s3", "500")
    /\ objects' \in {objects, [objects EXCEPT ![s] = @ + 1]}
    /\ UNCHANGED <<analysis_queue, vars>>

AddRow(s) ==
    /\ Moves(s, "add", "lpush")
    /\ Add(s)
    /\ UNCHANGED <<objects, analysis_queue>>

\* Mutant: the push is repeated when its reply is lost.
EnqueueTwice(s) ==
    /\ Moves(s, "lpush", "ok")
    /\ analysis_queue' \in {Append(analysis_queue, s), analysis_queue \o <<s, s>>}
    /\ UNCHANGED <<objects, vars>>

\* LPUSH succeeds and the request is accepted.
Enqueue(s) ==
    /\ Moves(s, "lpush", "ok")
    /\ analysis_queue' = Append(analysis_queue, s)
    /\ UNCHANGED <<objects, vars>>

\* Mutant: an enqueue failure is swallowed.
EnqueueFailsQuietly(s) ==
    /\ Moves(s, "lpush", "ok")
    /\ UNCHANGED <<objects, analysis_queue, vars>>

\* LPUSH raises, with or without the id being pushed: 500.  The row stays in
\* the batcher.
EnqueueFails(s) ==
    /\ Moves(s, "lpush", "500")
    /\ analysis_queue' \in {analysis_queue, Append(analysis_queue, s)}
    /\ UNCHANGED <<objects, vars>>

Handle(s) ==
    \/ Post(s)
    \/ PutObject(s)
    \/ PutObjectFails(s)
    \/ AddRow(s)
    \/ Enqueue(s)
    \/ EnqueueFails(s)

-----------------------------------------------------------------------------
(* The process around the handlers *)

ServerStart == Start /\ UNCHANGED handlerVars

\* The server drains its open requests before it runs lifespan shutdown.
ServerStop ==
    /\ \A s \in Rows : request[s] \notin InFlight
    /\ Stop
    /\ UNCHANGED handlerVars

\* Open requests die with the process; what they wrote outside it stays.
ServerCrash ==
    /\ Crash
    /\ request' = [s \in Rows |-> IF request[s] \in InFlight THEN "cut off" ELSE request[s]]
    /\ UNCHANGED <<objects, analysis_queue>>

Background == (FlushLoop \/ Shutdown) /\ UNCHANGED handlerVars

ServerNext ==
    \/ \E s \in Rows : Handle(s)
    \/ ServerStart
    \/ ServerStop
    \/ ServerCrash
    \/ Background

ServerSpec == ServerInit /\ [][ServerNext]_serverVars

-----------------------------------------------------------------------------
(* Properties *)

Stored == {s \in Rows : spans[s] > 0}

\* "ClickHouse never has a row without its S3 payloads" (ingest.py:21): a span
\* the batcher holds or the table has was uploaded completely first, whatever
\* uploads failed and whenever the process died.
PayloadsBeforeRow == \A s \in Held \union Stored : objects[s] = PAYLOADS

\* The worker is never told of a span the batcher has not been given: an id is
\* in Redis only after its row was added, and only once.
QueuedOnceAfterAdd ==
    /\ ToSet(analysis_queue) \subseteq received
    /\ Cardinality(ToSet(analysis_queue)) = Len(analysis_queue)

\* What the SDK's caller may conclude from the answer.  Accepted: the id is in
\* Redis.  500 before all payloads were uploaded: no store downstream of S3
\* has heard of the span.
AnswerMatchesStores ==
    \A s \in Rows :
        /\ request[s] = "ok" => s \in ToSet(analysis_queue)
        /\ request[s] = "500" /\ objects[s] < PAYLOADS =>
              s \notin received \union ToSet(analysis_queue)

=============================================================================
