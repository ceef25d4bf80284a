----------------------------- MODULE SpanViews -----------------------------
(***************************************************************************)
(* What the dashboard is told of spans while the worker analyses them.     *)
(* The Presenter merges ClickHouse rows with the flags and scores in       *)
(* PostgreSQL (presenter/routers/spans.py and traces.py), one query after  *)
(* the other and in no common snapshot; the worker commits the scores of a *)
(* span, then its flags, then those of its trace.                          *)
(*                                                                         *)
(* Readers: the panel of one span (SpanDetailPanel.tsx), the page of one   *)
(* trace, the span list, and a client that pages through the list of       *)
(* traces.  The batcher is Store, the worker Fetch, WriteScores,           *)
(* WriteFlags and FlagTrace; Worker.tla has them in detail.                *)
(***************************************************************************)
EXTENDS Integers, FiniteSetsExt, SequencesExt

CONSTANTS Spans, TraceOf,   \* the spans of the tenant and the trace of each
          Begin,            \* time_begin of each
          Late, Analysed,   \* bound: the spans stored, and the spans analysed,
                            \* while somebody reads
          Limit,            \* traces of a page
          MaxRequests       \* bound: requests of the panel

ASSUME BeginAssumption == Begin \in [Spans -> Nat] /\ IsFiniteSet(Spans)
ASSUME LimitAssumption == Limit \in Nat \ {0}

None == "none"
Traces == {TraceOf[s] : s \in Spans}
SpansOf(t) == {s \in Spans : TraceOf[s] = t}

VARIABLES rows,        \* ClickHouse: the spans stored
          scores,      \* PostgreSQL: the spans with a score
          flags,       \* PostgreSQL: the spans with a flag of their own
          traceFlags,  \* PostgreSQL: the traces with a flag that has no span_id
          worker,      \* the span the worker has fetched and what it did last
          handled,     \* spans the worker is done with
          requests,    \* what the readers have sent, in the order of sending
          panel,       \* SpanDetailPanel
          walk         \* the client that pages through GET /traces
stores  == <<rows, scores, flags, traceFlags>>
vars == <<stores, worker, handled, requests, panel, walk>>

Idle == [span |-> None, step |-> "idle"]

\* history: by is the request shown, newest the newest one answered
ClosedPanel == [selected |-> None, shown |-> None, loading |-> FALSE, by |-> 0, newest |-> 0]
Resting == [offset |-> 0, seen |-> {}, there |-> {}, moved |-> FALSE, state |-> "resting"]

Init == /\ rows = Spans \ Late
        /\ scores = {} /\ flags = {} /\ traceFlags = {}
        /\ worker = Idle /\ handled = {}
        /\ requests = <<>>
        /\ panel = ClosedPanel
        /\ walk = Resting
-----------------------------------------------------------------------------
\* GROUP BY trace_id: the traces with a row.
Listed == {t \in Traces : SpansOf(t) \cap rows # {}}

\* min(time_begin) of a trace over the rows there are: its place in the list.
StartTime(t) == Min({Begin[s] : s \in rows \cap SpansOf(t)})

\* A late span that begins before its trace did moves the trace down the list.
Moves(s) == TraceOf[s] \in Listed /\ Begin[s] < StartTime(TraceOf[s])

Store(s) == /\ s \notin rows
            /\ rows' = rows \cup {s}
            /\ walk' = IF walk = Resting THEN walk ELSE [walk EXCEPT !.moved = @ \/ Moves(s)]
            /\ UNCHANGED <<scores, flags, traceFlags, worker, handled, requests, panel>>

\* The status the Presenter derives from flags and scores.
StatusOf(s, F, S) == IF s \in F THEN "flagged" ELSE IF s \in S THEN "clean" ELSE "pending"

\* history: what is true of a span while somebody asks for it
Noted(s, F, S) == [i \in DOMAIN requests |->
    IF requests[i].kind # "done" /\ s \in requests[i].asked
    THEN [requests[i] EXCEPT !.was[s] = @ \cup {StatusOf(s, F, S)}] ELSE requests[i]]

\* The worker.  Nothing is analysed before its row is there.  A span may log no
\* score; one with a flag has a score (SpanChecks).
FetchBeforeRow(s) == /\ worker = Idle /\ s \in Analysed \ handled
                     /\ worker' = [span |-> s, step |-> "fetched"]
                     /\ UNCHANGED <<stores, handled, requests, panel, walk>>

Fetch(s) == /\ worker = Idle /\ s \in (Analysed \cap rows) \ handled
            /\ worker' = [span |-> s, step |-> "fetched"]
            /\ UNCHANGED <<stores, handled, requests, panel, walk>>

WriteScoresAndFlags ==
    /\ worker.step = "fetched"
    /\ scores' = scores \cup {worker.span}
    /\ flags' = flags \cup {worker.span}
    /\ worker' = [worker EXCEPT !.step = "scored"]
    /\ requests' = Noted(worker.span, flags', scores')
    /\ UNCHANGED <<rows, traceFlags, handled, panel, walk>>

WriteScores == /\ worker.step = "fetched"
               /\ scores' \in {scores, scores \cup {worker.span}}
               /\ worker' = [worker EXCEPT !.step = "scored"]
               /\ requests' = Noted(worker.span, flags, scores')
               /\ UNCHANGED <<rows, flags, traceFlags, handled, panel, walk>>

WriteFlags == /\ worker.step = "scored"
              /\ flags' \in {flags, flags \cup ({worker.span} \cap scores)}
              /\ handled' = handled \cup {worker.span}
              /\ worker' = Idle
              /\ requests' = Noted(worker.span, flags', scores)
              /\ UNCHANGED <<rows, scores, traceFlags, panel, walk>>

FlagTrace(t) == /\ t \notin traceFlags /\ SpansOf(t) \cap handled # {}
                /\ traceFlags' = traceFlags \cup {t}
                /\ UNCHANGED <<rows, scores, flags, worker, handled, requests, panel, walk>>
-----------------------------------------------------------------------------
\* A request asks for one span, for the spans of one trace, or for all.
Request(kind, S) == [kind |-> kind, asked |-> S, rowsRead |-> FALSE, rows |-> {},
                     step |-> "start", flags |-> {}, traceFlagged |-> FALSE, scores |-> {},
                     was |-> [s \in S |-> {StatusOf(s, flags, scores)}]]
Done == [kind |-> "done"]

Send(kind, S) == Append(requests, Request(kind, S))
\* Bound: readers do not affect each other, so one is followed at a time.
Alone == requests = <<>> /\ walk = Resting
CanSelect == Len(requests) < MaxRequests /\ walk = Resting

Open(i) == i \in DOMAIN requests /\ requests[i].kind # "done"

AskTrace(t) == /\ Alone
               /\ requests' = Send("trace", SpansOf(t))
               /\ UNCHANGED <<stores, worker, handled, panel, walk>>

AskList == /\ Alone
           /\ requests' = Send("list", Spans)
           /\ UNCHANGED <<stores, worker, handled, panel, walk>>

\* Mutant: the effect does not depend on the span.
SelectWithoutEffect(s) ==
    /\ s # panel.selected /\ CanSelect
    /\ panel' = [panel EXCEPT !.selected = s, !.shown = None, !.loading = TRUE]
    /\ requests' = IF panel.selected = None THEN Send("detail", {s}) ELSE requests
    /\ UNCHANGED <<stores, worker, handled, walk>>

\* The effect of SpanDetailPanel: a span is selected, or the one selected is
\* asked for once more, the session token having been renewed; or the panel is
\* closed.
Select(s) == /\ CanSelect
             /\ panel' = [panel EXCEPT !.selected = s, !.shown = None, !.loading = TRUE]
             /\ requests' = Send("detail", {s})
             /\ UNCHANGED <<stores, worker, handled, walk>>

ClosePanel == /\ panel.selected # None
              /\ panel' = [panel EXCEPT !.selected = None, !.shown = None]
              /\ UNCHANGED <<stores, worker, handled, requests, walk>>
-----------------------------------------------------------------------------
\* The queries of a request.  In GET /spans/{span_id} the ClickHouse query
\* runs beside the two of PostgreSQL; in the others it comes first.
ReadRows(i) == /\ Open(i) /\ ~requests[i].rowsRead
               /\ requests' = [requests EXCEPT ![i].rowsRead = TRUE,
                                               ![i].rows = rows \cap requests[i].asked]
               /\ UNCHANGED <<stores, worker, handled, panel, walk>>

\* A list without rows is answered at once.
ReadFlags(i) ==
    LET r == requests[i]
    IN  /\ Open(i) /\ r.step = "start"
        /\ r.kind # "detail" => r.rowsRead
        /\ r.kind = "list" => r.rows # {}
        /\ requests' = [requests EXCEPT
               ![i] = [r EXCEPT !.step = "flags", !.flags = flags \cap r.asked,
                                !.traceFlagged = \E s \in r.asked : TraceOf[s] \in traceFlags]]
        /\ UNCHANGED <<stores, worker, handled, panel, walk>>

\* A trace without rows takes no scores: it is known to exist by its flags, or
\* not at all.
ReadScores(i) ==
    LET r == requests[i]
    IN  /\ Open(i) /\ r.step = "flags"
        /\ r.kind = "trace" => r.rows # {}
        /\ requests' = [requests EXCEPT
               ![i] = [r EXCEPT !.step = "scores", !.scores = scores \cap r.asked]]
        /\ UNCHANGED <<stores, worker, handled, panel, walk>>

Complete(r) == /\ r.kind # "done" /\ r.rowsRead
               /\ \/ r.step = "scores"
                  \/ r.rows = {} /\ <<r.kind, r.step>> \in {<<"list", "start">>, <<"trace", "flags">>}

\* The answers: 404 without a row (of a trace: nor a flag); otherwise, for one
\* span, 504 if its payloads time out, and all the rest with null payloads if
\* S3 fails in any other way.
Answered(r) == \/ r.rows # {}
               \/ r.kind = "trace" /\ (r.flags # {} \/ r.traceFlagged)
SpanlessTrace(r) == r.kind = "trace" /\ Complete(r) /\ r.rows = {} /\ Answered(r)

Answer(i) == /\ i \in DOMAIN requests /\ Complete(requests[i]) /\ requests[i].kind # "detail"
             /\ requests' = [requests EXCEPT ![i] = Done]
             /\ UNCHANGED <<stores, worker, handled, panel, walk>>

\* then and finally of the panel's effect: the answer is shown whatever is
\* selected by now, and ends the skeleton.
Show(i) == LET r == requests[i]
           IN  /\ i \in DOMAIN requests /\ Complete(r) /\ r.kind = "detail" /\ Answered(r)
               /\ panel' = [panel EXCEPT !.shown = CHOOSE s \in r.asked : TRUE, !.loading = FALSE,
                                         !.by = i, !.newest = Max({@, i})]
               /\ requests' = [requests EXCEPT ![i] = Done]
               /\ UNCHANGED <<stores, worker, handled, walk>>

\* catch and finally: 404, 504, or any query that raises.
ShowError(i) == /\ Open(i) /\ requests[i].kind = "detail"
                /\ panel' = [panel EXCEPT !.loading = FALSE, !.newest = Max({@, i})]
                /\ requests' = [requests EXCEPT ![i] = Done]
                /\ UNCHANGED <<stores, worker, handled, walk>>
-----------------------------------------------------------------------------
\* GET /traces: a page of the traces there are, newest start first, in one
\* query; equal starts come in any order.  Then the total, in a second.
TracePagesUnordered(offset) ==
    {SubSeq(q, offset + 1, Min({offset + Limit, Len(q)})) : q \in SetToSeqs(Listed)}

TracePages(offset) ==
    LET orders == {q \in SetToSeqs(Listed) :
                      \A i, j \in DOMAIN q : i < j => StartTime(q[i]) >= StartTime(q[j])}
    IN  {SubSeq(q, offset + 1, Min({offset + Limit, Len(q)})) : q \in orders}

StartWalk == /\ Alone
             /\ walk' = [Resting EXCEPT !.state = "walking", !.there = Listed]
             /\ UNCHANGED <<stores, worker, handled, requests, panel>>

WalkPage == /\ walk.state = "walking"
            /\ \E q \in TracePages(walk.offset) :
                  walk' = [walk EXCEPT !.offset = @ + Limit, !.seen = @ \cup ToSet(q),
                                       !.state = IF q = <<>> THEN "ended" ELSE @]
            /\ UNCHANGED <<stores, worker, handled, requests, panel>>
-----------------------------------------------------------------------------
Worker == WriteScores \/ WriteFlags \/ (\E s \in Spans : Fetch(s)) \/ (\E t \in Traces : FlagTrace(t))

Presenter(i) == ReadRows(i) \/ ReadFlags(i) \/ ReadScores(i) \/ Answer(i) \/ Show(i) \/ ShowError(i)

Readers == \/ AskList \/ ClosePanel \/ StartWalk \/ WalkPage
           \/ \E t \in Traces : AskTrace(t)
           \/ \E s \in Spans : Select(s)

Next == \/ \E s \in Spans : Store(s)
        \/ Worker \/ Readers
        \/ \E i \in 1 .. MaxRequests : Presenter(i)

Spec == Init /\ [][Next]_vars
-----------------------------------------------------------------------------
\* Every status the Presenter gives was true at some moment while the request
\* ran, though its flags and its scores are read at different moments
\* (spans.py:228, spans.py:251; main.py:136).
StatusWasTrue ==
    \A r \in Range(requests) :
        Complete(r) /\ r.kind # "trace" =>
            \A s \in r.rows : StatusOf(s, r.flags, r.scores) \in r.was[s]

\* The answer "no spans yet" is out of date when it is given: a flag exists
\* only for a trace with a stored span (traces.py:280).
SpanlessTraceIsOutdated ==
    \A r \in Range(requests) : SpanlessTrace(r) => rows \cap r.asked # {}

\* A client that pages to the end has seen every trace there was at the start,
\* unless a late span moved a trace down the list meanwhile, or a span of
\* another trace began when the missed one did (traces.py:164).
BeganWith(t) == \E s \in rows : TraceOf[s] # t /\ Begin[s] = StartTime(t)
MissedTraceMeansLateSpan ==
    walk.state = "ended" /\ ~walk.moved =>
        \A t \in walk.there : t \in walk.seen \/ BeganWith(t)

\* With no request on its way the panel shows the span that is selected, unless
\* the request for it failed or was answered before an older one
\* (SpanDetailPanel.tsx:212).
PanelShowsSelection ==
    (\A r \in Range(requests) : r.kind # "detail") /\ panel.selected # None =>
        \/ panel.shown = panel.selected
        \/ panel.by < panel.newest
=============================================================================
