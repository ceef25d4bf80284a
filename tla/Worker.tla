------------------------------- MODULE Worker -------------------------------
(***************************************************************************)
(* The analysis worker (worker/main.py with base.py, flag_writer.py and    *)
(* score_writer.py): one thread that pops span ids from Redis, fetches the *)
(* span, runs the span analyzers in a fixed order, writes scores and flags *)
(* in two transactions, and keeps a buffer of spans per trace that goes to *)
(* the TraceAnalyzer when the trace has been quiet for long enough.        *)
(*                                                                         *)
(* What an analyzer computes is left open: it may log a score and return a *)
(* flag or not, and it may raise at any point, before or after it logged a *)
(* score (embedder calls, JSON, NLP).  An exception is a ValueError, which *)
(* the loop takes for "not in ClickHouse yet" and retries, or another one, *)
(* which ends the work on the span.  A score is represented by the span    *)
(* whose texts it was computed from; a trace-level score by the first span *)
(* of the trace.                                                           *)
(***************************************************************************)
EXTENDS Naturals, Sequences, FiniteSets, SequencesExt, Functions

CONSTANTS
    Spans,
    TenantOf,        \* the tenant each span belongs to
    TraceOf,         \* the trace_id of each span's row ("" when the SDK sent none)
    ANALYZERS,       \* number of span analyzers
    ATTEMPTS,        \* tries per span (range(3))
    BACKOFF,         \* ticks slept after a failed try, per unit of (attempt + 1)
    TRACE_TIMEOUT,   \* WORKER_TRACE_FLUSH_TIMEOUT_S, in ticks
    MaxFailures,     \* bound of the model: exceptions raised
    MaxStarts        \* bound of the model: how often the worker is started

Tenants == Range(TenantOf)
Traces == Range(TraceOf)

ASSUME WorkerAssumption ==
    /\ TenantOf \in [Spans -> Tenants]
    /\ TraceOf \in [Spans -> Traces]
    /\ ANALYZERS \in Nat \ {0}
    /\ ATTEMPTS \in Nat \ {0}
    /\ BACKOFF \in Nat \ {0}
    /\ TRACE_TIMEOUT \in Nat \ {0}
    /\ MaxFailures \in Nat
    /\ MaxStarts \in Nat

VARIABLES
    analysis_queue,   \* Redis: oldest id first
    inClickHouse,     \* spans a query of the table returns
    pc,               \* where the worker's thread is
    running,          \* the module-level flag SIGTERM clears
    work,             \* local variables of the try on the current span
    sleepLeft,        \* ticks left of time.sleep
    pending,          \* _scores of each analyzer; the last one is the TraceAnalyzer
    trace_buffer,     \* trace_id -> spans, in order of processing
    trace_last_seen,  \* trace_id -> ticks since its last span, at most TRACE_TIMEOUT
    flushing,         \* local variables of _flush_stale_traces
    span_scores,      \* rows of the table, as [span, tenant, source]
    flagWrites,       \* how often a flag transaction of the span was committed
    traceRows,        \* flag rows of traces, as [tenant, trace, spans]
    enqueued,         \* history: ids ever pushed
    analysed,         \* history: how often the span went to the TraceAnalyzer
    raised,           \* history: sources of scores left behind by an exception
    failures,         \* exceptions so far
    starts            \* starts so far

storeVars == <<analysis_queue, inClickHouse, enqueued>>
lifeVars == <<running, starts>>
bufferVars == <<trace_buffer, trace_last_seen>>
traceVars == <<bufferVars, flushing, traceRows, analysed>>
spanVars == <<work, sleepLeft, flagWrites>>
scoreVars == <<pending, span_scores>>
errorVars == <<raised, failures>>
vars == <<storeVars, pc, lifeVars, traceVars, spanVars, scoreVars, errorVars>>

NoSpan == "no span"
TraceA == ANALYZERS + 1          \* index of the TraceAnalyzer in pending
Nobody == [span |-> NoSpan, attempt |-> 0, next |-> 1, scores |-> {},
           flagged |-> FALSE]
Nothing == [ready |-> {}, tid |-> NoSpan, scores |-> {}, flagged |-> FALSE]
EmptyDict == [t \in {} |-> <<>>]

Busy == {"fetch", "analyze", "scores", "flags", "buffer", "sleep"}
Flushing == {"stale", "trace scores", "trace flags"}

ScoreRow == [span : Spans \union {NoSpan}, tenant : Tenants, source : Spans]
TraceRow == [tenant : Tenants, trace : Traces, spans : Seq(Spans)]

TypeOK ==
    /\ analysis_queue \in Seq(Spans)
    /\ inClickHouse \in SUBSET Spans
    /\ enqueued \in SUBSET Spans
    /\ pc \in Busy \union Flushing \union {"off", "top", "brpop"}
    /\ running \in BOOLEAN
    /\ starts \in 0 .. MaxStarts
    /\ work \in [span : Spans \union {NoSpan}, attempt : 0 .. ATTEMPTS - 1,
                 next : 1 .. TraceA, scores : SUBSET Spans, flagged : BOOLEAN]
    /\ sleepLeft \in Nat
    /\ flagWrites \in [Spans -> Nat]
    /\ pending \in [1 .. TraceA -> SUBSET Spans]
    /\ span_scores \in SUBSET ScoreRow
    /\ DOMAIN trace_buffer \subseteq Traces
    /\ trace_buffer \in [DOMAIN trace_buffer -> Seq(Spans)]
    /\ trace_last_seen \in [DOMAIN trace_last_seen -> 0 .. TRACE_TIMEOUT]
    /\ flushing \in [ready : SUBSET Traces, tid : Traces \union {NoSpan},
                     scores : SUBSET Spans, flagged : BOOLEAN]
    /\ traceRows \in SUBSET TraceRow
    /\ analysed \in [Spans -> Nat]
    /\ raised \in SUBSET Spans
    /\ failures \in 0 .. MaxFailures

Init ==
    /\ analysis_queue = <<>>
    /\ inClickHouse = {}
    /\ enqueued = {}
    /\ pc = "off"
    /\ running = FALSE
    /\ starts = 0
    /\ work = Nobody
    /\ sleepLeft = 0
    /\ flagWrites = [s \in Spans |-> 0]
    /\ pending = [a \in 1 .. TraceA |-> {}]
    /\ span_scores = {}
    /\ trace_buffer = EmptyDict
    /\ trace_last_seen = EmptyDict
    /\ flushing = Nothing
    /\ traceRows = {}
    /\ analysed = [s \in Spans |-> 0]
    /\ raised = {}
    /\ failures = 0

-----------------------------------------------------------------------------
(* Around the worker: the Analyser, time, the operator *)

\* The Analyser pushes the id of a span.  Whether and when its row becomes
\* visible in ClickHouse is the batcher's business (Store), not Redis's.
Enqueue(s) ==
    /\ s \notin enqueued
    /\ analysis_queue' = Append(analysis_queue, s)
    /\ enqueued' = enqueued \union {s}
    /\ UNCHANGED <<inClickHouse, pc, lifeVars, traceVars, spanVars, scoreVars, errorVars>>

Store(s) ==
    /\ s \notin inClickHouse
    /\ inClickHouse' = inClickHouse \union {s}
    /\ UNCHANGED <<analysis_queue, enqueued, pc, lifeVars, traceVars, spanVars, scoreVars, errorVars>>

\* The monotonic clock moves on, whatever the thread is doing.
Tick ==
    /\ pc # "off"
    /\ sleepLeft' = IF sleepLeft > 0 THEN sleepLeft - 1 ELSE 0
    /\ trace_last_seen' = [t \in DOMAIN trace_last_seen |->
           IF trace_last_seen[t] < TRACE_TIMEOUT THEN trace_last_seen[t] + 1 ELSE TRACE_TIMEOUT]
    /\ UNCHANGED <<storeVars, pc, lifeVars, trace_buffer, flushing, traceRows, analysed,
                   work, flagWrites, scoreVars, errorVars>>

\* main(): new analyzers, empty dictionaries.
Start ==
    /\ pc = "off"
    /\ starts < MaxStarts
    /\ pc' = "top"
    /\ running' = TRUE
    /\ starts' = starts + 1
    /\ UNCHANGED <<storeVars, traceVars, spanVars, scoreVars, errorVars>>

\* _handle_signal: the flag is read at the top of the loop only.
Signal ==
    /\ pc # "off"
    /\ running
    /\ running' = FALSE
    /\ UNCHANGED <<storeVars, pc, starts, traceVars, spanVars, scoreVars, errorVars>>

\* What is gone with the process: the popped span, the analyzers with their
\* scores, and the traces still in the buffer.
ProcessEnds ==
    /\ pc' = "off"
    /\ running' = FALSE
    /\ work' = Nobody
    /\ sleepLeft' = 0
    /\ pending' = [a \in 1 .. TraceA |-> {}]
    /\ trace_buffer' = EmptyDict
    /\ trace_last_seen' = EmptyDict
    /\ flushing' = Nothing
    /\ UNCHANGED <<storeVars, starts, flagWrites, span_scores, traceRows, analysed, errorVars>>

\* SIGKILL, or an exception outside the try blocks (Redis unreachable).
Crash == pc # "off" /\ ProcessEnds

-----------------------------------------------------------------------------
(* The BRPOP loop *)

LoopExit == pc = "top" /\ ~running /\ ProcessEnds

LoopTop ==
    /\ pc = "top"
    /\ running
    /\ pc' = "brpop"
    /\ UNCHANGED <<storeVars, lifeVars, traceVars, spanVars, scoreVars, errorVars>>

\* BRPOP delivers the oldest id; from here on only this process knows it.
Pop ==
    /\ pc = "brpop"
    /\ analysis_queue # <<>>
    /\ work' = [Nobody EXCEPT !.span = Head(analysis_queue)]
    /\ analysis_queue' = Tail(analysis_queue)
    /\ pc' = "fetch"
    /\ UNCHANGED <<inClickHouse, enqueued, lifeVars, traceVars, sleepLeft, flagWrites, scoreVars, errorVars>>

\* Entry of _flush_stale_traces: the list of quiet traces is made once.
EnterFlush(lastSeen) ==
    /\ pc' = "stale"
    /\ flushing' = [Nothing EXCEPT !.ready = {t \in DOMAIN lastSeen : lastSeen[t] >= TRACE_TIMEOUT}]

\* Mutant: an idle worker does not look for stale traces.
IdleOnly ==
    /\ pc = "brpop"
    /\ analysis_queue = <<>>
    /\ pc' = "top"
    /\ UNCHANGED <<storeVars, lifeVars, traceVars, spanVars, scoreVars, errorVars>>

\* BRPOP timed out on an empty list.
Idle ==
    /\ pc = "brpop"
    /\ analysis_queue = <<>>
    /\ EnterFlush(trace_last_seen)
    /\ UNCHANGED <<storeVars, lifeVars, bufferVars, traceRows, analysed, spanVars, scoreVars, errorVars>>

-----------------------------------------------------------------------------
(* One try on a span: process_span and the handlers around it *)

\* "except ValueError": sleep before the next try, or give the span up.
RetryOrGiveUp ==
    IF work.attempt + 1 < ATTEMPTS
    THEN pc' = "sleep" /\ sleepLeft' = (work.attempt + 1) * BACKOFF
    ELSE pc' = "top" /\ UNCHANGED sleepLeft

\* "except Exception": give the span up.
GiveUp == pc' = "top" /\ UNCHANGED sleepLeft

\* Mutant: the attempt is not counted.
WakeUncounted ==
    /\ pc = "sleep"
    /\ sleepLeft = 0
    /\ work' = [Nobody EXCEPT !.span = work.span, !.attempt = work.attempt]
    /\ pc' = "fetch"
    /\ UNCHANGED <<storeVars, lifeVars, traceVars, sleepLeft, flagWrites, scoreVars, errorVars>>

\* time.sleep is over and the next attempt starts from nothing.
Wake ==
    /\ pc = "sleep"
    /\ sleepLeft = 0
    /\ work' = [Nobody EXCEPT !.span = work.span, !.attempt = work.attempt + 1]
    /\ pc' = "fetch"
    /\ UNCHANGED <<storeVars, lifeVars, traceVars, sleepLeft, flagWrites, scoreVars, errorVars>>

Fetch ==
    /\ pc = "fetch"
    /\ work.span \in inClickHouse
    /\ pc' = "analyze"
    /\ UNCHANGED <<storeVars, lifeVars, traceVars, work, sleepLeft, flagWrites, scoreVars, errorVars>>

FetchMisses ==
    /\ pc = "fetch"
    /\ work.span \notin inClickHouse
    /\ RetryOrGiveUp
    /\ UNCHANGED <<storeVars, lifeVars, traceVars, work, flagWrites, scoreVars, errorVars>>

Fail == failures < MaxFailures /\ failures' = failures + 1

\* ClickHouse or S3 cannot be reached, or a payload is not JSON (a ValueError).
FetchRaises ==
    /\ pc = "fetch"
    /\ Fail
    /\ GiveUp \/ (work.span \in inClickHouse /\ RetryOrGiveUp)
    /\ UNCHANGED <<storeVars, lifeVars, traceVars, work, flagWrites, scoreVars, raised>>

\* Mutant: flush_scores returns the scores and forgets to clear them.
AnalyzeKeepsScores ==
    /\ pc = "analyze"
    /\ \E logged \in SUBSET {work.span}, flagged \in BOOLEAN :
          /\ pending' = [pending EXCEPT ![work.next] = @ \union logged]
          /\ work' = [work EXCEPT !.next = @ + 1,
                                  !.scores = @ \union pending[work.next] \union logged,
                                  !.flagged = @ \/ flagged]
    /\ pc' = IF work.next = ANALYZERS THEN "scores" ELSE "analyze"
    /\ UNCHANGED <<storeVars, lifeVars, traceVars, sleepLeft, flagWrites, span_scores, errorVars>>

\* The next analyzer returns; flush_scores hands over everything in _scores.
Analyze ==
    /\ pc = "analyze"
    /\ \E logged \in SUBSET {work.span}, flagged \in BOOLEAN :
          work' = [work EXCEPT !.next = @ + 1,
                               !.scores = @ \union pending[work.next] \union logged,
                               !.flagged = @ \/ flagged]
    /\ pending' = [pending EXCEPT ![work.next] = {}]
    /\ pc' = IF work.next = ANALYZERS THEN "scores" ELSE "analyze"
    /\ UNCHANGED <<storeVars, lifeVars, traceVars, sleepLeft, flagWrites, span_scores, errorVars>>

\* The next analyzer raises: what it logged so far stays in its _scores, what
\* earlier analyzers returned is forgotten with the local variables.
AnalyzeRaises ==
    /\ pc = "analyze"
    /\ Fail
    /\ \E logged \in SUBSET {work.span} :
          /\ pending' = [pending EXCEPT ![work.next] = @ \union logged]
          /\ raised' = raised \union logged
    /\ RetryOrGiveUp \/ GiveUp
    /\ UNCHANGED <<storeVars, lifeVars, traceVars, work, flagWrites, span_scores>>

SpanRows == {[span |-> work.span, tenant |-> TenantOf[work.span], source |-> s] : s \in work.scores}
AfterScores == IF work.flagged THEN "flags" ELSE "buffer"

WriteScores ==
    /\ pc = "scores"
    /\ span_scores' = span_scores \union SpanRows
    /\ pc' = AfterScores
    /\ UNCHANGED <<storeVars, lifeVars, traceVars, spanVars, pending, errorVars>>

\* psycopg2 raises, before or after the commit took effect.
WriteScoresRaises ==
    /\ pc = "scores"
    /\ work.scores # {}
    /\ Fail
    /\ span_scores' \in {span_scores, span_scores \union SpanRows}
    /\ GiveUp
    /\ UNCHANGED <<storeVars, lifeVars, traceVars, work, flagWrites, pending, raised>>

WriteFlags ==
    /\ pc = "flags"
    /\ flagWrites' = [flagWrites EXCEPT ![work.span] = @ + 1]
    /\ pc' = "buffer"
    /\ UNCHANGED <<storeVars, lifeVars, traceVars, work, sleepLeft, scoreVars, errorVars>>

\* Mutant: every error of write_flags is retried.
WriteFlagsRetried ==
    /\ pc = "flags"
    /\ Fail
    /\ flagWrites' \in {flagWrites, [flagWrites EXCEPT ![work.span] = @ + 1]}
    /\ RetryOrGiveUp
    /\ UNCHANGED <<storeVars, lifeVars, traceVars, work, scoreVars, raised>>

\* psycopg2 raises, before or after the commit took effect; or it refuses a
\* string with a NUL character, with a ValueError and nothing sent.
WriteFlagsRaises ==
    /\ pc = "flags"
    /\ Fail
    /\ \/ flagWrites' \in {flagWrites, [flagWrites EXCEPT ![work.span] = @ + 1]} /\ GiveUp
       \/ UNCHANGED flagWrites /\ RetryOrGiveUp
    /\ UNCHANGED <<storeVars, lifeVars, traceVars, work, scoreVars, raised>>

\* The processed span joins its trace, and stale traces are looked for.
Buffer ==
    LET t == TraceOf[work.span]
        lastSeen == [u \in DOMAIN trace_last_seen \union {t} |->
                        IF u = t THEN 0 ELSE trace_last_seen[u]]
    IN  /\ pc = "buffer"
        /\ trace_buffer' = [u \in DOMAIN trace_buffer \union {t} |->
                               IF u # t THEN trace_buffer[u]
                               ELSE IF u \in DOMAIN trace_buffer
                                    THEN Append(trace_buffer[u], work.span)
                                    ELSE <<work.span>>]
        /\ trace_last_seen' = lastSeen
        /\ EnterFlush(lastSeen)
        /\ work' = Nobody
        /\ UNCHANGED <<storeVars, lifeVars, traceRows, analysed, sleepLeft, flagWrites, scoreVars, errorVars>>

-----------------------------------------------------------------------------
(* _flush_stale_traces *)

\* Mutant: only the buffer entry is removed.
ForgetBufferOnly(t) ==
    /\ trace_buffer' = Restrict(trace_buffer, DOMAIN trace_buffer \ {t})
    /\ UNCHANGED trace_last_seen

\* "finally": both dictionaries forget the trace.
Forget(t) ==
    /\ trace_buffer' = Restrict(trace_buffer, DOMAIN trace_buffer \ {t})
    /\ trace_last_seen' = Restrict(trace_last_seen, DOMAIN trace_last_seen \ {t})

Owner(t) == TenantOf[Head(trace_buffer[t])]

\* Every buffered span of the trace has now been to the TraceAnalyzer.
Count(t) == analysed' = [s \in Spans |-> analysed[s] + (IF s \in ToSet(trace_buffer[t]) THEN 1 ELSE 0)]

TraceAnalyze ==
    /\ pc = "stale"
    /\ \E t \in flushing.ready, flagged \in BOOLEAN :
          /\ \E logged \in SUBSET {Head(trace_buffer[t])} :
                flushing' = [ready |-> flushing.ready \ {t}, tid |-> t,
                             scores |-> pending[TraceA] \union logged, flagged |-> flagged]
          /\ Count(t)
    /\ pending' = [pending EXCEPT ![TraceA] = {}]
    /\ pc' = "trace scores"
    /\ UNCHANGED <<storeVars, lifeVars, bufferVars, traceRows, spanVars, span_scores, errorVars>>

\* TraceAnalyzer raises: its scores stay behind and the trace is forgotten.
TraceAnalyzeRaises ==
    /\ pc = "stale"
    /\ Fail
    /\ \E t \in flushing.ready :
          /\ \E logged \in SUBSET {Head(trace_buffer[t])} :
                /\ pending' = [pending EXCEPT ![TraceA] = @ \union logged]
                /\ raised' = raised \union logged
          /\ Count(t)
          /\ Forget(t)
          /\ flushing' = [flushing EXCEPT !.ready = @ \ {t}]
    /\ UNCHANGED <<storeVars, pc, lifeVars, traceRows, spanVars, span_scores>>

TraceScoreRows ==
    {[span |-> NoSpan, tenant |-> Owner(flushing.tid), source |-> s] : s \in flushing.scores}

NextTrace == pc' = "stale" /\ flushing' = [Nothing EXCEPT !.ready = flushing.ready]

TraceWriteScores ==
    /\ pc = "trace scores"
    /\ span_scores' = span_scores \union TraceScoreRows
    /\ IF flushing.flagged
       THEN pc' = "trace flags" /\ UNCHANGED <<bufferVars, flushing>>
       ELSE Forget(flushing.tid) /\ NextTrace
    /\ UNCHANGED <<storeVars, lifeVars, traceRows, analysed, spanVars, pending, errorVars>>

TraceFlagRow ==
    [tenant |-> Owner(flushing.tid), trace |-> flushing.tid, spans |-> trace_buffer[flushing.tid]]

TraceWriteFlags ==
    /\ pc = "trace flags"
    /\ traceRows' = traceRows \union {TraceFlagRow}
    /\ Forget(flushing.tid)
    /\ NextTrace
    /\ UNCHANGED <<storeVars, lifeVars, analysed, spanVars, scoreVars, errorVars>>

\* Mutant: a trace whose write failed is kept for another flush.
TraceWriteRaisesAndKeeps ==
    /\ Fail
    /\ \/ /\ pc = "trace scores"
          /\ flushing.scores # {}
          /\ span_scores' \in {span_scores, span_scores \union TraceScoreRows}
          /\ UNCHANGED traceRows
       \/ /\ pc = "trace flags"
          /\ traceRows' \in {traceRows, traceRows \union {TraceFlagRow}}
          /\ UNCHANGED span_scores
    /\ NextTrace
    /\ UNCHANGED <<storeVars, lifeVars, bufferVars, analysed, spanVars, pending, raised>>

\* Either write raises: logged, and the trace is forgotten all the same.
TraceWriteRaises ==
    /\ Fail
    /\ \/ /\ pc = "trace scores"
          /\ flushing.scores # {}
          /\ span_scores' \in {span_scores, span_scores \union TraceScoreRows}
          /\ UNCHANGED traceRows
       \/ /\ pc = "trace flags"
          /\ traceRows' \in {traceRows, traceRows \union {TraceFlagRow}}
          /\ UNCHANGED span_scores
    /\ Forget(flushing.tid)
    /\ NextTrace
    /\ UNCHANGED <<storeVars, lifeVars, analysed, spanVars, pending, raised>>

FlushDone ==
    /\ pc = "stale"
    /\ flushing.ready = {}
    /\ pc' = "top"
    /\ flushing' = Nothing
    /\ UNCHANGED <<storeVars, lifeVars, bufferVars, traceRows, analysed, spanVars, scoreVars, errorVars>>

-----------------------------------------------------------------------------
ProcessSpan ==
    \/ Fetch \/ FetchMisses \/ FetchRaises
    \/ Analyze \/ AnalyzeRaises
    \/ WriteScores \/ WriteScoresRaises
    \/ WriteFlags \/ WriteFlagsRaises
    \/ Buffer \/ Wake

FlushTraces ==
    \/ TraceAnalyze \/ TraceAnalyzeRaises
    \/ TraceWriteScores \/ TraceWriteFlags \/ TraceWriteRaises
    \/ FlushDone

Thread == LoopTop \/ LoopExit \/ Pop \/ Idle \/ ProcessSpan \/ FlushTraces

Next ==
    \/ \E s \in Spans : Enqueue(s) \/ Store(s)
    \/ Tick
    \/ Start
    \/ Signal
    \/ Crash
    \/ Thread

Spec == Init /\ [][Next]_vars

\* A started thread keeps running and the clock keeps moving.  Nothing makes
\* spans arrive, rows appear in ClickHouse, or signals and crashes happen.
Fairness == WF_vars(Thread) /\ WF_vars(Tick)

FairSpec == Spec /\ Fairness

-----------------------------------------------------------------------------
(* Properties *)

\* The two dictionaries of main() stay in step, and a trace that
\* _flush_stale_traces still has to visit is in both: trace_buffer[tid] and
\* spans_for_trace[0] are read outside the try block, where a KeyError or an
\* IndexError would end the worker.
BuffersAgree ==
    /\ DOMAIN trace_buffer = DOMAIN trace_last_seen
    /\ flushing.ready \subseteq DOMAIN trace_buffer
    /\ \A t \in DOMAIN trace_buffer :
          /\ trace_buffer[t] # <<>>
          /\ \A s \in ToSet(trace_buffer[t]) : TraceOf[s] = t

\* A span goes to the TraceAnalyzer at most once, however late spans of its
\* trace arrive, whichever write of a flush fails and however often a try on
\* it was repeated; otherwise a trace would be flagged twice for one event.
AnalysedAtMostOnce == \A s \in Spans : analysed[s] <= 1

\* Retries never write the flags of a span twice: only errors that wrote
\* nothing are retried, and a commit whose reply was lost is not.
FlagsAtMostOnce == \A s \in Spans : flagWrites[s] <= 1

\* The only way a score gets into a row of another span or tenant is an
\* exception that left it behind in its analyzer.
ForeignScoresWereLeftBehind ==
    \A row \in span_scores :
        \/ row.source \in raised
        \/ row.source = row.span
        \/ row.span = NoSpan /\ row.tenant = TenantOf[row.source]

\* A span that was popped is done with at some point (its tries are bounded),
\* unless the process ends.
PoppedSpanIsDoneWith == (pc \in Busy) ~> (pc \in {"top", "off"})

\* A buffered trace does not stay in the buffer for ever: it goes to the
\* TraceAnalyzer, or it is lost with the process.
BufferedTraceIsFlushed ==
    \A t \in Traces : (t \in DOMAIN trace_buffer) ~> (t \notin DOMAIN trace_buffer)

\* base.py:118, of log_score: "Record a similarity score for the current
\* span".  The rows written for a span hold scores of that span.
ScoresAreOfTheirSpan ==
    \A row \in span_scores : row.span # NoSpan => row.source = row.span

\* README.md:270: "All tables enforce tenant isolation".  What is written for
\* a trace under a tenant was computed from that tenant's spans.
TraceRowsAreOfOneTenant ==
    \A row \in traceRows : \A s \in ToSet(row.spans) : TenantOf[s] = row.tenant
=============================================================================
