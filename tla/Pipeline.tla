------------------------------ MODULE Pipeline ------------------------------
(***************************************************************************)
(* A span on its way from the ingestion handler to the worker, with the    *)
(* batcher and the worker on one clock.  The id reaches Redis at once, the *)
(* row reaches ClickHouse only with its batch; the worker bridges the gap  *)
(* with its tries and the sleeps between them (worker/main.py:228-249).    *)
(*                                                                         *)
(* The batcher is the SpanBatcher module in one life of the Analyser, with *)
(* its steps made prompt: a waiting row and a passed deadline are handled  *)
(* before the clock moves on, and an insert takes at most INSERT_TIME.     *)
(* Handlers and the worker may be slow at any point.                       *)
(***************************************************************************)
EXTENDS SpanBatcher

CONSTANTS
    INSERT_TIME,     \* longest time an insert into ClickHouse takes
    ATTEMPTS,        \* tries per span (range(3))
    BACKOFF,         \* sleep after try number i is (i + 1) * BACKOFF
    Announced        \* bound of the model: rows whose id reaches Redis

\* A row may have to wait for a running insert, for the deadline of the next
\* buffer and for its own insert; the sleeps add up to more than that.
ASSUME TriesOutlastFlush ==
    /\ ATTEMPTS \in Nat \ {0}
    /\ BACKOFF \in Nat
    /\ INSERT_TIME \in Nat
    /\ 2 * (FLUSH_INTERVAL + 2 * INSERT_TIME) < BACKOFF * ATTEMPTS * (ATTEMPTS - 1)

VARIABLES
    analysis_queue,  \* the Redis list, oldest id first
    trying,          \* the span the worker has popped
    attempt,
    sleepLeft,       \* ticks left of time.sleep
    insertAge,       \* ticks the running insert has taken
    processed,       \* spans the worker found
    givenUp,         \* spans it gave up after the last try
    backlogged       \* history: rows that had a whole batch waiting before them

workerVars == <<trying, attempt, sleepLeft, processed, givenUp>>
allVars == <<analysis_queue, workerVars, insertAge, backlogged, vars>>

Nobody == "no span"

PipelineInit ==
    /\ analysis_queue = <<>>
    /\ trying = Nobody
    /\ attempt = 0
    /\ sleepLeft = 0
    /\ insertAge = 0
    /\ processed = {}
    /\ givenUp = {}
    /\ backlogged = {}
    /\ Init

-----------------------------------------------------------------------------
(* The Analyser *)

StartAnalyser == Start /\ UNCHANGED <<analysis_queue, workerVars, insertAge, backlogged>>

\* The handler's last two steps; the id may be pushed any time after the row.
AddRow(s) ==
    /\ Add(s)
    /\ backlogged' = IF Len(queue) >= BATCH_SIZE THEN backlogged \union {s} ELSE backlogged
    /\ UNCHANGED <<analysis_queue, workerVars, insertAge>>

Queued == ToSet(analysis_queue) \union processed \union givenUp \union {trying}

Enqueue(s) ==
    /\ s \in (received \intersect Announced) \ Queued
    /\ analysis_queue' = Append(analysis_queue, s)
    /\ UNCHANGED <<workerVars, insertAge, backlogged, vars>>

\* A flush starts with a new insert, or comes back from it.
FlushStep ==
    /\ Get \/ TimeOut \/ FlushReturns
    /\ insertAge' = 0
    /\ UNCHANGED <<analysis_queue, workerVars, backlogged>>

-----------------------------------------------------------------------------
(* The worker *)

Pop ==
    /\ trying = Nobody
    /\ analysis_queue # <<>>
    /\ trying' = Head(analysis_queue)
    /\ analysis_queue' = Tail(analysis_queue)
    /\ attempt' = 0
    /\ UNCHANGED <<sleepLeft, processed, givenUp, insertAge, backlogged, vars>>

Done == trying' = Nobody /\ UNCHANGED <<attempt, sleepLeft>>

\* fetch_span finds the row.
TryFinds ==
    /\ trying # Nobody
    /\ sleepLeft = 0
    /\ spans[trying] > 0
    /\ processed' = processed \union {trying}
    /\ Done
    /\ UNCHANGED <<analysis_queue, givenUp, insertAge, backlogged, vars>>

\* fetch_span raises ValueError: the row is not there.
Missing ==
    /\ trying # Nobody
    /\ sleepLeft = 0
    /\ spans[trying] = 0
    /\ UNCHANGED <<analysis_queue, processed, insertAge, backlogged, vars>>

TryAgain(next, sleep) ==
    /\ attempt' = next
    /\ sleepLeft' = sleep
    /\ UNCHANGED <<trying, givenUp>>

GiveUp == givenUp' = givenUp \union {trying} /\ Done

\* Mutant: the sleep grows from attempt instead of attempt + 1.
TryMissesShortSleep ==
    /\ Missing
    /\ IF attempt + 1 < ATTEMPTS THEN TryAgain(attempt + 1, attempt * BACKOFF) ELSE GiveUp

\* Mutant: a try for a missing row is not counted.
TryMissesUncounted == Missing /\ TryAgain(attempt, (attempt + 1) * BACKOFF)

\* Sleep and try again, or give the span up.
TryMisses ==
    /\ Missing
    /\ IF attempt + 1 < ATTEMPTS THEN TryAgain(attempt + 1, (attempt + 1) * BACKOFF) ELSE GiveUp

-----------------------------------------------------------------------------
(* Time *)

\* What the batcher does before the clock moves on.
Due ==
    \/ loop = "get" /\ (deadlineIn = 0 \/ queue # <<>>)
    \/ loop = "flush" /\ insertAge = INSERT_TIME

ClockTick ==
    /\ ~Due
    /\ \/ Tick /\ UNCHANGED insertAge
       \/ loop = "flush" /\ insertAge' = insertAge + 1 /\ UNCHANGED vars
    /\ sleepLeft' = IF sleepLeft > 0 THEN sleepLeft - 1 ELSE 0
    /\ UNCHANGED <<analysis_queue, trying, attempt, processed, givenUp, backlogged>>

PipelineNext ==
    \/ StartAnalyser
    \/ \E s \in Rows : AddRow(s) \/ Enqueue(s)
    \/ FlushStep
    \/ Pop
    \/ TryFinds
    \/ TryMisses
    \/ ClockTick

PipelineSpec == PipelineInit /\ [][PipelineNext]_allVars

\* The event loop, the insert threads, the worker and the clock go on.
PipelineFairness ==
    /\ WF_allVars(FlushStep)
    /\ WF_allVars(Pop)
    /\ WF_allVars(TryFinds)
    /\ WF_allVars(TryMisses)
    /\ WF_allVars(ClockTick)

FairPipelineSpec == PipelineSpec /\ PipelineFairness

-----------------------------------------------------------------------------
(* Properties *)

\* The worker's three tries are enough for a row that has less than a batch
\* before it: a span it gives up is one whose insert failed, however its row met
\* a running insert, a full batch or a deadline, and whatever was before it in
\* Redis.  Behind a longer queue a row can wait for more inserts than the tries
\* last.
GivenUpHasCause == givenUp \subseteq dropped \union backlogged

\* The worker waits for a row at most as long as the row can take: every id
\* in Redis leads to an analysed span or to one given up.
QueuedIsDecided ==
    \A s \in Announced : (s \in ToSet(analysis_queue)) ~> (s \in processed \union givenUp)
=============================================================================
