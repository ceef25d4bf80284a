---------------------------- MODULE SpanBatcher ----------------------------
(***************************************************************************)
(* The ClickHouse batch writer of the Analyser (analyser/batch.py), inside *)
(* the process that owns it (lifespan in analyser/main.py).                *)
(*                                                                         *)
(* Three activities share it: the request handlers that add rows to an     *)
(* unbounded queue, the flush-loop task that moves rows into a local       *)
(* buffer and flushes it by size or by deadline, and stop(), which cancels *)
(* the task and writes what is left in the queue.  An insert runs in a     *)
(* worker thread: cancelling the coroutine that awaits it does not stop it.*)
(* The process can also die at any point, and be started again.            *)
(*                                                                         *)
(* Time is discrete.  A step of the loop whose deadline has passed happens *)
(* before the next tick; everything else may take any number of ticks.     *)
(***************************************************************************)
EXTENDS Naturals, Sequences, FiniteSets, SequencesExt

CONSTANTS
    Rows,            \* span rows; each is handed to add() at most once
    BATCH_SIZE,      \* XETER_BATCH_SIZE
    FLUSH_INTERVAL,  \* XETER_FLUSH_INTERVAL, in ticks
    MaxStarts        \* bound of the model: how often the process is started

ASSUME BatcherAssumption ==
    /\ BATCH_SIZE \in Nat \ {0}
    /\ FLUSH_INTERVAL \in Nat \ {0}
    /\ MaxStarts \in Nat

VARIABLES
    proc,        \* where the Analyser process is in its life
    queue,       \* self._queue
    buffer,      \* the local variable of _flush_loop
    loop,        \* where the flush-loop task is
    deadlineIn,  \* ticks left until the loop's deadline
    rows,        \* the local variable of _flush_all
    inserts,     \* batches whose insert thread is running
    spans,       \* copies of each row in the ClickHouse table
    dropped,     \* rows the log names as dropped by a failed flush
    received,    \* history: every row ever added
    accepted,    \* history: rows added in this life of the process, in order
    oldest,      \* history: ticks the oldest row of buffer has spent there
    starts       \* how often the process was started

lifeVars == <<proc, starts>>
loopVars == <<buffer, loop, deadlineIn, oldest>>
tableVars == <<spans, dropped>>
historyVars == <<received, accepted>>
vars == <<lifeVars, queue, loopVars, rows, inserts, tableVars, historyVars>>

Procs == {"down", "up", "stopping", "flushall", "exiting", "exited"}

TypeOK ==
    /\ proc \in Procs
    /\ queue \in Seq(Rows)
    /\ buffer \in Seq(Rows)
    /\ loop \in {"off", "get", "flush"}
    /\ deadlineIn \in 0 .. FLUSH_INTERVAL
    /\ rows \in Seq(Rows)
    /\ inserts \in SUBSET SUBSET Rows
    /\ spans \in [Rows -> Nat]
    /\ dropped \in SUBSET Rows
    /\ received \in SUBSET Rows
    /\ accepted \in Seq(Rows)
    /\ oldest \in Nat
    /\ starts \in 0 .. MaxStarts

Init ==
    /\ proc = "down"
    /\ queue = <<>>
    /\ buffer = <<>>
    /\ loop = "off"
    /\ deadlineIn = FLUSH_INTERVAL
    /\ rows = <<>>
    /\ inserts = {}
    /\ spans = [r \in Rows |-> 0]
    /\ dropped = {}
    /\ received = {}
    /\ accepted = <<>>
    /\ oldest = 0
    /\ starts = 0

-----------------------------------------------------------------------------
(* Helpers *)

\* ClickHouse applies a batch: one more copy of each of its rows.
Apply(batch) == spans' = [r \in Rows |-> IF r \in batch THEN spans[r] + 1 ELSE spans[r]]

\* How an awaited insert ends for its caller: it returns, it raises without
\* having written, or it raises although the server has written (a reply lost
\* after the fact).  An exception is logged with the rows it dropped and goes
\* no further.
InsertReturns(batch) ==
    /\ inserts' = inserts \ {batch}
    /\ \/ Apply(batch) /\ UNCHANGED dropped
       \/ dropped' = dropped \union batch /\ UNCHANGED spans
       \/ Apply(batch) /\ dropped' = dropped \union batch

\* Mutant: the buffer is not reset after a flush.
FreshLoopKeepsBuffer ==
    /\ UNCHANGED buffer
    /\ oldest' = 0
    /\ deadlineIn' = FLUSH_INTERVAL
    /\ loop' = "get"

\* The loop's state right after a flush, or when it starts.
FreshLoop ==
    /\ buffer' = <<>>
    /\ oldest' = 0
    /\ deadlineIn' = FLUSH_INTERVAL
    /\ loop' = "get"

-----------------------------------------------------------------------------
(* The process and its request handlers *)

\* lifespan startup: a new SpanBatcher with an empty queue, and start().
Start ==
    /\ proc \in {"down", "exited"}
    /\ starts < MaxStarts
    /\ proc' = "up"
    /\ starts' = starts + 1
    /\ queue' = <<>>
    /\ rows' = <<>>
    /\ FreshLoop
    /\ accepted' = <<>>
    /\ UNCHANGED <<inserts, tableVars, received>>

\* add(): the queue has no bound, so put() never waits.
Add(r) ==
    /\ proc = "up"
    /\ r \notin received
    /\ queue' = Append(queue, r)
    /\ received' = received \union {r}
    /\ accepted' = Append(accepted, r)
    /\ UNCHANGED <<lifeVars, loopVars, rows, inserts, tableVars>>

-----------------------------------------------------------------------------
(* The flush loop *)

\* Mutant: the newest row is taken first.
GetNewest ==
    /\ loop = "get"
    /\ deadlineIn > 0
    /\ queue # <<>>
    /\ buffer' = Append(buffer, Last(queue))
    /\ queue' = Front(queue)
    /\ IF Len(buffer') >= BATCH_SIZE
       THEN loop' = "flush" /\ inserts' = inserts \union {ToSet(buffer')}
       ELSE UNCHANGED <<loop, inserts>>
    /\ UNCHANGED <<lifeVars, deadlineIn, oldest, rows, tableVars, historyVars>>

\* Mutant: every row pushes the deadline back.
GetPostponesDeadline ==
    /\ loop = "get"
    /\ deadlineIn > 0
    /\ queue # <<>>
    /\ buffer' = Append(buffer, Head(queue))
    /\ queue' = Tail(queue)
    /\ deadlineIn' = FLUSH_INTERVAL
    /\ IF Len(buffer') >= BATCH_SIZE
       THEN loop' = "flush" /\ inserts' = inserts \union {ToSet(buffer')}
       ELSE UNCHANGED <<loop, inserts>>
    /\ UNCHANGED <<lifeVars, oldest, rows, tableVars, historyVars>>

\* wait_for(queue.get()) returns a row before the deadline; a full buffer is
\* handed to an insert thread at once.
Get ==
    /\ loop = "get"
    /\ deadlineIn > 0
    /\ queue # <<>>
    /\ buffer' = Append(buffer, Head(queue))
    /\ queue' = Tail(queue)
    /\ IF Len(buffer') >= BATCH_SIZE
       THEN loop' = "flush" /\ inserts' = inserts \union {ToSet(buffer')}
       ELSE UNCHANGED <<loop, inserts>>
    /\ UNCHANGED <<lifeVars, deadlineIn, oldest, rows, tableVars, historyVars>>

\* Mutant: a timeout flushes only a full buffer.
TimeOutIfFull ==
    /\ loop = "get"
    /\ deadlineIn = 0
    /\ IF Len(buffer) >= BATCH_SIZE
       THEN /\ loop' = "flush"
            /\ inserts' = inserts \union {ToSet(buffer)}
            /\ UNCHANGED <<deadlineIn, oldest>>
       ELSE /\ deadlineIn' = FLUSH_INTERVAL
            /\ oldest' = 0
            /\ UNCHANGED <<loop, inserts>>
    /\ UNCHANGED <<lifeVars, queue, buffer, rows, tableVars, historyVars>>

\* The deadline has passed: wait_for gets a timeout of 0 and raises even when
\* a row is waiting.  A non-empty buffer is flushed, an empty one only moves
\* the deadline.
TimeOut ==
    /\ loop = "get"
    /\ deadlineIn = 0
    /\ IF buffer # <<>>
       THEN /\ loop' = "flush"
            /\ inserts' = inserts \union {ToSet(buffer)}
            /\ UNCHANGED deadlineIn
       ELSE /\ deadlineIn' = FLUSH_INTERVAL
            /\ UNCHANGED <<loop, inserts>>
    /\ UNCHANGED <<lifeVars, queue, buffer, oldest, rows, tableVars, historyVars>>

\* Mutant: rows of a failed insert stay in the buffer, to be retried.
FlushReturnsOrRetries ==
    /\ loop = "flush"
    /\ InsertReturns(ToSet(buffer))
    /\ IF dropped' = dropped
       THEN FreshLoop
       ELSE loop' = "get" /\ deadlineIn' = FLUSH_INTERVAL /\ UNCHANGED <<buffer, oldest>>
    /\ UNCHANGED <<lifeVars, queue, rows, historyVars>>

\* _flush comes back to the loop, which starts an empty buffer.
FlushReturns ==
    /\ loop = "flush"
    /\ InsertReturns(ToSet(buffer))
    /\ FreshLoop
    /\ UNCHANGED <<lifeVars, queue, rows, historyVars>>

\* One unit of time passes while the loop waits; timeout = max(0, deadline - now).
Tick ==
    /\ loop = "get"
    /\ deadlineIn > 0
    /\ deadlineIn' = deadlineIn - 1
    /\ oldest' = IF buffer = <<>> THEN 0 ELSE oldest + 1
    /\ UNCHANGED <<lifeVars, queue, buffer, loop, rows, inserts, tableVars, historyVars>>

-----------------------------------------------------------------------------
(* Shutdown *)

\* stop(), up to the end of gather(): the cancelled task ends at its await and
\* its local buffer goes with it.  An insert it was awaiting runs on.  The
\* server has answered every request before it runs lifespan shutdown.
Stop ==
    /\ proc = "up"
    /\ proc' = "stopping"
    /\ loop' = "off"
    /\ buffer' = <<>>
    /\ oldest' = 0
    /\ UNCHANGED <<starts, queue, deadlineIn, rows, inserts, tableVars, historyVars>>

\* Mutant: stop() cancels the task and leaves the queue alone.
FlushAllSkipped ==
    /\ proc = "stopping"
    /\ proc' = "exiting"
    /\ queue' = <<>>
    /\ UNCHANGED <<starts, loopVars, rows, inserts, tableVars, historyVars>>

\* _flush_all(): take what is in the queue and, if there is any, insert it.
FlushAll ==
    /\ proc = "stopping"
    /\ queue' = <<>>
    /\ IF queue # <<>>
       THEN /\ proc' = "flushall"
            /\ rows' = queue
            /\ inserts' = inserts \union {ToSet(queue)}
       ELSE proc' = "exiting" /\ UNCHANGED <<rows, inserts>>
    /\ UNCHANGED <<starts, loopVars, tableVars, historyVars>>

FlushAllReturns ==
    /\ proc = "flushall"
    /\ InsertReturns(ToSet(rows))
    /\ rows' = <<>>
    /\ proc' = "exiting"
    /\ UNCHANGED <<starts, queue, loopVars, historyVars>>

\* The insert of a cancelled flush ends: nobody awaits it, so a failure is
\* not even logged.
OrphanReturns ==
    /\ proc \in {"stopping", "flushall", "exiting"}
    /\ \E batch \in inserts :
          /\ batch # ToSet(rows)
          /\ inserts' = inserts \ {batch}
          /\ Apply(batch) \/ UNCHANGED spans
    /\ UNCHANGED <<lifeVars, queue, loopVars, rows, dropped, historyVars>>

\* asyncio.run() waits for its threads before the interpreter exits.
Exit ==
    /\ proc = "exiting"
    /\ inserts = {}
    /\ proc' = "exited"
    /\ UNCHANGED <<starts, queue, loopVars, rows, inserts, tableVars, historyVars>>

\* The process is killed.  An insert on the wire may or may not be applied.
Crash ==
    /\ proc \notin {"down", "exited"}
    /\ \E survived \in SUBSET inserts : Apply(UNION survived)
    /\ proc' = "down"
    /\ loop' = "off"
    /\ queue' = <<>>
    /\ buffer' = <<>>
    /\ oldest' = 0
    /\ rows' = <<>>
    /\ inserts' = {}
    /\ accepted' = <<>>
    /\ UNCHANGED <<starts, deadlineIn, dropped, received>>

-----------------------------------------------------------------------------
FlushLoop == Get \/ TimeOut \/ FlushReturns \/ Tick
Shutdown == FlushAll \/ FlushAllReturns \/ OrphanReturns \/ Exit

Next ==
    \/ Start
    \/ \E r \in Rows : Add(r)
    \/ FlushLoop
    \/ Stop
    \/ Shutdown
    \/ Crash

Spec == Init /\ [][Next]_vars

\* The event loop runs ready coroutines, threads end, and time passes.  Get is
\* strongly fair: each new deadline re-enables it, and a waiting row is taken
\* in the next turn of the event loop, long before a whole interval is over.
\* Nothing forces the process to be started, stopped or killed.
Fairness ==
    /\ SF_vars(Get)
    /\ WF_vars(TimeOut)
    /\ WF_vars(FlushReturns)
    /\ WF_vars(Tick)
    /\ WF_vars(FlushAll)
    /\ WF_vars(FlushAllReturns)
    /\ WF_vars(OrphanReturns)
    /\ WF_vars(Exit)

FairSpec == Spec /\ Fairness

-----------------------------------------------------------------------------
(* Properties *)

Held == ToSet(queue) \union ToSet(buffer) \union ToSet(rows) \union UNION inserts

\* Two flushes never write the same row: whatever the interleaving of the
\* loop, a cancelled insert and the final flush, ClickHouse has at most one
\* copy of a row (the table has no deduplicating engine to hide a second one).
AtMostOneCopy == \A r \in Rows : spans[r] <= 1

\* Rows leave the batcher in the order the handlers added them: what the
\* queue and the buffer still hold is always the newest part of what was
\* added, so no row overtakes an older one on its way to a flush.
FirstInFirstFlushed == IsSuffix(buffer \o queue, accepted)

\* "By size or by time, whichever comes first" (class docstring): while the
\* loop waits for a row its buffer is short of a batch, and no row has been
\* in it for longer than the flush interval, however steadily rows arrive.
FlushedInTime ==
    loop = "get" => Len(buffer) < BATCH_SIZE /\ oldest <= FLUSH_INTERVAL

SilentlyLost == {r \in ToSet(accepted) : spans[r] = 0 /\ r \notin dropped}

\* What a graceful stop may lose without a log line: at most the one batch the
\* cancelled flush loop was holding.  Rows still in the queue are written or
\* named in the log.
StopLosesOneBatchAtMost ==
    proc = "exited" => Cardinality(SilentlyLost) <= BATCH_SIZE

\* Every row handed to the batcher is settled at some point: written, dropped
\* by a failed insert, or gone with the buffer or the process that held it.
EveryRowIsSettled == \A r \in Rows : (r \in Held) ~> (r \notin Held)

\* The batcher implements the abstract sink: rows are settled once, a settled
\* row never comes back, and a stored row has one copy.
Sink == INSTANCE RowSink WITH held <- Held, copies <- spans
ImplementsRowSink == Sink!Spec
=============================================================================
