# Xeter in TLA+

Xeter records the spans of LLM agents, flags what looks wrong in them and, on
demand, has an LLM diagnose one. This directory models the parts of it that
are hard to test: several processes around four stores, a batcher with its own
clock, a worker with retries, and a dashboard whose answers arrive in any order.

All file names below are relative to `src/xeter/` unless they start with
`src/`. Run a check with `tlc -config <run>.cfg <module>.tla`, a proof with
`tlapm <module>.tla`; `PROJECT.json` lists every run with its module, every
definition with the lines it stands for, and the hazards with the properties
that watch them.

## 1. Inventory

| Component | State | Operations | Hard behaviour | What makes it correct |
|---|---|---|---|---|
| Span batcher (`services/analyser/batch.py`, lifespan in `main.py`) | unbounded asyncio queue; the flush loop's local buffer and deadline; insert threads | `add`, `_flush_loop`, `_flush`, `stop`, `_flush_all` | an insert outlives the coroutine that awaits it; cancellation at any await; kill and restart; inserts that fail after they took effect | a row is stored at most once, in order, no later than the interval; a stop loses little |
| Ingestion handler (`ingest.py`, `s3.py`, `queue.py`) | none of its own | POST /v1/spans: four uploads, `add`, LPUSH | every step can fail, before or after its effect; requests interleave | no row without payloads; no id before its row; the answer tells the truth |
| API key check (`services/analyser/auth.py`, `shared/dal/api_keys.py`) | keys in PostgreSQL | one query, comparison | the answer outlives the key | nothing of a deleted tenant comes in later |
| Worker loop (`services/worker/main.py`, `base.py`, writers, fetcher) | the popped span, tries, two dictionaries per trace, scores inside the analyzers | BRPOP, `process_span`, retry, `_flush_stale_traces` | exceptions at any step; lost commits; SIGTERM; late spans; state that survives an exception | nothing analysed or flagged twice; nothing stuck; scores and rows of the right span and tenant |
| Trace checks (`trace_analyzer.py`) | none | eleven checks over the spans of a trace | late spans cut a trace into parts | a part is judged as the whole would be |
| Span checks (`tool_call_analyzer.py`, `tool_call_registry.py`, `output_schema_analyzer.py`, `semantic_span_analyzer.py`) | none | thirteen checks in a fixed order | a check that raises takes the others with it; checks that leave a symptom to each other | a flag has its score; no symptom twice, none lost |
| Diagnosis (`services/presenter/diagnosis_service.py`, `routers/diagnose.py`, `services/diagnosticer/main.py`, `shared/dal/diagnoses.py`) | table `diagnoses`; requests and jobs in flight | POST and GET /diagnose, one LLM job per POST | timeout while the job goes on, broken connections, lost commits, kills, commit order against `created_at` | answers are current, one row a job, every request answered |
| Span list and detail (`routers/spans.py`) | none | cursor pages, filters, flag post-filter; rows, flags and scores in separate queries | rows arrive between pages; equal times; a filter after the limit; the worker commits between two reads | order, no row missing without a cause; a status the span really had |
| Traces (`routers/traces.py`) | none | offset pages; rows and flags of one trace | pages shift while spans arrive; two stores without a common snapshot | no trace skipped unless it moved |
| Registration, login, tokens (`routers/auth.py`, `deps.py`, `shared/dal/users.py`, `tenants.py`) | users, tenants, keys | register, login, refresh | check-then-insert; sessions that run out with requests on their way | one user per email; whole accounts; a session is renewed or ended |
| Tenant deletion (`scripts/delete_tenant.py`) | four stores | delete in ClickHouse, PostgreSQL, S3; run again | running services write meanwhile; a step fails; a mutation applied later | what is left was in flight |
| Dashboard (`src/services/view`) | React state of the span page and the panel; auth store and cookie | load, filter, Load more, select, Diagnose, sign in, 401-refresh-retry | several requests in flight, none cancelled or numbered; answers after unmount | a settled page shows its filters' list, a settled panel its span and its diagnosis; skeletons end |
| SDK (`src/sdk/xeter_sdk/decorator.py`) | one thread per span | record and POST | fire and forget | the agent is not disturbed |
| Schema, sessions (`shared/db`, `shared/models.py`), migrations, calibration, seeding | DDL, one-shot scripts | - | - | constraints appear where they decide something |

### How they interact

The SDK posts a span to the **Analyser**, with an API key. The handler writes
its payloads to S3, gives the row to the **batcher** and pushes the id to Redis,
in this order. The **worker** pops the id, reads row and payloads back, runs the
span checks, writes scores and flags to PostgreSQL and keeps the span until its
trace has been quiet, when the **trace checks** run. Nothing connects batcher
and worker but time: the id may be popped long before the row is visible, and
three tries bridge the gap. The **Presenter** reads all stores for the
**dashboard**, one query after the other, and forwards a diagnosis to the
**Diagnosticer**, a process with its own transactions; the table is their only
shared state. The deletion script locks nobody out.

## 2. Modules

| Module | Models | Uses |
|---|---|---|
| `RowSink` | what a batcher promises: a row handed over is settled once | |
| `SpanBatcher` | `batch.py` and the life of the process around it | `RowSink` (refinement) |
| `Ingestion` | the handlers over the batcher | EXTENDS `SpanBatcher`, joint steps |
| `Pipeline` | batcher and worker's tries on one clock | EXTENDS `SpanBatcher`, joint steps |
| `Worker` | the worker's thread, buffers and writers | |
| `SpanChecks` | the thirteen checks of one span, and the registry | |
| `TraceAnalyzer` | the eleven checks of a trace, over its parts | |
| `Diagnosis` | Presenter, Diagnosticer, table | |
| `DetailPanel` | the diagnosis part of the span panel | EXTENDS `Diagnosis` |
| `SpanListing` | GET /spans, the page that calls it, sessions | |
| `SpanViews` | statuses, the panel's span, traces, beside the worker | |
| `TenantDeletion` | accounts from registration to deletion, beside all services | |
| `..._proofs` | the proofs about the module of that name (section 4) | EXTENDS it |
| `Ingestion_proofs`, `DetailPanel_proofs`, `Checks_proofs` | also those about `SpanBatcher`, those about `Diagnosis`, and those about `SpanChecks` and `TraceAnalyzer` | |
| `MC...` | constants for TLC | |

An action is what runs between two points where another process, task or
thread can be observed: an `await`, a call to a store, a return. An operator
marked as a mutant in its comment or in `PROJECT.json` is a plausible bug in the
definition it could stand for; `PROJECT.json` pairs the two and names the
property the bug breaks. Mutants are no part of `Next`.

**SpanBatcher.** `queue`, `buffer` and `rows` are `self._queue` and the locals
of `_flush_loop` and `_flush_all`; `inserts` are the threads of
`asyncio.to_thread`, which go on when the coroutine that awaits them is
cancelled (`Stop`, then `OrphanReturns`). `InsertReturns` lets an insert
succeed, fail, or fail for the caller only. `deadlineIn` counts down to the
loop's deadline and is clamped as `max(0, deadline - now)` is. `Crash` may
come anywhere and decides for each running insert whether it was applied.
`received`, `accepted` and `oldest` are history variables.

**Ingestion.** `request[s]` is where the handler of a span is. `PutObject` is
one of the four uploads. `AddRow` is a joint step with the batcher's `Add`; the
batcher's rows stand for the spans. A failing store call may have taken effect.
`ServerStop` waits for open requests, as the server does before lifespan
shutdown.

**Pipeline.** The batcher's steps are prompt (`Due` before `ClockTick`), an
insert takes at most `INSERT_TIME`, the worker is one process with the sleeps of
`main.py:228-249`. The assumption `TriesOutlastFlush` relates the two: a
running insert, an interval and the row's own insert are shorter than the sleeps; with the defaults of the code (an interval of 5 s, sleeps of 5 and 10 s)
it holds for inserts shorter than 5 s. `backlogged` is history: the rows that
found a whole batch in the queue before them. Rows outside `Announced` only
fill the batcher.

**Worker.** `pc` is the position of the thread; `work` the locals of a try;
`pending` the list `_scores` in each analyzer, which outlives an exception;
`flushing` the locals of `_flush_stale_traces`. What an analyzer finds is left
open. `Fail` lets any call raise, writers before or after their commit. A
`ValueError` is retried, anything else ends the work on the span.

**SpanChecks.** A span is a record of what the checks can tell about its text:
which fields it has, how similar its tools are to the prompt, what form its
payloads have. One action per check, in the order of `process_span`; `Raise`
is an exception that escapes a check and ends the span (`"given up"`), or is
taken by the loop for a row that is not stored yet (`"retried"`). `Registry`
has one entry for each group of models that hand over tool calls in one way.
spaCy, tiktoken, jsonschema and the embedder are seen through their results.
Nothing keeps two tools of a list from having one name: `offered` is how similar
the best of a name is, which `wrong_tool_choice` ranks, `later` how similar the
last of it is, which `response_anomaly` compares. `odd_tool` is an element of
the list that is no object, and stops the checks that come to it.

**TraceAnalyzer.** One operator per check, each a set of flags over a sequence
of spans; the scores of embedder, rapidfuzz and spaCy are constants over
abstract texts. `Process` and `Flush` are what the worker does with one
trace's buffer; `trace` remembers the whole, so that the flags of the parts can
be compared with the flags of the whole. A flag is compared by the spans it was
drawn from, a loop by its tool, since a loop is reported once for a tool.

**Diagnosis.** `step` is a request inside the Presenter, `job` its job inside
the Diagnosticer. `created_at` is the start of a transaction, so `Begin` takes
it from the clock and `Commit` makes the row visible later. `TimesOut` ends
the request and leaves the job alone. One span of one tenant is modelled;
`floor` is history.

**DetailPanel.** `Open` is the effect on mount, `Click` is `handleDiagnose`,
`Deliver` the code after the `await`, `Close` the unmount that mutes what
arrives later. `Elsewhere` is another user. `told` is history.

**SpanListing.** `page` is the state of `SpansPage`, or of the sign-in page when
it has no token; `requests` is what it has sent. `ListSpans` is the handler:
token, ClickHouse query (any order among equal times), flag filter after the
limit, cursor from the last row of a full page. `Refused`, `Refresh`,
`RefreshFails` and `RefusedAgain` are the wrapper of `api.ts`: a 401 is
refreshed once and retried, a new token in the auth store makes the page load
again. A refresh that is answered with an error drops the session token, whether
the cookie has run out or the Presenter failed for the moment and the cookie is
still good (`route.ts` reports both as 401). `QueryFails` is a fetch of the
wrapper that raises, with or without a valid token, and a 500. A `time_begin` is
the client's and may be ahead of the clock. `Deliver` is the code after the `await`, on whatever page there is by
then. The rows a list could have shown (`known`), what it was asked with (`of`,
`base`) and why a span may be missing from it (`cut`, `spliced`, `from`) are
history.

**SpanViews.** The batcher is `Store`, the worker four steps: `Fetch`,
`WriteScores`, `WriteFlags`, `FlagTrace`. A request reads rows, flags and scores
in steps of their own; in the detail of a span the two stores are read in any
order. `Select` is the panel's effect, which runs for a new selection and once
more when the session token is renewed; `Show` is its answer, which asks nobody
which span is selected by now. `WalkPage` is a client that pages through GET /traces by offset, in any of
the orders that equal start times leave open; `moved` is history: whether a late
span has moved a trace down the list under it. `was`
collects the statuses a span had while a request ran.

**TenantDeletion.** `registration[c]` is how far POST /register is: the check,
the insert (which waits for another transaction with the same email, and raises
if that one commits), the commit. `pg` is the set of committed rows.
`handler`, `buffered`, `queue`, `popped`, `analysing`, `traced`, `flushing` and
`diagnosing` follow a span of the tenant through the services, reduced to where
it can still write: a handler that may fail at any call, a batch that may be
dropped, the worker that sleeps between three looks for a row (`popped`), takes
any ValueError of an analysis for a missing row (`AnalysisFails`), keeps an
analysed span for its trace (`traced`) and writes scores and flags once more when
that is flushed (`FlushTrace`, `WriteScores`, `TraceFlushed`). The times between
these steps are left open, which allows more than the 5, 10 and 30 s of the code.
A trace is one span here: the rows of a trace are the tenant's whatever the
number of its spans.
`script` is the deletion: the ClickHouse mutation, submitted and applied
later (`Mutate`), one DELETE a table in one transaction, pages of S3 names; any
call may `Fail`, and the operator may run it again. `exposed` is history: the
spans in flight at some moment of the run.

## 3. Runs

Deadlock is not checked: in every module the environment may stop sending, the
bounds of a module end its behaviours, and a stopped process stays stopped.

| Run | Shows | Bounds, and why they are enough |
|---|---|---|
| `SpanBatcher` | at most one copy, order, the deadline, what a stop loses; implements `RowSink`; every held row is settled | 4 rows, batches of 3, interval 2, two lives: a full batch with a row left over, an orphaned insert beside a final flush, a restart |
| `Ingestion` | payloads before rows, rows before ids, true answers | 3 spans, 2 payloads (first and last), batches of 2, two lives: two requests interleave while a third waits for a part-filled batch |
| `Pipeline` | only spans whose insert failed or that had a batch queued before them are given up; every id is decided | 4 rows, batches of 2, interval 1, inserts of up to 2, sleeps of 2 and 4; the ids of 2 rows reach Redis: a row can meet a running insert, a full batch, a deadline and a queue that takes longer than the tries |
| `Worker` | buffers agree, nothing analysed or flagged twice, foreign scores come from an exception only; every popped span and buffered trace is finished | 2 spans of a trace, 2 tries, 2 analyzers, one exception, two lives |
| `Worker_scores` (violated) | a score is written for the span after the one it was computed from | one exception |
| `Worker_tenants` (violated) | spans without a trace id share a buffer across tenants | 2 tenants |
| `SpanChecks` | only a bare span stays pending, a flag has its score, flags meant to be kept apart come together in three named cases only, a deferred anomaly is reported | some 14,000 spans in six families: which fields there are, how the tools compare (at, above and below both thresholds), what the payloads hold, what the prompt says, tools of one name, tools that are no objects |
| `TraceAnalyzer` | parts report nothing new and miss only what a border cuts | all traces of up to 5 spans of 4 kinds, which is the first length `conversation_reset` judges; default thresholds |
| `DetailPanel` | the invariants of `Diagnosis` below a panel; a settled panel shows something; requests and skeletons end | 2 POSTs and a GET: a click beside a load, two clicks, or a click and another user |
| `SpanListing` | a list paged from one request is in order; a span missing from it began when a row shown did, fell to the flag filter that cut a page, or was left behind by the time window; a settled page shows the list of its filters; skeletons end | 4 spans in pages of 2, two of them with one time across the border of a page, one stored late, one that begins ahead of the clock; 2 filters; 4 requests; one session that runs out |
| `SpanViews` | statuses were true, "no spans yet" is outdated, paging misses no trace that stayed in place, the panel shows the selection | 4 spans of 3 traces, one trace a page, two traces with one start time, one late row that moves its trace; 2 requests of the panel |
| `TenantDeletion` | accounts are whole, an email has one user, leftovers were in flight | 2 clients with one email, 2 spans, one of which gets into the worker's queue (`Analysable`) and one of which is diagnosed, one S3 name a page, 2 runs of the script, any call of which fails |

`MaxStarts`, `MaxFailures`, `MaxSpans`, `MaxRequests`, `MaxNow`, `MaxRuns`,
`LastExpiring`, the sets `Late`, `Flaggable`, `Analysed`, `Announced`, `Analysable` and `Diagnosable`, and
the sets of rows, spans, clients and requests are the only bounds; they appear
in guards or as sizes of sets. In `SpanListing` the user stops early enough
(`UserActs`) for each open request to be refreshed once, so the bound never
stops an answer. In `SpanViews` one reader is followed at a time: readers change
nothing in the stores, so they do not affect each other. Type invariants are
proved (section 4), and left out of the runs where they are.

### Fairness

* *Event loop* (`SpanBatcher`): ready coroutines run, threads end and time
  passes, so each is weakly fair. `Get` is strongly fair: a new deadline
  re-enables it and a waiting row is taken on the next turn of the loop, long
  before a whole interval is over. Starts, stops and kills are never forced.
* *Worker*: the thread and the clock go on; nothing makes spans arrive, rows
  appear, or exceptions stop.
* *Pipeline*: additionally what is due happens before the clock moves.
* *Diagnosis*: the Presenter's own steps and its timeout are fair. Nothing is
  assumed of Diagnosticer, LLM or connection; the timeout alone makes
  `RequestIsAnswered` hold. For the panel, answers arrive.
* *SpanListing*: a request that is under way is answered (`Answer(i)` is
  weakly fair), be it with an error. Nothing is assumed of user, writers or
  time.
* `Ingestion`, `SpanChecks`, `TraceAnalyzer`, `SpanViews` and `TenantDeletion`
  are checked for safety only.

## 4. Proofs

All are for arbitrary constants and any number of steps, from the assumptions
on constants that the modules name. Each module proves that an invariant `IInv`
holds initially and is kept by every action, one lemma per action or group of
actions, and draws its theorems from it. TLC checked the invariants first, on
the instances of section 3 where it can enumerate them.

**Ingestion_proofs.** Batcher first. `AtMostOneCopy` is not inductive: a row is
stored once because it is in one place. `IInv` is `TypeOK`, *Owners* (which
activity can hold which insert), *OnePlace* (a row is in the queue, in the
buffer, in `rows` or in one running insert, and then not stored) and
`AtMostOneCopy`. From it follow `SpecTypeOK`, `SpecAtMostOneCopy` and
`SpecImplementsRowSink`: each step maps to a step of the sink or a stutter.
`SpecFlushedInTime` needs that deadline and age add up to the interval at most
(*TimeInv*), `SpecFirstInFirstFlushed` that what was accepted is what has left
followed by buffer and queue (*FifoInv*), `SpecStopLosesOneBatchAtMost` a set of
one batch at most that holds every row a shutdown can still lose in silence
(*LossInv*).

What happens inside the batcher is not proved again for the handlers:
`HandlersRunBatcher` shows that a behaviour of the handlers is one of the
batcher, so all of this holds there. *HandlerInv* ties the position of a handler
to payloads, batcher and Redis; `SpecServerTypeOK`, `SpecPayloadsBeforeRow`,
`SpecQueuedOnceAfterAdd` and `SpecAnswerMatchesStores` follow.

**Pipeline_proofs.** `SpecGivenUpHasCause` compares two clocks. *BudgetInv*:
the ticks a row the worker asks for may still need until its insert ends
(`QueueWait`, `BufferWait`) are fewer than the ticks the worker will still sleep
before its last try (`Budget`, a sum of the sleeps left). A tick takes one of
each, and no other step makes a row wait longer; `TriesOutlastFlush` makes it
true when the worker's first try starts. The attempt showed that this is false
of a row with a whole batch queued before it: it waits for as many inserts as
there are batches, and no number of tries covers that. Such rows are the
`backlogged` of the property; *BacklogInv* says that no others are so far back.
`PipelineRunsBatcher` carries the batcher's theorems over.

**Worker_proofs.** A span is in one place: not yet pushed, in Redis, in the
thread, or in the buffer of its own trace; *OnceInv* says of each place what has
been done with the span already, *QueueInv* that an id is queued once,
*ThreadInv* what the position of the thread says of its locals, *ScoresInv*
which scores may be in an analyzer's memory. `SpecFlagsAtMostOnce` and
`SpecAnalysedAtMostOnce` follow for any tenants, traces, tries, exceptions and
restarts, with `SpecBuffersAgree` and `SpecForeignScoresWereLeftBehind`. That a
trace entry has spans of one trace only needs no assumption on tenants: the
buffer is keyed by trace.

**DetailPanel_proofs.** The service first. An answer is judged by what the table held and the table
by what jobs did. `IInv` has *JobInv* (a committed row belongs to a finished
job and has its `created_at`; a job that answered has a row), *StepInv* (how
far a job can be, given its request) and *AnswerInv* (what an answer showed
against what its request could see). `SpecPostShowsOwnOrNewer`,
`SpecReadsNeverGoBack` and `SpecOneRowPerPost` follow, for any number of
requests, kills and lost answers.

`PanelImplementsDiagnosis`: panel and service together are a behaviour of the
service, so all of this holds below the panel (`PanelReadsNeverGoBack`). `PanelSettlesDecided` needs that a blank display has
a click pending (`PanelInv`), on top of the service's `IInv`.

**SpanListing_proofs.** `SpecSettledListIsCurrent` needs to know who the last
request for a list is: `ListInv` says that there is one (`LastList`), that it
carries the filters of the page, and that it is either still open or was
answered, its rows then being shown unless an older answer came after it.
Filter changes, refreshes and remounts each make a new last request.
*ListingInv* is about the rows: a request for more continues at the cursor of
the page it was sent from and at most one is open, an answered page is in
descending order and holds every known row between its ends that has no cause to
be missing, and the rows shown are such pages one after the other.
`SpecRowsInOrder` and `SpecMissingSpanHasCause` follow for any times, filters and
page size. Both speak of lists paged from one request; of rows appended to
another list they say nothing (section 5).

**SpanViews_proofs.** *StoreInv* orders what the worker writes (flags after
scores after rows), *ReadInv* bounds what a request has read by what there is,
*WasInv* is the heart of `SpecStatusWasTrue`: a flag that was missed by the first
read means the span was "clean" or "pending" then, and once the scores are read
the status to be given has been noted. `SpecSpanlessTraceIsOutdated` uses
*StoreInv* alone; `SpecPanelShowsSelection` that the latest request of the panel
is for the selected span. `SpecMissedTraceMeansLateSpan` counts: as long as
nothing moved, a trace that was listed and not seen has at least as many traces
before it as the offset says, so it cannot be missing when a page is empty. The
attempt showed two more causes than the property named at first: a trace that
began at the same time (the order is by start time alone, and two queries may
order equals differently), and a late span that moves any other trace.

**TenantDeletion_proofs.** `SpecAccountsAreWhole` and `SpecEmailHasOneOwner`
rest on what an unfinished registration and an uncommitted deletion hold
(*RegistrationInv*, *TransactionInv*: parents go last, and only with all their
children). `SpecLeftoverWasInFlight` follows a span that was not in flight
through the stores: its row is in a submitted mutation, its PostgreSQL rows are
in the transaction for every table the script is through with, and its payloads
are behind the last page of names; the last uses that a non-empty page takes the
least names there are. What can still write is in `InFlight`, the worker's tries
and its trace buffer included: without `popped`, or without `traced`, TLC finds a
span whose rows survive a completed deletion it was never counted in.

**Checks_proofs.** For one span, *PassedInv* says what a check leaves behind
once it is over and *FlagInv* under which condition a flag was raised; with them
`SpecPendingOnlyIfBare`, `SpecFlagsAreScored`, `SpecOneReportPerSymptom` and
`SpecDeferredAnomalyIsReported` hold for any span and thresholds.
`OneReportPerSymptom` has every pair of flags that a comment or a guard keeps
apart, and three exceptions, `Tolerated`, for the pairs that do come together
(section 5); the theorem says that there are no more. For a trace,
each local check is shown to agree on a sequence of spans and on a longer one
around it (`Agree`): a finding of the part is one of the whole, and one of the
whole that rests on spans of the part is one of the part. `TraceInv` adds that
the buffer is the end of the trace and that a part analysed is a run of it whose
flags were written; `SpecPartsReportNothingNew` and `SpecOnlyBordersHideFindings`
follow for any texts, scores, thresholds and length. The attempt showed that the
second is false of a part of one span where one call counts as a loop
(`termination_loop_n = 1`, which the environment may set): such a part is not
searched, and the property says so (`LoneCall`).

**Model-checked only.** Liveness (`EveryRowIsSettled`, `QueuedIsDecided`,
`PoppedSpanIsDoneWith`, `BufferedTraceIsFlushed`, `RequestIsAnswered`,
`LoadingEnds`): fairness and ENABLED are beyond the prover. Every invariant that
a passing run checks has a theorem.

## 5. Where code and documentation disagree

Two runs show a violation:

* `worker/main.py:131`: scores left behind by an exception are written with the
  next span (`Worker_scores`).
* `worker/main.py:236`: the trace buffer is keyed by trace id alone
  (`Worker_tenants`).

Seen while modelling, without a run of their own:

* `tool_call_analyzer.py:370` skips the arguments "if the tool itself is wrong
  (wrong_tool_choice territory)". The guard at `:383` asks whether the
  description of the called tool fits the prompt, not whether a better tool was
  offered, so `wrong_tool_choice` and `wrong_tool_args` can both be flagged. And
  `:353` does not ask for a tool name: a span with arguments and no tool can be
  flagged `no_tool` and `wrong_tool_args`. `OneReportPerSymptom` names both
  (`Tolerated`).
* `tool_call_analyzer.py:616` defers to `wrong_tool_choice` "when a clearly better
  tool existed". Where two tools offered have one name, that check ranks the more
  similar of the two (`:248`) and this one looks at the last of the list (`:620`):
  the symptom can then be reported twice, or by neither. `OneReportPerSymptom` and
  `DeferredAnomalyIsReported` name the case (`Namesakes`).
* An element of `available_tools` that is no object stops the analysis of its span
  with an AttributeError (`tool_call_analyzer.py:192`, `:177`), as unusual JSON
  does in `output_schema_analyzer.py:124`.
* `worker/main.py:91`: a stop drops the traces still in the buffer;
  `BufferedTraceIsFlushed` promises a flush only while the worker runs.
* `scripts/delete_tenant.py:299` prints that the tenant's data is removed. What a
  running worker, batcher, handler or Diagnosticer had in hand may be written
  after that, a trace as late as its flush 30 s after the last span; the script
  has to be run again (`LeftoverWasInFlight` says that nothing else is left).
* `app/spans/page.tsx:47` and `:87` (under `src/services/view/src`): an older answer
  that comes last is kept, and rows asked for with "Load more" are appended to
  whatever list is there by then. `SettledListIsCurrent` and `RowsInOrder` exclude
  these two cases by name.

* `batch.py:101` promises that `stop()` flushes the remaining rows; the rows in
  the flush loop's buffer die with it. At most one batch is lost
  (`StopLosesOneBatchAtMost`).
* `ingest.py:22`: an id reaches Redis before its row reaches ClickHouse. What
  does hold is `QueuedOnceAfterAdd`. A span whose LPUSH fails is stored although
  `queue.py:12` says it is dropped.
* `worker/main.py:228` waits for a row "not in ClickHouse yet" with sleeps of 5
  and 10 s. They outlast a flush, but not a queue of more than a batch before the
  row: such a span is given up and stored afterwards, and never analysed
  (`GivenUpHasCause`).
* `worker/main.py:242` takes any `ValueError` for a span that is not stored yet,
  tiktoken's refusal of a special token and a JSON error as well: such a span is
  tried three times and dropped.
* Bare spans, and spans whose analysis raised, have no score and stay "pending"
  for ever (`routers/spans.py:26`; `PendingOnlyIfBare`).
* `trace_analyzer.py:132`: a ratio of 0 to 1 against a threshold of 85.0, so a
  verbatim copy is not stale. `trace_analyzer.py:392` speaks of a calibrated
  threshold for `information_withholding` that the code does not read.
  `prev_score` starts at 1.0 (`trace_analyzer.py:455`), so the first span
  `conversation_reset` judges counts as a drop whatever came before it;
  `generate_labelled_fixture.py:1176` labels traces of three spans with
  `conversation_reset`, which judges the fifth span first.
* The registry's path to OpenAI's arguments is looked up at the top level of
  the raw response, where it never is: the check for arguments encoded twice
  cannot fire for those models.
* `diagnosis_service.py:6` and `routers/diagnose.py:6` describe an idempotent
  trigger with a cached result, while every POST runs a new job.
  `shared/dal/diagnoses.py:51` accepts the verdict "undetermined" that the CHECK
  of the table refuses. In the panel the last answer wins, not the newest
  diagnosis (`SpanDetailPanel.tsx:97`).
* `routers/spans.py:17` announces 502 and no partial data when S3 fails; only a
  timeout is an error (504), any other failure gives 200 with null payloads
  (`spans.py:485`).
* `routers/traces.py:164` orders traces by start time alone: traces that began
  together may change places between two pages, and one of them is missed
  (`MissedTraceMeansLateSpan`).
* `routers/traces.py` speaks of concurrent queries that run one after the other.
  The duration in the list is that of the latest `time_end` (`traces.py:89`), the
  one in the detail that of the span that began last (`traces.py:359`).
* Two registrations that race get 200 and 500, where `routers/auth.py:129` says 409.
* The traces page shows the first 50 traces and has no way to the next; a
  span tree whose parents form a cycle shows none of them.

## 6. Plan

Done, in the order of importance: (1) `SpanBatcher` with `RowSink`;
(2) `Ingestion`; (3) `Worker`; (4) `Pipeline`; (5) `Diagnosis` and
`DetailPanel`; (6) `TraceAnalyzer`; (7) `SpanListing` with sessions and the
request wrapper; (8) `SpanViews`; (9) `TenantDeletion` with registration, login
and API keys; (10) `SpanChecks` with the registry. Every safety invariant of a
passing run is proved.

Left: the durations and totals of the trace pages; the context assembly of the
Diagnosticer, as a bound on what it reads of a trace that is still growing; type
correctness of `Pipeline` and of the views as theorems of their own.

## 7. Not modelled

* The LLM providers are one external call each, without state or retry, whose
  outcome `Diagnosis` leaves open.
* The SDK sends each span once from a thread of its own and keeps nothing;
  `Ingestion` takes a span as posted at most once.
* Migrations, seeding, fixtures, calibration, validation and load tests are run
  by hand on a quiet system; DDL appears where a constraint decides something
  (the unique email, the foreign keys that order the deletion).
* Row-level security and the tenant of a session appear as the owner of a row;
  that every query has its tenant filter is not a property of interleavings.
* Passwords, signatures and hashes are taken to be right.
* Totals, durations, and the response fields that are copied; tables, badges
  and the tree of the dashboard, which only render.
* In `Diagnosis` the context assembly is one read; the internal key between the
  two services is not modelled.
