---------------------------- MODULE Worker_proofs ----------------------------
(***************************************************************************)
(* The worker does everything once: for any spans, tenants, traces, number *)
(* of analyzers and tries, exceptions, kills and restarts.  A span is in   *)
(* one place (the queue, the thread, the buffer of its own trace), and in  *)
(* each place it is known what has already been done with it.              *)
(***************************************************************************)
EXTENDS Worker, SequenceTheorems, TLAPS

Writing == {"trace scores", "trace flags"}

\* What the position of the thread says of its local variables.
ThreadInv ==
    /\ pc \in Busy => work.span \in Spans
    /\ pc = "fetch" => work.next = 1
    /\ pc = "analyze" => work.next <= ANALYZERS
    /\ pc = "sleep" => work.attempt + 1 < ATTEMPTS
    /\ pc \in Writing => flushing.tid \in DOMAIN trace_buffer \ flushing.ready

\* A span nobody has popped, and one somewhere in the buffer.
Waiting(s) == s \notin enqueued \/ s \in ToSet(analysis_queue)
Buffered(s) == \E t \in DOMAIN trace_buffer : s \in ToSet(trace_buffer[t])

\* An id is queued once.
QueueInv ==
    /\ ToSet(analysis_queue) \subseteq enqueued
    /\ \A i, j \in DOMAIN analysis_queue : analysis_queue[i] = analysis_queue[j] => i = j

\* Nothing has been done with a span that waits; the one at work has not been
\* analysed with its trace, nor its flags written before it goes to the buffer;
\* and a buffered one has been analysed only if its trace is being written.
OnceInv ==
    /\ \A s \in Spans : Waiting(s) => analysed[s] = 0 /\ flagWrites[s] = 0 /\ ~Buffered(s)
    /\ pc \in Busy => ~Waiting(work.span) /\ analysed[work.span] = 0 /\ ~Buffered(work.span)
    /\ pc \in Busy \ {"buffer"} => flagWrites[work.span] = 0
    /\ \A t \in DOMAIN trace_buffer : \A s \in ToSet(trace_buffer[t]) :
          analysed[s] = 0 \/ (pc \in Writing /\ t = flushing.tid)

\* A score in memory is of the span or trace at work, or was left behind.
ScoresInv ==
    /\ \A a \in 1 .. TraceA : pending[a] \subseteq raised
    /\ pc \in Busy => work.scores \subseteq raised \union {work.span}
    /\ pc \in Writing => flushing.scores \subseteq raised \union {Head(trace_buffer[flushing.tid])}

IInv == /\ TypeOK /\ ThreadInv /\ BuffersAgree
        /\ QueueInv /\ OnceInv /\ FlagsAtMostOnce /\ AnalysedAtMostOnce
        /\ ScoresInv /\ ForeignScoresWereLeftBehind
-----------------------------------------------------------------------------
LEMMA NextCases ==
    ASSUME [Next]_vars
    PROVE  \/ \E s \in Spans : Enqueue(s) \/ Store(s)
           \/ Tick \/ Start \/ Signal \/ Crash \/ LoopExit \/ LoopTop \/ Pop \/ Idle
           \/ Fetch \/ FetchMisses \/ FetchRaises \/ Analyze \/ AnalyzeRaises
           \/ WriteScores \/ WriteScoresRaises \/ WriteFlags \/ WriteFlagsRaises \/ Buffer \/ Wake
           \/ TraceAnalyze \/ TraceAnalyzeRaises
           \/ TraceWriteScores \/ TraceWriteFlags \/ TraceWriteRaises \/ FlushDone
           \/ UNCHANGED vars
BY DEF Next, Thread, ProcessSpan, FlushTraces

\* The places of the thread are different strings.
LEMMA Places ==
    /\ Busy = {"fetch", "analyze", "scores", "flags", "buffer", "sleep"}
    /\ Writing \subseteq Flushing /\ Writing \cap Busy = {}
    /\ Flushing \cap Busy = {}
    /\ {"off", "top", "brpop"} \cap (Busy \union Flushing) = {}
BY DEF Busy, Writing, Flushing

\* What a queue holds after a push and after a pop.
LEMMA QueueFacts ==
    ASSUME NEW q \in Seq(Spans)
    PROVE  /\ \A s \in Spans : /\ Append(q, s) \in Seq(Spans)
                               /\ ToSet(Append(q, s)) = ToSet(q) \union {s}
           /\ q # <<>> => /\ Head(q) \in Spans /\ Head(q) \in ToSet(q)
                          /\ Tail(q) \in Seq(Spans)
                          /\ ToSet(q) = ToSet(Tail(q)) \union {Head(q)}
<1>1. ASSUME NEW s \in Spans
      PROVE  Append(q, s) \in Seq(Spans) /\ ToSet(Append(q, s)) = ToSet(q) \union {s}
  <2>1. /\ Append(q, s) \in Seq(Spans)
        /\ DOMAIN Append(q, s) = DOMAIN q \union {Len(q) + 1}
        /\ Append(q, s)[Len(q) + 1] = s
        /\ \A i \in DOMAIN q : Append(q, s)[i] = q[i]
    BY AppendProperties, LenProperties
  <2>2. QED BY <2>1 DEF ToSet
<1>2. ASSUME q # <<>>
      PROVE  /\ Head(q) \in Spans /\ Head(q) \in ToSet(q)
             /\ Tail(q) \in Seq(Spans)
             /\ ToSet(q) = ToSet(Tail(q)) \union {Head(q)}
  <2>1. /\ Head(q) \in Spans /\ Tail(q) \in Seq(Spans)
        /\ Len(Tail(q)) = Len(q) - 1
        /\ \A i \in 1 .. Len(Tail(q)) : Tail(q)[i] = q[i + 1]
    BY <1>2, HeadTailProperties
  <2>4. /\ Len(q) \in Nat /\ DOMAIN q = 1 .. Len(q) /\ Len(q) # 0
        /\ DOMAIN Tail(q) = 1 .. Len(q) - 1
    BY <1>2, <2>1, LenProperties, EmptySeq
  <2>5. Head(q) = q[1]
    BY <1>2, <2>4
  <2>2. \A i \in 1 .. Len(q) : i = 1 \/ (i - 1 \in 1 .. Len(q) - 1 /\ Tail(q)[i - 1] = q[i])
    BY <2>1, <2>4
  <2>6. ASSUME NEW i \in DOMAIN q
        PROVE  q[i] \in ToSet(Tail(q)) \union {Head(q)}
    <3>1. CASE i = 1
      BY <2>5, <3>1
    <3>2. CASE i # 1
      <4>1. i - 1 \in DOMAIN Tail(q) /\ Tail(q)[i - 1] = q[i]
        BY <2>2, <2>4, <3>2
      <4>2. QED BY <4>1 DEF ToSet
    <3>3. QED BY <3>1, <3>2
  <2>7. \A i \in DOMAIN Tail(q) : i + 1 \in DOMAIN q /\ Tail(q)[i] = q[i + 1]
    BY <2>1, <2>4
  <2>8. ToSet(Tail(q)) \subseteq ToSet(q)
    BY <2>7 DEF ToSet
  <2>9. ToSet(q) \subseteq ToSet(Tail(q)) \union {Head(q)}
    BY <2>6, Zenon DEF ToSet
  <2>10. Head(q) \in ToSet(q)
    BY <2>4, <2>5 DEF ToSet
  <2>11. QED BY <2>1, <2>8, <2>9, <2>10
<1>3. QED BY <1>1, <1>2

\* TypeOK in the parts that the actions change together.
StoreType ==
    /\ analysis_queue \in Seq(Spans)
    /\ inClickHouse \in SUBSET Spans
    /\ enqueued \in SUBSET Spans
LifeType ==
    /\ pc \in Busy \union Flushing \union {"off", "top", "brpop"}
    /\ running \in BOOLEAN
    /\ starts \in 0 .. MaxStarts
    /\ failures \in 0 .. MaxFailures
WorkType ==
    /\ work \in [span : Spans \union {NoSpan}, attempt : 0 .. ATTEMPTS - 1,
                 next : 1 .. TraceA, scores : SUBSET Spans, flagged : BOOLEAN]
    /\ sleepLeft \in Nat
    /\ flagWrites \in [Spans -> Nat]
ScoreType ==
    /\ pending \in [1 .. TraceA -> SUBSET Spans]
    /\ span_scores \in SUBSET ScoreRow
    /\ raised \in SUBSET Spans
BufferType ==
    /\ DOMAIN trace_buffer \subseteq Traces
    /\ trace_buffer \in [DOMAIN trace_buffer -> Seq(Spans)]
    /\ trace_last_seen \in [DOMAIN trace_last_seen -> 0 .. TRACE_TIMEOUT]
TraceType ==
    /\ flushing \in [ready : SUBSET Traces, tid : Traces \union {NoSpan},
                     scores : SUBSET Spans, flagged : BOOLEAN]
    /\ traceRows \in SUBSET TraceRow
    /\ analysed \in [Spans -> Nat]

LEMMA TypeParts ==
    TypeOK <=> StoreType /\ LifeType /\ WorkType /\ ScoreType /\ BufferType /\ TraceType
BY DEF TypeOK, StoreType, LifeType, WorkType, ScoreType, BufferType, TraceType

LEMMA StoreTypeStep == StoreType /\ [Next]_vars => StoreType'
<1> SUFFICES ASSUME StoreType, [Next]_vars PROVE StoreType'
  OBVIOUS
<1>1. CASE \E s \in Spans : Enqueue(s) \/ Store(s)
  BY <1>1, QueueFacts DEF Enqueue, Store, StoreType
<1>2. CASE Pop
  BY <1>2, QueueFacts DEF Pop, StoreType
<1>3. CASE UNCHANGED storeVars
  BY <1>3 DEF storeVars, StoreType
<1>4. \/ \E s \in Spans : Enqueue(s) \/ Store(s)
      \/ Pop \/ UNCHANGED storeVars
  BY NextCases, Zenon DEF Tick, Start, Signal, Crash, LoopExit, ProcessEnds, LoopTop, Idle,
     Fetch, FetchMisses, FetchRaises, Analyze, AnalyzeRaises, WriteScores, WriteScoresRaises,
     WriteFlags, WriteFlagsRaises, Buffer, Wake, TraceAnalyze, TraceAnalyzeRaises,
     TraceWriteScores, TraceWriteFlags, TraceWriteRaises, FlushDone, vars
<1>5. QED BY <1>1, <1>2, <1>3, <1>4

LEMMA FailFact ==
    ASSUME LifeType, Fail
    PROVE  failures' \in 0 .. MaxFailures
BY WorkerAssumption DEF LifeType, Fail

\* An exception during a try sends the thread to sleep or back to the top.
LEMMA AfterException ==
    ASSUME RetryOrGiveUp \/ GiveUp
    PROVE  /\ pc' \in {"top", "sleep"}
           /\ sleepLeft' \in {sleepLeft, (work.attempt + 1) * BACKOFF}
           /\ pc' = "sleep" => work.attempt + 1 < ATTEMPTS
BY DEF RetryOrGiveUp, GiveUp

LEMMA LifeTypeStep == LifeType /\ [Next]_vars => LifeType'
<1> SUFFICES ASSUME LifeType, [Next]_vars PROVE LifeType'
  OBVIOUS
<1> USE DEF LifeType, lifeVars, errorVars, Busy, Flushing
<1>1. CASE \E s \in Spans : Enqueue(s) \/ Store(s)
  BY <1>1 DEF Enqueue, Store
<1>2. CASE Start
  BY <1>2, WorkerAssumption DEF Start
<1>3. CASE Signal
  BY <1>3 DEF Signal
<1>4. CASE Crash \/ LoopExit
  BY <1>4 DEF Crash, LoopExit, ProcessEnds
<1>5. CASE LoopTop \/ Pop \/ Idle
  BY <1>5 DEF LoopTop, Pop, Idle, EnterFlush
<1>6. CASE Fetch \/ FetchMisses
  BY <1>6 DEF Fetch, FetchMisses, RetryOrGiveUp
<1>7. CASE FetchRaises
  <2>1. (RetryOrGiveUp \/ GiveUp) /\ Fail /\ UNCHANGED lifeVars
    BY <1>7, Zenon DEF FetchRaises
  <2>2. QED BY <2>1, FailFact, AfterException
<1>8. CASE Analyze
  BY <1>8 DEF Analyze
<1>9. CASE AnalyzeRaises
  <2>1. (RetryOrGiveUp \/ GiveUp) /\ Fail /\ UNCHANGED lifeVars
    BY <1>9, Zenon DEF AnalyzeRaises
  <2>2. QED BY <2>1, FailFact, AfterException
<1>10. CASE WriteScores
  BY <1>10 DEF WriteScores, AfterScores
<1>11. CASE WriteScoresRaises
  BY <1>11, WorkerAssumption DEF WriteScoresRaises, GiveUp, Fail
<1>12. CASE WriteFlags
  BY <1>12 DEF WriteFlags
<1>13. CASE WriteFlagsRaises
  <2>1. (RetryOrGiveUp \/ GiveUp) /\ Fail /\ UNCHANGED lifeVars
    BY <1>13, Zenon DEF WriteFlagsRaises
  <2>2. QED BY <2>1, FailFact, AfterException
<1>14. CASE Buffer \/ Wake
  BY <1>14 DEF Buffer, Wake, EnterFlush
<1>15. CASE TraceAnalyze
  BY <1>15 DEF TraceAnalyze
<1>16. CASE TraceAnalyzeRaises
  BY <1>16, WorkerAssumption DEF TraceAnalyzeRaises, Fail
<1>17. CASE TraceWriteScores
  BY <1>17 DEF TraceWriteScores, NextTrace
<1>18. CASE TraceWriteFlags
  BY <1>18 DEF TraceWriteFlags, NextTrace
<1>19. CASE TraceWriteRaises
  <2>1. Fail /\ NextTrace /\ UNCHANGED lifeVars
    BY <1>19, Zenon DEF TraceWriteRaises
  <2>2. QED BY <2>1, FailFact DEF NextTrace
<1>20. CASE Tick \/ FlushDone
  BY <1>20 DEF Tick, FlushDone
<1>21. CASE UNCHANGED vars
  BY <1>21 DEF vars
<1>22. QED BY NextCases, <1>1, <1>2, <1>3, <1>4, <1>5, <1>6, <1>7, <1>8, <1>9, <1>10, <1>11,
              <1>12, <1>13, <1>14, <1>15, <1>16, <1>17, <1>18, <1>19, <1>20, <1>21

LEMMA WorkTypeStep ==
    WorkType /\ StoreType /\ ScoreType /\ LifeType /\ ThreadInv /\ [Next]_vars => WorkType'
<1> SUFFICES ASSUME WorkType, StoreType, ScoreType, LifeType, ThreadInv, [Next]_vars
             PROVE  WorkType'
  OBVIOUS
<1>0. ATTEMPTS \in Nat \ {0} /\ ANALYZERS \in Nat \ {0} /\ BACKOFF \in Nat /\ TraceA = ANALYZERS + 1
  BY WorkerAssumption DEF TraceA
<1> DEFINE Try(s, n) == [Nobody EXCEPT !.span = s, !.attempt = n]
           WorkSet == [span : Spans \union {NoSpan}, attempt : 0 .. ATTEMPTS - 1,
                       next : 1 .. TraceA, scores : SUBSET Spans, flagged : BOOLEAN]
<1>a. Nobody \in WorkSet /\ Nobody.span = NoSpan
  BY <1>0 DEF Nobody
<1>b. \A s \in Spans, n \in 0 .. ATTEMPTS - 1 : [Nobody EXCEPT !.span = s] \in WorkSet /\ Try(s, n) \in WorkSet
  BY <1>a
<1>1. CASE Tick
  BY <1>1 DEF Tick, WorkType
<1>2. CASE Crash \/ LoopExit
  <2>1. work' = Nobody /\ sleepLeft' = 0 /\ UNCHANGED flagWrites
    BY <1>2, Zenon DEF Crash, LoopExit, ProcessEnds
  <2>2. QED BY <1>a, <2>1 DEF WorkType
<1>3. CASE Pop
  <2>1. /\ work' = [Nobody EXCEPT !.span = Head(analysis_queue)] /\ UNCHANGED <<sleepLeft, flagWrites>>
        /\ Head(analysis_queue) \in Spans
    BY <1>3, QueueFacts DEF Pop, StoreType
  <2>2. QED BY <1>0, <1>b, <2>1 DEF WorkType
<1>4. CASE FetchMisses \/ FetchRaises \/ AnalyzeRaises
  <2>1. (RetryOrGiveUp \/ GiveUp) /\ UNCHANGED <<work, flagWrites>>
    BY <1>4, Zenon DEF FetchMisses, FetchRaises, AnalyzeRaises
  <2>2. QED BY <1>0, <2>1, AfterException DEF WorkType
<1>5. CASE Analyze
  <2>1. PICK logged \in SUBSET {work.span}, flagged \in BOOLEAN :
            work' = [work EXCEPT !.next = @ + 1,
                                 !.scores = @ \union pending[work.next] \union logged,
                                 !.flagged = @ \/ flagged]
    BY <1>5 DEF Analyze
  <2>2. work.span \in Spans /\ work.next + 1 \in 1 .. TraceA
    BY <1>0, <1>5 DEF Analyze, ThreadInv, WorkType, Busy
  <2>3. (work.scores \union pending[work.next] \union logged) \in SUBSET Spans
    BY <2>2 DEF ScoreType, WorkType
  <2>4. (work.flagged \/ flagged) \in BOOLEAN
    OBVIOUS
  <2>5. UNCHANGED <<sleepLeft, flagWrites>>
    BY <1>5 DEF Analyze
  <2>6. QED BY <2>1, <2>2, <2>3, <2>4, <2>5 DEF WorkType
<1>6. CASE WriteScores \/ WriteScoresRaises
  BY <1>6 DEF WriteScores, WriteScoresRaises, GiveUp, spanVars, WorkType
<1>7. CASE WriteFlags
  <2>1. UNCHANGED <<work, sleepLeft>> /\ flagWrites' = [flagWrites EXCEPT ![work.span] = @ + 1]
    BY <1>7, Zenon DEF WriteFlags
  <2>2. work.span \in Spans
    BY <1>7 DEF WriteFlags, ThreadInv, Busy
  <2>3. [flagWrites EXCEPT ![work.span] = @ + 1] \in [Spans -> Nat]
    BY <2>2 DEF WorkType
  <2>4. QED BY <2>1, <2>3 DEF WorkType
<1>8. CASE WriteFlagsRaises
  <2>1. /\ RetryOrGiveUp \/ GiveUp
        /\ UNCHANGED work
        /\ flagWrites' \in {flagWrites, [flagWrites EXCEPT ![work.span] = @ + 1]}
    BY <1>8, Zenon DEF WriteFlagsRaises
  <2>2. QED BY <1>0, <2>1, AfterException DEF WorkType
<1>9. CASE Buffer
  BY <1>0, <1>9 DEF Buffer, Nobody, WorkType
<1>10. CASE Wake
  <2>1. /\ work' = Try(work.span, work.attempt + 1) /\ UNCHANGED <<sleepLeft, flagWrites>>
    BY <1>10 DEF Wake
  <2>2. work.span \in Spans /\ work.attempt + 1 \in 0 .. ATTEMPTS - 1
    BY <1>0, <1>10 DEF Wake, ThreadInv, WorkType, Busy
  <2>3. Try(work.span, work.attempt + 1) \in WorkSet
    BY <1>b, <2>2
  <2>4. QED BY <2>1, <2>3 DEF WorkType
<1>11. CASE UNCHANGED spanVars
  BY <1>11 DEF spanVars, WorkType
<1>12. \/ Tick \/ Crash \/ LoopExit \/ Pop \/ FetchMisses \/ FetchRaises \/ Analyze \/ AnalyzeRaises
       \/ WriteScores \/ WriteScoresRaises \/ WriteFlags \/ WriteFlagsRaises \/ Buffer \/ Wake
       \/ UNCHANGED spanVars
  BY NextCases, Zenon DEF Enqueue, Store, Start, Signal, LoopTop, Idle, Fetch, TraceAnalyze,
     TraceAnalyzeRaises, TraceWriteScores, TraceWriteFlags, TraceWriteRaises, FlushDone, spanVars, vars
<1>13. QED BY <1>1, <1>2, <1>3, <1>4, <1>5, <1>6, <1>7, <1>8, <1>9, <1>10, <1>11, <1>12

LEMMA ScoreTypeStep ==
    /\ ScoreType /\ WorkType /\ ThreadInv /\ BufferType /\ TraceType /\ BuffersAgree /\ [Next]_vars
    => ScoreType'
<1> SUFFICES ASSUME ScoreType, WorkType, ThreadInv, BufferType, TraceType, BuffersAgree, [Next]_vars
             PROVE  ScoreType'
  OBVIOUS
<1>0. ANALYZERS \in Nat \ {0} /\ TraceA = ANALYZERS + 1 /\ TenantOf \in [Spans -> Tenants]
  BY WorkerAssumption DEF TraceA
<1>1. CASE Crash \/ LoopExit
  BY <1>0, <1>1 DEF Crash, LoopExit, ProcessEnds, errorVars, ScoreType
<1>2. CASE Analyze
  BY <1>0, <1>2 DEF Analyze, errorVars, ScoreType
<1>3. CASE AnalyzeRaises
  <2>1. PICK logged \in SUBSET {work.span} :
            /\ pending' = [pending EXCEPT ![work.next] = @ \union logged]
            /\ raised' = raised \union logged
            /\ UNCHANGED span_scores
    BY <1>3 DEF AnalyzeRaises
  <2>2. logged \in SUBSET Spans
    BY <1>3 DEF AnalyzeRaises, ThreadInv, Busy
  <2>3. QED BY <2>1, <2>2 DEF ScoreType
<1>4. CASE WriteScores \/ WriteScoresRaises
  <2>1. SpanRows \subseteq ScoreRow
    BY <1>0, <1>4 DEF SpanRows, ScoreRow, WorkType, ThreadInv, Busy, WriteScores, WriteScoresRaises
  <2>2. span_scores' \in {span_scores, span_scores \union SpanRows} /\ UNCHANGED <<pending, raised>>
    BY <1>4 DEF WriteScores, WriteScoresRaises, errorVars
  <2>3. QED BY <2>1, <2>2 DEF ScoreType
<1>5. ASSUME NEW t \in DOMAIN trace_buffer
      PROVE  Head(trace_buffer[t]) \in Spans
  BY <1>5, QueueFacts DEF BufferType, BuffersAgree
<1>6. CASE TraceAnalyze
  BY <1>0, <1>6 DEF TraceAnalyze, errorVars, ScoreType
<1>7. CASE TraceAnalyzeRaises
  <2>1. PICK t \in flushing.ready :
            /\ \E logged \in SUBSET {Head(trace_buffer[t])} :
                  /\ pending' = [pending EXCEPT ![TraceA] = @ \union logged]
                  /\ raised' = raised \union logged
            /\ UNCHANGED span_scores
    BY <1>7 DEF TraceAnalyzeRaises
  <2>2. PICK logged \in SUBSET {Head(trace_buffer[t])} :
            /\ pending' = [pending EXCEPT ![TraceA] = @ \union logged]
            /\ raised' = raised \union logged
    BY <2>1
  <2>3. logged \in SUBSET Spans
    BY <1>5 DEF BuffersAgree
  <2>4. QED BY <1>0, <2>1, <2>2, <2>3 DEF ScoreType
<1>8. CASE TraceWriteScores \/ TraceWriteRaises
  <2>1. /\ span_scores' \in {span_scores, span_scores \union TraceScoreRows}
        /\ UNCHANGED <<pending, raised>>
        /\ pc \notin Writing => UNCHANGED span_scores
    BY <1>8 DEF TraceWriteScores, TraceWriteRaises, errorVars, Writing
  <2>2. CASE pc \in Writing
    <3>1. Owner(flushing.tid) \in Tenants
      BY <1>0, <1>5, <2>2 DEF Owner, ThreadInv
    <3>2. TraceScoreRows \subseteq ScoreRow
      BY <3>1 DEF TraceScoreRows, ScoreRow, TraceType
    <3>3. QED BY <2>1, <3>2 DEF ScoreType
  <2>3. QED BY <2>1, <2>2 DEF ScoreType
<1>9. CASE UNCHANGED <<pending, span_scores, raised>>
  BY <1>9 DEF ScoreType
<1>10. \/ Crash \/ LoopExit \/ Analyze \/ AnalyzeRaises \/ WriteScores \/ WriteScoresRaises
       \/ TraceAnalyze \/ TraceAnalyzeRaises \/ TraceWriteScores \/ TraceWriteRaises
       \/ UNCHANGED <<pending, span_scores, raised>>
  BY NextCases, Zenon DEF Enqueue, Store, Tick, Start, Signal, LoopTop, Pop, Idle, Fetch, FetchMisses,
     FetchRaises, WriteFlags, WriteFlagsRaises, Buffer, Wake, TraceWriteFlags, FlushDone,
     scoreVars, errorVars, vars
<1>11. QED BY <1>1, <1>2, <1>3, <1>4, <1>6, <1>7, <1>8, <1>9, <1>10

LEMMA BufferTypeStep ==
    BufferType /\ WorkType /\ ThreadInv /\ [Next]_vars => BufferType'
<1> SUFFICES ASSUME BufferType, WorkType, ThreadInv, [Next]_vars PROVE BufferType'
  OBVIOUS
<1>0. TRACE_TIMEOUT \in Nat /\ TraceOf \in [Spans -> Traces]
  BY WorkerAssumption
<1>1. CASE Tick
  BY <1>0, <1>1 DEF Tick, BufferType
<1>2. CASE Crash \/ LoopExit
  BY <1>2 DEF Crash, LoopExit, ProcessEnds, EmptyDict, BufferType
<1>3. CASE Buffer
  <2>1. work.span \in Spans /\ TraceOf[work.span] \in Traces
    BY <1>0, <1>3 DEF Buffer, ThreadInv, Busy
  <2>2. /\ trace_last_seen' = [u \in DOMAIN trace_last_seen \union {TraceOf[work.span]} |->
                                 IF u = TraceOf[work.span] THEN 0 ELSE trace_last_seen[u]]
        /\ trace_buffer' = [u \in DOMAIN trace_buffer \union {TraceOf[work.span]} |->
                               IF u # TraceOf[work.span] THEN trace_buffer[u]
                               ELSE IF u \in DOMAIN trace_buffer
                                    THEN Append(trace_buffer[u], work.span)
                                    ELSE <<work.span>>]
    BY <1>3, Zenon DEF Buffer
  <2>3. <<work.span>> \in Seq(Spans)
    BY <2>1
  <2>4. \A u \in DOMAIN trace_buffer : Append(trace_buffer[u], work.span) \in Seq(Spans)
    BY <2>1, QueueFacts DEF BufferType
  <2>5. trace_buffer' \in [DOMAIN trace_buffer' -> Seq(Spans)] /\ DOMAIN trace_buffer' \subseteq Traces
    BY <2>1, <2>2, <2>3, <2>4 DEF BufferType
  <2>6. trace_last_seen' \in [DOMAIN trace_last_seen' -> 0 .. TRACE_TIMEOUT]
    BY <1>0, <2>2 DEF BufferType
  <2>7. QED BY <2>5, <2>6 DEF BufferType
<1>4. ASSUME NEW t, Forget(t) PROVE BufferType'
  BY <1>4 DEF Forget, Restrict, BufferType
<1>5. CASE UNCHANGED bufferVars
  BY <1>5 DEF bufferVars, BufferType
<1>6. \/ Tick \/ Crash \/ LoopExit \/ Buffer \/ (\E t : Forget(t)) \/ UNCHANGED bufferVars
  BY NextCases, Zenon DEF Enqueue, Store, Start, Signal, LoopTop, Pop, Idle, Fetch, FetchMisses,
     FetchRaises, Analyze, AnalyzeRaises, WriteScores, WriteScoresRaises, WriteFlags,
     WriteFlagsRaises, Wake, TraceAnalyze, TraceAnalyzeRaises, TraceWriteScores, TraceWriteFlags,
     TraceWriteRaises, FlushDone, traceVars, vars
<1>7. QED BY <1>1, <1>2, <1>3, <1>4, <1>5, <1>6

LEMMA TraceTypeStep ==
    /\ TraceType /\ ScoreType /\ BufferType /\ ThreadInv /\ BuffersAgree /\ BufferType' /\ [Next]_vars
    => TraceType'
<1> SUFFICES ASSUME TraceType, ScoreType, BufferType, ThreadInv, BuffersAgree, BufferType', [Next]_vars
             PROVE  TraceType'
  OBVIOUS
<1>0. ANALYZERS \in Nat \ {0} /\ TraceA = ANALYZERS + 1 /\ TenantOf \in [Spans -> Tenants]
  BY WorkerAssumption DEF TraceA
<1>1. CASE Crash \/ LoopExit
  <2>1. flushing' = Nothing /\ UNCHANGED <<traceRows, analysed>>
    BY <1>1, Zenon DEF Crash, LoopExit, ProcessEnds
  <2>2. QED BY <2>1 DEF Nothing, TraceType
<1>2. CASE Idle
  BY <1>2 DEF Idle, EnterFlush, Nothing, BuffersAgree, BufferType, TraceType
<1>3. ASSUME NEW t \in DOMAIN trace_buffer
      PROVE  Head(trace_buffer[t]) \in Spans
  BY <1>3, QueueFacts DEF BufferType, BuffersAgree
<1>4. CASE Buffer
  <2>1. /\ flushing' = [Nothing EXCEPT !.ready = {t \in DOMAIN trace_last_seen' :
                                                     trace_last_seen'[t] >= TRACE_TIMEOUT}]
        /\ DOMAIN trace_last_seen' = DOMAIN trace_buffer'
        /\ UNCHANGED <<traceRows, analysed>>
    BY <1>4 DEF Buffer, EnterFlush, BuffersAgree
  <2>2. QED BY <2>1 DEF Nothing, BufferType, TraceType
<1>5. ASSUME NEW t, Count(t) PROVE analysed' \in [Spans -> Nat]
  BY <1>5 DEF Count, TraceType
<1>6. CASE TraceAnalyze
  <2>1. PICK t \in flushing.ready, flagged \in BOOLEAN :
          /\ \E logged \in SUBSET {Head(trace_buffer[t])} :
                flushing' = [ready |-> flushing.ready \ {t}, tid |-> t,
                             scores |-> pending[TraceA] \union logged, flagged |-> flagged]
          /\ Count(t)
    BY <1>6 DEF TraceAnalyze
  <2>2. PICK logged \in SUBSET {Head(trace_buffer[t])} :
                flushing' = [ready |-> flushing.ready \ {t}, tid |-> t,
                             scores |-> pending[TraceA] \union logged, flagged |-> flagged]
    BY <2>1
  <2>3. logged \in SUBSET Spans /\ t \in Traces
    BY <1>3 DEF BuffersAgree, BufferType
  <2>4. (pending[TraceA] \union logged) \in SUBSET Spans
    BY <1>0, <2>3 DEF ScoreType
  <2>5. UNCHANGED traceRows
    BY <1>6 DEF TraceAnalyze
  <2>6. analysed' \in [Spans -> Nat]
    BY <1>5, <2>1
  <2>7. QED BY <2>2, <2>3, <2>4, <2>5, <2>6 DEF TraceType
<1>7. CASE TraceAnalyzeRaises
  <2>1. PICK t \in flushing.ready : Count(t) /\ flushing' = [flushing EXCEPT !.ready = @ \ {t}]
    BY <1>7 DEF TraceAnalyzeRaises
  <2>2. UNCHANGED traceRows
    BY <1>7 DEF TraceAnalyzeRaises
  <2>3. analysed' \in [Spans -> Nat]
    BY <1>5, <2>1
  <2>4. QED BY <2>1, <2>2, <2>3 DEF TraceType
<1>8. ASSUME NextTrace PROVE flushing' \in [ready : SUBSET Traces, tid : Traces \union {NoSpan},
                                            scores : SUBSET Spans, flagged : BOOLEAN]
  BY <1>8 DEF NextTrace, Nothing, TraceType
<1>9. CASE TraceWriteScores
  <2>1. (UNCHANGED flushing \/ NextTrace) /\ UNCHANGED <<traceRows, analysed>>
    BY <1>9, Zenon DEF TraceWriteScores
  <2>2. QED BY <1>8, <2>1 DEF TraceType
<1>10. CASE TraceWriteFlags \/ TraceWriteRaises
  <2>1. /\ NextTrace /\ UNCHANGED analysed
        /\ traceRows' \in {traceRows, traceRows \union {TraceFlagRow}}
        /\ pc = "trace flags" \/ UNCHANGED traceRows
    BY <1>10 DEF TraceWriteFlags, TraceWriteRaises
  <2>2. CASE pc = "trace flags"
    <3>1. /\ flushing.tid \in DOMAIN trace_buffer /\ Owner(flushing.tid) \in Tenants
          /\ flushing.tid \in Traces /\ trace_buffer[flushing.tid] \in Seq(Spans)
      BY <1>0, <1>3, <2>2 DEF ThreadInv, Writing, Owner, BufferType
    <3>2. TraceFlagRow \in TraceRow
      BY <3>1 DEF TraceFlagRow, TraceRow
    <3>3. QED BY <1>8, <2>1, <3>2 DEF TraceType
  <2>3. QED BY <1>8, <2>1, <2>2 DEF TraceType
<1>11. CASE FlushDone
  <2>1. flushing' = Nothing /\ UNCHANGED <<traceRows, analysed>>
    BY <1>11, Zenon DEF FlushDone
  <2>2. QED BY <2>1 DEF Nothing, TraceType
<1>12. CASE UNCHANGED <<flushing, traceRows, analysed>>
  BY <1>12 DEF TraceType
<1>13. \/ Crash \/ LoopExit \/ Idle \/ Buffer \/ TraceAnalyze \/ TraceAnalyzeRaises
       \/ TraceWriteScores \/ TraceWriteFlags \/ TraceWriteRaises \/ FlushDone
       \/ UNCHANGED <<flushing, traceRows, analysed>>
  BY NextCases, Zenon DEF Enqueue, Store, Tick, Start, Signal, LoopTop, Pop, Fetch, FetchMisses,
     FetchRaises, Analyze, AnalyzeRaises, WriteScores, WriteScoresRaises, WriteFlags,
     WriteFlagsRaises, Wake, traceVars, vars
<1>14. QED BY <1>1, <1>2, <1>4, <1>6, <1>7, <1>9, <1>10, <1>11, <1>12, <1>13

LEMMA TypeOKStep == TypeOK /\ ThreadInv /\ BuffersAgree /\ [Next]_vars => TypeOK'
BY TypeParts, StoreTypeStep, LifeTypeStep, WorkTypeStep, ScoreTypeStep, BufferTypeStep, TraceTypeStep, Zenon
   DEF TypeOK, StoreType, LifeType, WorkType, ScoreType, BufferType, TraceType
-----------------------------------------------------------------------------
LEMMA ThreadInvStep == TypeOK /\ ThreadInv /\ BuffersAgree /\ [Next]_vars => ThreadInv'
<1> SUFFICES ASSUME TypeOK, ThreadInv, BuffersAgree, [Next]_vars PROVE ThreadInv'
  OBVIOUS
<1> USE DEF ThreadInv
<1>0. ANALYZERS \in Nat \ {0} /\ StoreType /\ LifeType /\ WorkType
  BY TypeParts, WorkerAssumption
<1>1. CASE Crash \/ LoopExit
  <2>1. pc' = "off"
    BY <1>1, Zenon DEF Crash, LoopExit, ProcessEnds
  <2>2. QED BY <2>1, Places
<1>2. CASE Start \/ LoopTop
  <2>1. pc' \in {"top", "brpop"}
    BY <1>2 DEF Start, LoopTop
  <2>2. QED BY <2>1, Places
<1>3. CASE Pop
  <2>1. /\ work' = [Nobody EXCEPT !.span = Head(analysis_queue)] /\ pc' = "fetch"
        /\ Head(analysis_queue) \in Spans
    BY <1>0, <1>3, QueueFacts DEF Pop, StoreType
  <2>2. QED BY <2>1, Places DEF Nobody
<1>4. CASE Idle \/ Buffer \/ TraceAnalyzeRaises \/ TraceWriteFlags \/ TraceWriteRaises
  <2>1. pc' = "stale" \/ (pc' = pc /\ pc = "stale")
    BY <1>4, Zenon DEF Idle, Buffer, EnterFlush, TraceAnalyzeRaises, TraceWriteFlags, TraceWriteRaises, NextTrace
  <2>2. QED BY <2>1, Places DEF Flushing, Writing
<1>5. CASE Fetch
  BY <1>0, <1>5, Places DEF Fetch
<1>6. CASE FetchMisses \/ FetchRaises \/ AnalyzeRaises \/ WriteFlagsRaises
  <2>1. pc \in Busy /\ (RetryOrGiveUp \/ GiveUp) /\ UNCHANGED work
    BY <1>6, Zenon, Places DEF FetchMisses, FetchRaises, AnalyzeRaises, WriteFlagsRaises
  <2>2. QED BY <2>1, AfterException, Places
<1>7. CASE Analyze
  <2>1. /\ pc = "analyze" /\ pc' = IF work.next = ANALYZERS THEN "scores" ELSE "analyze"
        /\ \E e, f : work' = [work EXCEPT !.next = @ + 1, !.scores = e, !.flagged = f]
    BY <1>7, Zenon DEF Analyze
  <2>2. work'.span = work.span /\ work'.next = work.next + 1
    BY <1>0, <2>1 DEF WorkType
  <2>3. QED BY <1>0, <2>1, <2>2, Places DEF WorkType
<1>8. CASE WriteScores \/ WriteScoresRaises \/ WriteFlags
  <2>1. pc \in Busy /\ pc' \in {"flags", "buffer", "top"} /\ UNCHANGED work
    BY <1>8, Places DEF WriteScores, WriteScoresRaises, WriteFlags, AfterScores, GiveUp, spanVars
  <2>2. QED BY <2>1, Places
<1>9. CASE Wake
  <2>1. pc = "sleep" /\ pc' = "fetch" /\ \E n : work' = [Nobody EXCEPT !.span = work.span, !.attempt = n]
    BY <1>9, Zenon DEF Wake
  <2>2. QED BY <2>1, Places DEF Nobody
<1>10. CASE TraceAnalyze
  <2>1. PICK t \in flushing.ready :
            \E e, f : flushing' = [ready |-> flushing.ready \ {t}, tid |-> t, scores |-> e, flagged |-> f]
    BY <1>10, Zenon DEF TraceAnalyze
  <2>2. pc' = "trace scores" /\ UNCHANGED <<trace_buffer, work>>
    BY <1>10 DEF TraceAnalyze, bufferVars, spanVars
  <2>3. flushing'.tid \in DOMAIN trace_buffer' \ flushing'.ready
    <3>1. t \in DOMAIN trace_buffer'
      BY <2>2 DEF BuffersAgree
    <3>2. flushing'.tid = t /\ flushing'.ready = flushing.ready \ {t}
      BY <2>1
    <3>3. QED BY <3>1, <3>2
  <2>4. QED BY <2>2, <2>3, Places
<1>11. CASE TraceWriteScores
  <2>1. \/ pc' = "trace flags" /\ pc = "trace scores" /\ UNCHANGED <<bufferVars, flushing, work>>
        \/ pc' = "stale"
    BY <1>11, Zenon DEF TraceWriteScores, NextTrace, spanVars
  <2>2. QED BY <2>1, Places DEF Writing, Flushing, bufferVars
<1>12. CASE FlushDone
  BY <1>12, Places DEF FlushDone
<1>13. CASE UNCHANGED <<pc, work, flushing, trace_buffer>>
  BY <1>13
<1>14. \/ Crash \/ LoopExit \/ Start \/ LoopTop \/ Pop \/ Idle \/ Buffer \/ Fetch \/ FetchMisses \/ FetchRaises
       \/ Analyze \/ AnalyzeRaises \/ WriteScores \/ WriteScoresRaises \/ WriteFlags \/ WriteFlagsRaises
       \/ Wake \/ TraceAnalyze \/ TraceAnalyzeRaises \/ TraceWriteScores \/ TraceWriteFlags
       \/ TraceWriteRaises \/ FlushDone \/ UNCHANGED <<pc, work, flushing, trace_buffer>>
  BY NextCases, Zenon DEF Enqueue, Store, Tick, Signal, spanVars, traceVars, bufferVars, vars
<1>15. QED BY <1>1, <1>2, <1>3, <1>4, <1>5, <1>6, <1>7, <1>8, <1>9, <1>10, <1>11, <1>12, <1>13, <1>14

\* What is left of the buffer when a trace is forgotten.
LEMMA ForgetFacts ==
    ASSUME NEW t, Forget(t)
    PROVE  /\ DOMAIN trace_buffer' = DOMAIN trace_buffer \ {t}
           /\ DOMAIN trace_last_seen' = DOMAIN trace_last_seen \ {t}
           /\ \A u \in DOMAIN trace_buffer' : trace_buffer'[u] = trace_buffer[u]
BY DEF Forget, Restrict

\* What the buffer holds after the span at work has joined its trace.
LEMMA BufferFacts ==
    ASSUME BufferType, WorkType, ThreadInv, BuffersAgree, Buffer
    PROVE  /\ work.span \in Spans /\ pc = "buffer"
           /\ DOMAIN trace_buffer' = DOMAIN trace_buffer \union {TraceOf[work.span]}
           /\ DOMAIN trace_last_seen' = DOMAIN trace_buffer'
           /\ \A u \in DOMAIN trace_buffer' \ {TraceOf[work.span]} : trace_buffer'[u] = trace_buffer[u]
           /\ trace_buffer'[TraceOf[work.span]] # <<>>
           /\ \A s \in ToSet(trace_buffer'[TraceOf[work.span]]) :
                 \/ s = work.span
                 \/ /\ TraceOf[work.span] \in DOMAIN trace_buffer
                    /\ s \in ToSet(trace_buffer[TraceOf[work.span]])
<1> DEFINE t == TraceOf[work.span]
<1>1. pc = "buffer" /\ work.span \in Spans
  BY DEF Buffer, ThreadInv, Busy
<1>2. trace_buffer' = [u \in DOMAIN trace_buffer \union {t} |->
                               IF u # t THEN trace_buffer[u]
                               ELSE IF u \in DOMAIN trace_buffer
                                    THEN Append(trace_buffer[u], work.span)
                                    ELSE <<work.span>>]
  BY Zenon DEF Buffer
<1>3. DOMAIN trace_last_seen' = DOMAIN trace_last_seen \union {t}
  BY DEF Buffer
<1>4. CASE t \in DOMAIN trace_buffer
  <2>1. trace_buffer'[t] = Append(trace_buffer[t], work.span) /\ trace_buffer[t] \in Seq(Spans)
    BY <1>2, <1>4 DEF BufferType
  <2>2. ToSet(trace_buffer'[t]) = ToSet(trace_buffer[t]) \union {work.span}
    BY <1>1, <2>1, QueueFacts
  <2>3. trace_buffer'[t] # <<>>
    BY <1>1, <2>1
  <2>4. QED BY <1>1, <1>2, <1>3, <1>4, <2>2, <2>3 DEF BuffersAgree
<1>5. CASE t \notin DOMAIN trace_buffer
  <2>1. trace_buffer'[t] = <<work.span>>
    BY <1>2, <1>5
  <2>2. trace_buffer'[t] # <<>> /\ ToSet(trace_buffer'[t]) = {work.span}
    BY <2>1 DEF ToSet
  <2>3. QED BY <1>1, <1>2, <1>3, <1>5, <2>2 DEF BuffersAgree
<1>6. QED BY <1>4, <1>5

LEMMA BuffersAgreeStep == TypeOK /\ ThreadInv /\ BuffersAgree /\ [Next]_vars => BuffersAgree'
<1> SUFFICES ASSUME TypeOK, ThreadInv, BuffersAgree, [Next]_vars PROVE BuffersAgree'
  OBVIOUS
<1>0. BufferType /\ WorkType /\ TraceType
  BY TypeParts
<1>1. CASE Tick
  <2>1. DOMAIN trace_last_seen' = DOMAIN trace_last_seen /\ UNCHANGED <<trace_buffer, flushing>>
    BY <1>1 DEF Tick
  <2>2. QED BY <2>1 DEF BuffersAgree
<1>2. CASE Crash \/ LoopExit
  <2>1. trace_buffer' = EmptyDict /\ trace_last_seen' = EmptyDict /\ flushing' = Nothing
    BY <1>2, Zenon DEF Crash, LoopExit, ProcessEnds
  <2>2. QED BY <2>1 DEF BuffersAgree, EmptyDict, Nothing
<1>3. CASE Idle
  <2>1. flushing'.ready \subseteq DOMAIN trace_last_seen /\ UNCHANGED bufferVars
    BY <1>3 DEF Idle, EnterFlush, Nothing
  <2>2. QED BY <2>1 DEF BuffersAgree, bufferVars
<1>4. CASE Buffer
  <2>1. flushing'.ready \subseteq DOMAIN trace_last_seen'
    BY <1>4 DEF Buffer, EnterFlush, Nothing
  <2>2. QED BY <1>0, <1>4, <2>1, BufferFacts DEF BuffersAgree
<1>5. CASE TraceAnalyze
  <2>1. PICK t \in flushing.ready :
            \E e, f : flushing' = [ready |-> flushing.ready \ {t}, tid |-> t, scores |-> e, flagged |-> f]
    BY <1>5, Zenon DEF TraceAnalyze
  <2>2. UNCHANGED bufferVars
    BY <1>5 DEF TraceAnalyze
  <2>3. QED BY <2>1, <2>2 DEF BuffersAgree, bufferVars
<1>6. CASE TraceAnalyzeRaises
  <2>1. PICK t \in flushing.ready : Forget(t) /\ flushing' = [flushing EXCEPT !.ready = @ \ {t}]
    BY <1>6, Zenon DEF TraceAnalyzeRaises
  <2>2. flushing'.ready = flushing.ready \ {t}
    BY <1>0, <2>1 DEF TraceType
  <2>3. QED BY <2>1, <2>2, ForgetFacts DEF BuffersAgree
<1>7. CASE TraceWriteScores \/ TraceWriteFlags \/ TraceWriteRaises
  <2>1. \/ UNCHANGED <<bufferVars, flushing>>
        \/ pc \in Writing /\ Forget(flushing.tid) /\ NextTrace
    BY <1>7, Zenon DEF TraceWriteScores, TraceWriteFlags, TraceWriteRaises, Writing
  <2>2. CASE UNCHANGED <<bufferVars, flushing>>
    BY <2>2 DEF BuffersAgree, bufferVars
  <2>3. CASE pc \in Writing /\ Forget(flushing.tid) /\ NextTrace
    <3>1. flushing'.ready = flushing.ready /\ flushing.tid \notin flushing.ready
      BY <2>3 DEF NextTrace, Nothing, ThreadInv
    <3>2. QED BY <2>3, <3>1, ForgetFacts DEF BuffersAgree
  <2>4. QED BY <2>1, <2>2, <2>3
<1>8. CASE FlushDone
  <2>1. flushing' = Nothing /\ UNCHANGED bufferVars
    BY <1>8, Zenon DEF FlushDone
  <2>2. QED BY <2>1 DEF BuffersAgree, bufferVars, Nothing
<1>9. CASE UNCHANGED <<bufferVars, flushing>>
  BY <1>9 DEF BuffersAgree, bufferVars
<1>10. \/ Tick \/ Crash \/ LoopExit \/ Idle \/ Buffer \/ TraceAnalyze \/ TraceAnalyzeRaises
       \/ TraceWriteScores \/ TraceWriteFlags \/ TraceWriteRaises \/ FlushDone
       \/ UNCHANGED <<bufferVars, flushing>>
  BY NextCases, Zenon DEF Enqueue, Store, Start, Signal, LoopTop, Pop, Fetch, FetchMisses,
     FetchRaises, Analyze, AnalyzeRaises, WriteScores, WriteScoresRaises, WriteFlags,
     WriteFlagsRaises, Wake, traceVars, vars
<1>11. QED BY <1>1, <1>2, <1>3, <1>4, <1>5, <1>6, <1>7, <1>8, <1>9, <1>10

LEMMA QueueInvStep == TypeOK /\ QueueInv /\ [Next]_vars => QueueInv'
<1> SUFFICES ASSUME TypeOK, QueueInv, [Next]_vars PROVE QueueInv'
  OBVIOUS
<1>0. StoreType
  BY TypeParts
<1>1. ASSUME NEW s \in Spans, Enqueue(s) PROVE QueueInv'
  <2>1. /\ s \notin ToSet(analysis_queue)
        /\ analysis_queue' = Append(analysis_queue, s) /\ enqueued' = enqueued \union {s}
    BY <1>1 DEF Enqueue, QueueInv
  <2>2. /\ DOMAIN analysis_queue = 1 .. Len(analysis_queue) /\ Len(analysis_queue) \in Nat
        /\ DOMAIN analysis_queue' = 1 .. Len(analysis_queue) + 1
        /\ analysis_queue'[Len(analysis_queue) + 1] = s
        /\ \A i \in DOMAIN analysis_queue : analysis_queue'[i] = analysis_queue[i]
    BY <1>0, <2>1, AppendProperties, LenProperties DEF StoreType
  <2>3. \A i \in DOMAIN analysis_queue : analysis_queue[i] # s
    BY <2>1 DEF ToSet
  <2>4. \A i \in DOMAIN analysis_queue' : i \in DOMAIN analysis_queue \/ i = Len(analysis_queue) + 1
    BY <2>2
  <2>5. \A i, j \in DOMAIN analysis_queue' : analysis_queue'[i] = analysis_queue'[j] => i = j
    BY <2>2, <2>3, <2>4 DEF QueueInv
  <2>6. QED BY <1>0, <2>1, <2>5, QueueFacts DEF QueueInv, StoreType
<1>2. CASE Pop
  <2>1. analysis_queue # <<>> /\ analysis_queue' = Tail(analysis_queue) /\ UNCHANGED enqueued
    BY <1>2 DEF Pop
  <2>2. /\ DOMAIN analysis_queue = 1 .. Len(analysis_queue) /\ Len(analysis_queue) \in Nat
        /\ DOMAIN analysis_queue' = 1 .. Len(analysis_queue) - 1
        /\ \A i \in DOMAIN analysis_queue' : analysis_queue'[i] = analysis_queue[i + 1]
    BY <1>0, <2>1, HeadTailProperties, LenProperties DEF StoreType
  <2>3. \A i \in DOMAIN analysis_queue' : i \in Nat /\ i + 1 \in DOMAIN analysis_queue
    BY <2>2
  <2>4. \A i, j \in DOMAIN analysis_queue' : analysis_queue'[i] = analysis_queue'[j] => i + 1 = j + 1
    BY <2>2, <2>3 DEF QueueInv
  <2>5. \A i, j \in DOMAIN analysis_queue' : analysis_queue'[i] = analysis_queue'[j] => i = j
    BY <2>3, <2>4
  <2>6. QED BY <1>0, <2>1, <2>5, QueueFacts DEF QueueInv, StoreType
<1>3. CASE UNCHANGED <<analysis_queue, enqueued>>
  BY <1>3 DEF QueueInv
<1>4. (\E s \in Spans : Enqueue(s)) \/ Pop \/ UNCHANGED <<analysis_queue, enqueued>>
  BY NextCases, Zenon DEF Store, Tick, Start, Signal, Crash, LoopExit, ProcessEnds, LoopTop, Idle,
     Fetch, FetchMisses, FetchRaises, Analyze, AnalyzeRaises, WriteScores, WriteScoresRaises,
     WriteFlags, WriteFlagsRaises, Buffer, Wake, TraceAnalyze, TraceAnalyzeRaises,
     TraceWriteScores, TraceWriteFlags, TraceWriteRaises, FlushDone, storeVars, vars
<1>5. QED BY <1>1, <1>2, <1>3, <1>4

\* A span that waits has waited before; the one that is popped waits no more.
LEMMA WaitingStep ==
    ASSUME TypeOK, QueueInv, [Next]_vars
    PROVE  /\ \A s \in Spans : Waiting(s)' => Waiting(s)
           /\ \A s : Pop /\ s = Head(analysis_queue) =>
                 /\ s \in Spans /\ Waiting(s) /\ ~Waiting(s)'
<1>0. StoreType
  BY TypeParts
<1>1. ASSUME NEW s \in Spans, Enqueue(s) PROVE \A u \in Spans : Waiting(u)' => Waiting(u)
  BY <1>0, <1>1, QueueFacts DEF Enqueue, Waiting, StoreType
<1>2. ASSUME Pop, NEW s, s = Head(analysis_queue)
      PROVE  /\ s \in Spans /\ Waiting(s) /\ ~Waiting(s)'
             /\ \A u \in Spans : Waiting(u)' => Waiting(u)
  <2>1. analysis_queue # <<>> /\ analysis_queue' = Tail(analysis_queue) /\ UNCHANGED enqueued
    BY <1>2 DEF Pop
  <2>2. /\ s \in Spans /\ s \in ToSet(analysis_queue)
        /\ ToSet(analysis_queue) = ToSet(analysis_queue') \union {s}
    BY <1>0, <1>2, <2>1, QueueFacts DEF StoreType
  <2>3. /\ DOMAIN analysis_queue = 1 .. Len(analysis_queue) /\ Len(analysis_queue) \in Nat
        /\ DOMAIN analysis_queue' = 1 .. Len(analysis_queue) - 1
        /\ \A i \in DOMAIN analysis_queue' : analysis_queue'[i] = analysis_queue[i + 1]
        /\ Len(analysis_queue) # 0
    BY <1>0, <2>1, HeadTailProperties, LenProperties, EmptySeq DEF StoreType
  <2>4. s = analysis_queue[1]
    BY <1>0, <1>2, <2>1, <2>3 DEF StoreType
  <2>5. \A i \in DOMAIN analysis_queue' : i + 1 # 1 /\ 1 \in DOMAIN analysis_queue /\ i + 1 \in DOMAIN analysis_queue
    BY <2>3
  <2>6. s \notin ToSet(analysis_queue')
    BY <2>3, <2>4, <2>5 DEF QueueInv, ToSet
  <2>7. s \in enqueued'
    BY <2>1, <2>2 DEF QueueInv
  <2>8. QED BY <2>1, <2>2, <2>6, <2>7 DEF Waiting
<1>3. CASE UNCHANGED <<analysis_queue, enqueued>>
  <2>1. ~Pop
    BY <1>0, <1>3, HeadTailProperties, LenProperties DEF Pop, StoreType
  <2>2. QED BY <1>3, <2>1 DEF Waiting
<1>4. (\E s \in Spans : Enqueue(s)) \/ Pop \/ UNCHANGED <<analysis_queue, enqueued>>
  BY NextCases, Zenon DEF Store, Tick, Start, Signal, Crash, LoopExit, ProcessEnds, LoopTop, Idle,
     Fetch, FetchMisses, FetchRaises, Analyze, AnalyzeRaises, WriteScores, WriteScoresRaises,
     WriteFlags, WriteFlagsRaises, Buffer, Wake, TraceAnalyze, TraceAnalyzeRaises,
     TraceWriteScores, TraceWriteFlags, TraceWriteRaises, FlushDone, storeVars, vars
<1>5. QED BY <1>1, <1>2, <1>3, <1>4

\* The steps that move no span and do nothing with one that is not repeated.
NoMove ==
    /\ UNCHANGED <<trace_buffer, analysed, flagWrites>>
    /\ pc' \in Busy => pc \in Busy /\ work'.span = work.span /\ (pc = "buffer" => pc' = "buffer")
    /\ pc \in Writing => pc' \in Writing /\ UNCHANGED flushing

LEMMA NoMoveSteps ==
    ASSUME TypeOK, ThreadInv, [Next]_vars
    PROVE  \/ NoMove \/ Crash \/ LoopExit \/ Pop \/ WriteFlags \/ WriteFlagsRaises \/ Buffer
           \/ TraceAnalyze \/ TraceAnalyzeRaises
           \/ /\ pc \in Writing /\ pc' = "stale" /\ Forget(flushing.tid)
              /\ UNCHANGED <<analysed, flagWrites>>
<1>0. WorkType
  BY TypeParts
<1>1. ASSUME UNCHANGED <<trace_buffer, analysed, flagWrites>>, pc' \notin Busy, pc \notin Writing
      PROVE  NoMove
  BY <1>1 DEF NoMove
<1>2. CASE Idle \/ Start \/ LoopTop \/ FlushDone
  <2>1. UNCHANGED <<trace_buffer, analysed, flagWrites>>
    BY <1>2, Zenon DEF Idle, Start, LoopTop, FlushDone, traceVars, bufferVars, spanVars
  <2>2. pc' \in {"stale", "top", "brpop"} /\ pc \in {"brpop", "off", "top", "stale"}
    BY <1>2, Zenon DEF Idle, EnterFlush, Start, LoopTop, FlushDone
  <2>3. QED BY <1>1, <2>1, <2>2, Places DEF Writing, Flushing
<1>3. CASE (\E s \in Spans : Enqueue(s) \/ Store(s)) \/ Tick \/ Signal \/ UNCHANGED vars
  <2>1. UNCHANGED <<trace_buffer, analysed, flagWrites, pc, work, flushing>>
    BY <1>3, Zenon DEF Enqueue, Store, Tick, Signal, traceVars, bufferVars, spanVars, vars
  <2>2. QED BY <2>1 DEF NoMove
<1>4. CASE Fetch \/ FetchMisses \/ FetchRaises \/ AnalyzeRaises \/ WriteScores \/ WriteScoresRaises
  <2>1. UNCHANGED <<trace_buffer, analysed, flagWrites, work, flushing>>
    BY <1>4, Zenon DEF Fetch, FetchMisses, FetchRaises, AnalyzeRaises, WriteScores, WriteScoresRaises,
       traceVars, bufferVars, spanVars
  <2>2. pc \in {"fetch", "analyze", "scores"}
    BY <1>4, Zenon DEF Fetch, FetchMisses, FetchRaises, AnalyzeRaises, WriteScores, WriteScoresRaises
  <2>3. QED BY <2>1, <2>2, Places DEF NoMove
<1>5. CASE Analyze
  <2>1. UNCHANGED <<trace_buffer, analysed, flagWrites, flushing>> /\ pc = "analyze"
    BY <1>5, Zenon DEF Analyze, traceVars, bufferVars, spanVars
  <2>2. \E e, f : work' = [work EXCEPT !.next = @ + 1, !.scores = e, !.flagged = f]
    BY <1>5, Zenon DEF Analyze
  <2>3. work'.span = work.span
    BY <1>0, <2>2 DEF WorkType
  <2>4. QED BY <2>1, <2>3, Places DEF NoMove
<1>6. CASE Wake
  <2>1. UNCHANGED <<trace_buffer, analysed, flagWrites, flushing>> /\ pc = "sleep"
    BY <1>6, Zenon DEF Wake, traceVars, bufferVars
  <2>2. \E n : work' = [Nobody EXCEPT !.span = work.span, !.attempt = n]
    BY <1>6, Zenon DEF Wake
  <2>3. work'.span = work.span
    BY <2>2 DEF Nobody
  <2>4. QED BY <2>1, <2>3, Places DEF NoMove
<1>7. CASE TraceWriteScores \/ TraceWriteFlags \/ TraceWriteRaises
  <2>1. /\ pc \in Writing /\ UNCHANGED <<analysed, flagWrites>>
        /\ \/ pc' \in Writing /\ UNCHANGED <<trace_buffer, flushing>>
           \/ pc' = "stale" /\ Forget(flushing.tid)
    BY <1>7, Zenon DEF TraceWriteScores, TraceWriteFlags, TraceWriteRaises, NextTrace, Writing, bufferVars, spanVars
  <2>2. QED BY <2>1, Places DEF NoMove
<1>8. QED BY NextCases, <1>2, <1>3, <1>4, <1>5, <1>6, <1>7

Once == OnceInv /\ FlagsAtMostOnce /\ AnalysedAtMostOnce

\* After Count(t): each span of t has been analysed once more.
LEMMA CountFacts ==
    ASSUME TypeOK, BuffersAgree, OnceInv, AnalysedAtMostOnce, pc = "stale",
           NEW t \in flushing.ready, Count(t)
    PROVE  \A s \in Spans :
              \/ s \in ToSet(trace_buffer[t]) /\ analysed'[s] = 1
              \/ s \notin ToSet(trace_buffer[t]) /\ analysed'[s] = analysed[s]
<1>1. t \in DOMAIN trace_buffer /\ pc \notin Writing
  BY DEF BuffersAgree, Writing
<1>2. analysed \in [Spans -> Nat]
  BY TypeParts DEF TraceType
<1>3. \A s \in Spans : s \in ToSet(trace_buffer[t]) => analysed[s] = 0
  BY <1>1 DEF OnceInv
<1>4. QED BY <1>2, <1>3 DEF Count

LEMMA OnceStep ==
    TypeOK /\ ThreadInv /\ BuffersAgree /\ QueueInv /\ Once /\ [Next]_vars => Once'
<1> SUFFICES ASSUME TypeOK, ThreadInv, BuffersAgree, QueueInv, Once, [Next]_vars PROVE Once'
  OBVIOUS
<1>0. /\ StoreType /\ WorkType /\ BufferType /\ TraceType
      /\ OnceInv /\ FlagsAtMostOnce /\ AnalysedAtMostOnce
  BY TypeParts DEF Once
<1>w. \A s \in Spans : Waiting(s)' => Waiting(s)
  BY WaitingStep
<1>b. pc \in Busy => work.span \in Spans
  BY DEF ThreadInv
<1>1. CASE NoMove
  <2>1. \A s : Buffered(s)' <=> Buffered(s)
    BY <1>1 DEF NoMove, Buffered
  <2>2. pc' \in Busy => pc \in Busy /\ work'.span = work.span /\ work.span \in Spans
    BY <1>1, <1>b DEF NoMove
  <2>3. \A s \in Spans : Waiting(s)' => analysed'[s] = 0 /\ flagWrites'[s] = 0 /\ ~Buffered(s)'
    BY <1>0, <1>1, <1>w, <2>1 DEF NoMove, OnceInv
  <2>4. pc' \in Busy => ~Waiting(work.span)' /\ analysed'[work'.span] = 0 /\ ~Buffered(work.span)'
    <3>1. pc' \in Busy => ~(work'.span \notin enqueued' \/ work'.span \in ToSet(analysis_queue'))
      BY <1>0, <1>w, <2>2 DEF OnceInv, Waiting
    <3>2. pc' \in Busy => ~Buffered(work.span)'
      BY <1>0, <1>1, <2>2 DEF OnceInv, NoMove, Buffered
    <3>3. QED BY <1>0, <1>1, <2>2, <3>1, <3>2 DEF OnceInv, NoMove, Waiting
  <2>5. pc' \in Busy \ {"buffer"} => flagWrites'[work'.span] = 0
    BY <1>0, <1>1, <2>2 DEF OnceInv, NoMove
  <2>6. \A t \in DOMAIN trace_buffer' : \A s \in ToSet(trace_buffer'[t]) :
            analysed'[s] = 0 \/ (pc' \in Writing /\ t = flushing'.tid)
    BY <1>0, <1>1 DEF OnceInv, NoMove
  <2>7. FlagsAtMostOnce' /\ AnalysedAtMostOnce'
    BY <1>0, <1>1 DEF FlagsAtMostOnce, AnalysedAtMostOnce, NoMove
  <2>8. QED BY <2>3, <2>4, <2>5, <2>6, <2>7 DEF Once, OnceInv
<1>2. CASE Crash \/ LoopExit
  <2>1. trace_buffer' = EmptyDict /\ pc' = "off" /\ UNCHANGED <<analysed, flagWrites>>
    BY <1>2, Zenon DEF Crash, LoopExit, ProcessEnds
  <2>2. DOMAIN trace_buffer' = {} /\ \A s : ~Buffered(s)'
    BY <2>1 DEF EmptyDict, Buffered
  <2>3. \A s \in Spans : Waiting(s)' => analysed'[s] = 0 /\ flagWrites'[s] = 0 /\ ~Buffered(s)'
    BY <1>0, <1>w, <2>1, <2>2 DEF OnceInv
  <2>4. FlagsAtMostOnce' /\ AnalysedAtMostOnce'
    BY <1>0, <2>1 DEF FlagsAtMostOnce, AnalysedAtMostOnce
  <2>5. QED BY <2>1, <2>2, <2>3, <2>4, Places DEF Once, OnceInv
<1>3. CASE Pop
  <2>1. /\ UNCHANGED <<trace_buffer, analysed, flagWrites>>
        /\ pc = "brpop" /\ pc' = "fetch" /\ work' = [Nobody EXCEPT !.span = Head(analysis_queue)]
    BY <1>3, Zenon DEF Pop, traceVars, bufferVars
  <2>2. work'.span = Head(analysis_queue)
    BY <2>1 DEF Nobody
  <2>3. /\ work'.span \in Spans /\ Waiting(work'.span)
        /\ ~(work'.span \notin enqueued' \/ work'.span \in ToSet(analysis_queue'))
    BY <1>3, <2>2, WaitingStep DEF Waiting
  <2>4. /\ analysed'[work'.span] = 0 /\ flagWrites'[work'.span] = 0
        /\ ~Buffered(work.span)'
    BY <1>0, <2>1, <2>3 DEF OnceInv, Buffered
  <2>5. \A s \in Spans : Waiting(s)' => analysed'[s] = 0 /\ flagWrites'[s] = 0 /\ ~Buffered(s)'
    BY <1>0, <1>w, <2>1 DEF OnceInv, Buffered
  <2>6. \A t \in DOMAIN trace_buffer' : \A s \in ToSet(trace_buffer'[t]) : analysed'[s] = 0
    BY <1>0, <2>1, Places DEF OnceInv, Writing
  <2>7. FlagsAtMostOnce' /\ AnalysedAtMostOnce'
    BY <1>0, <2>1 DEF FlagsAtMostOnce, AnalysedAtMostOnce
  <2>8. QED BY <2>1, <2>3, <2>4, <2>5, <2>6, <2>7 DEF Once, OnceInv, Waiting
<1>4. CASE WriteFlags \/ WriteFlagsRaises
  <2>1. /\ pc = "flags" /\ UNCHANGED <<trace_buffer, analysed, work>>
        /\ flagWrites' = [flagWrites EXCEPT ![work.span] = @ + 1] \/ UNCHANGED flagWrites
        /\ pc' \in {"buffer", "top", "sleep"}
        /\ pc' = "sleep" => UNCHANGED flagWrites
    BY <1>4, Zenon DEF WriteFlags, WriteFlagsRaises, GiveUp, RetryOrGiveUp, traceVars, bufferVars
  <2>2. /\ work.span \in Spans /\ ~Waiting(work.span) /\ flagWrites[work.span] = 0
        /\ analysed[work.span] = 0 /\ ~Buffered(work.span)
    BY <1>0, <1>b, <2>1, Places DEF OnceInv
  <2>3. \A s \in Spans : \/ flagWrites'[s] = flagWrites[s]
                         \/ s = work.span /\ flagWrites'[s] = 1 /\ pc' # "sleep"
    BY <1>0, <2>1, <2>2 DEF WorkType
  <2>4. \A s \in Spans : Waiting(s)' => analysed'[s] = 0 /\ flagWrites'[s] = 0 /\ ~Buffered(s)'
    BY <1>0, <1>w, <2>1, <2>2, <2>3 DEF OnceInv, Buffered
  <2>5. /\ ~Waiting(work.span)' /\ analysed'[work'.span] = 0 /\ ~Buffered(work.span)'
        /\ pc' = "sleep" => flagWrites'[work'.span] = 0
    BY <1>w, <2>1, <2>2, <2>3 DEF Buffered, Waiting
  <2>6. \A t \in DOMAIN trace_buffer' : \A s \in ToSet(trace_buffer'[t]) : analysed'[s] = 0
    BY <1>0, <2>1, Places DEF OnceInv, Writing
  <2>7. FlagsAtMostOnce' /\ AnalysedAtMostOnce'
    BY <1>0, <2>1, <2>3 DEF FlagsAtMostOnce, AnalysedAtMostOnce
  <2>8. QED BY <2>1, <2>4, <2>5, <2>6, <2>7, Places DEF Once, OnceInv
<1>5. CASE Buffer
  <2> DEFINE t == TraceOf[work.span]
  <2>1. /\ work.span \in Spans /\ pc = "buffer"
        /\ DOMAIN trace_buffer' = DOMAIN trace_buffer \union {t}
        /\ \A u \in DOMAIN trace_buffer' \ {t} : trace_buffer'[u] = trace_buffer[u]
        /\ \A s \in ToSet(trace_buffer'[t]) :
              s = work.span \/ (t \in DOMAIN trace_buffer /\ s \in ToSet(trace_buffer[t]))
    BY <1>0, <1>5, BufferFacts
  <2>2. pc' = "stale" /\ UNCHANGED <<analysed, flagWrites>>
    BY <1>5, Zenon DEF Buffer, EnterFlush
  <2>3. ~Waiting(work.span) /\ analysed[work.span] = 0
    BY <1>0, <2>1, Places DEF OnceInv
  <2>4. \A s : Buffered(s)' => s = work.span \/ Buffered(s)
    BY <2>1 DEF Buffered
  <2>5. \A s \in Spans : Waiting(s)' => analysed'[s] = 0 /\ flagWrites'[s] = 0 /\ ~Buffered(s)'
    BY <1>0, <1>w, <2>2, <2>3, <2>4 DEF OnceInv
  <2>6. \A u \in DOMAIN trace_buffer' : \A s \in ToSet(trace_buffer'[u]) : analysed'[s] = 0
    <3>1. \A u \in DOMAIN trace_buffer : \A s \in ToSet(trace_buffer[u]) : analysed[s] = 0
      BY <1>0, <2>1, Places DEF OnceInv
    <3>2. QED BY <2>1, <2>2, <2>3, <3>1
  <2>7. FlagsAtMostOnce' /\ AnalysedAtMostOnce'
    BY <1>0, <2>2 DEF FlagsAtMostOnce, AnalysedAtMostOnce
  <2>8. QED BY <2>2, <2>5, <2>6, <2>7, Places DEF Once, OnceInv, Flushing
<1>s. \A u \in DOMAIN trace_buffer : \A s \in ToSet(trace_buffer[u]) : s \in Spans /\ TraceOf[s] = u
  <2>1. ASSUME NEW u \in DOMAIN trace_buffer, NEW s \in ToSet(trace_buffer[u])
        PROVE  s \in Spans
    <3>1. trace_buffer[u] \in Seq(Spans)
      BY <1>0 DEF BufferType
    <3>2. QED BY <3>1, <2>1 DEF ToSet
  <2>2. QED BY <2>1 DEF BuffersAgree
<1>6. CASE TraceAnalyze
  <2>1. PICK t \in flushing.ready : Count(t) /\ flushing'.tid = t
    <3>1. PICK t \in flushing.ready : Count(t) /\
            \E e, f : flushing' = [ready |-> flushing.ready \ {t}, tid |-> t, scores |-> e, flagged |-> f]
      BY <1>6, Zenon DEF TraceAnalyze
    <3>2. QED BY <3>1
  <2>2. pc = "stale" /\ pc' = "trace scores" /\ UNCHANGED <<trace_buffer, flagWrites>>
    BY <1>6, Zenon DEF TraceAnalyze, bufferVars, spanVars
  <2>3. t \in DOMAIN trace_buffer
    BY DEF BuffersAgree
  <2>4. \A s \in Spans : \/ s \in ToSet(trace_buffer[t]) /\ analysed'[s] = 1
                         \/ s \notin ToSet(trace_buffer[t]) /\ analysed'[s] = analysed[s]
    BY <1>0, <2>1, <2>2, CountFacts
  <2>5. \A s \in Spans : Waiting(s)' => analysed'[s] = 0 /\ flagWrites'[s] = 0 /\ ~Buffered(s)'
    BY <1>0, <1>w, <2>2, <2>3, <2>4 DEF OnceInv, Buffered
  <2>6. \A u \in DOMAIN trace_buffer' : \A s \in ToSet(trace_buffer'[u]) : analysed'[s] = 0 \/ u = flushing'.tid
    <3>1. \A u \in DOMAIN trace_buffer : \A s \in ToSet(trace_buffer[u]) : analysed[s] = 0
      BY <1>0, <2>2 DEF OnceInv, Writing
    <3>2. ASSUME NEW u \in DOMAIN trace_buffer, NEW s \in ToSet(trace_buffer[u])
          PROVE  analysed'[s] = 0 \/ u = t
      <4>1. s \in Spans /\ TraceOf[s] = u /\ analysed[s] = 0
        BY <1>s, <3>1
      <4>2. s \in ToSet(trace_buffer[t]) => TraceOf[s] = t
        BY <1>s, <2>3
      <4>3. QED BY <2>4, <4>1, <4>2
    <3>3. QED BY <2>1, <2>2, <3>2
  <2>7. FlagsAtMostOnce' /\ AnalysedAtMostOnce'
    <3>1. FlagsAtMostOnce'
      BY <1>0, <2>2 DEF FlagsAtMostOnce
    <3>2. AnalysedAtMostOnce'
      BY <1>0, <2>4 DEF AnalysedAtMostOnce
    <3>3. QED BY <3>1, <3>2
  <2>8. pc' \in Writing /\ pc' \notin Busy
    BY <2>2 DEF Writing, Busy
  <2>9. QED BY <2>5, <2>6, <2>7, <2>8 DEF Once, OnceInv
<1>7. CASE TraceAnalyzeRaises
  <2>1. PICK t \in flushing.ready : Count(t) /\ Forget(t)
    BY <1>7, Zenon DEF TraceAnalyzeRaises
  <2>2. pc = "stale" /\ pc' = pc /\ UNCHANGED flagWrites
    BY <1>7, Zenon DEF TraceAnalyzeRaises, spanVars
  <2>3. t \in DOMAIN trace_buffer
    BY DEF BuffersAgree
  <2>4. \A s \in Spans : \/ s \in ToSet(trace_buffer[t]) /\ analysed'[s] = 1
                         \/ s \notin ToSet(trace_buffer[t]) /\ analysed'[s] = analysed[s]
    BY <1>0, <2>1, <2>2, CountFacts
  <2>5. /\ DOMAIN trace_buffer' = DOMAIN trace_buffer \ {t}
        /\ \A u \in DOMAIN trace_buffer' : trace_buffer'[u] = trace_buffer[u]
    BY <2>1, ForgetFacts
  <2>6. \A s \in Spans : Waiting(s)' => analysed'[s] = 0 /\ flagWrites'[s] = 0 /\ ~Buffered(s)'
    BY <1>0, <1>w, <2>2, <2>3, <2>4, <2>5 DEF OnceInv, Buffered
  <2>7. \A u \in DOMAIN trace_buffer' : \A s \in ToSet(trace_buffer'[u]) : analysed'[s] = 0
    <3>1. \A u \in DOMAIN trace_buffer : \A s \in ToSet(trace_buffer[u]) : analysed[s] = 0
      BY <1>0, <2>2 DEF OnceInv, Writing
    <3>2. QED BY <1>s, <2>3, <2>4, <2>5, <3>1
  <2>8. FlagsAtMostOnce' /\ AnalysedAtMostOnce'
    BY <1>0, <2>2, <2>4 DEF FlagsAtMostOnce, AnalysedAtMostOnce
  <2>9. pc' \notin Busy
    BY <2>2 DEF Busy
  <2>10. QED BY <2>6, <2>7, <2>8, <2>9 DEF Once, OnceInv
<1>8. CASE /\ pc \in Writing /\ pc' = "stale" /\ Forget(flushing.tid)
           /\ UNCHANGED <<analysed, flagWrites>>
  <2>1. /\ DOMAIN trace_buffer' = DOMAIN trace_buffer \ {flushing.tid}
        /\ \A u \in DOMAIN trace_buffer' : trace_buffer'[u] = trace_buffer[u]
    BY <1>8, ForgetFacts
  <2>2. \A s \in Spans : Waiting(s)' => analysed'[s] = 0 /\ flagWrites'[s] = 0 /\ ~Buffered(s)'
    BY <1>0, <1>8, <1>w, <2>1 DEF OnceInv, Buffered
  <2>3. \A u \in DOMAIN trace_buffer' : \A s \in ToSet(trace_buffer'[u]) : analysed'[s] = 0
    BY <1>0, <1>8, <2>1 DEF OnceInv
  <2>4. FlagsAtMostOnce' /\ AnalysedAtMostOnce'
    BY <1>0, <1>8 DEF FlagsAtMostOnce, AnalysedAtMostOnce
  <2>5. pc' \notin Busy
    BY <1>8 DEF Busy
  <2>6. QED BY <2>2, <2>3, <2>4, <2>5 DEF Once, OnceInv
<1>9. QED BY NoMoveSteps, <1>1, <1>2, <1>3, <1>4, <1>5, <1>6, <1>7, <1>8

\* The steps that touch no score, but for forgetting those of a try.
Quiet ==
    /\ UNCHANGED <<pending, span_scores, raised>>
    /\ pc' \in Busy => \/ work'.scores = {}
                       \/ pc \in Busy /\ work'.scores = work.scores /\ work'.span = work.span
    /\ pc' \in Writing => pc \in Writing /\ UNCHANGED <<flushing, trace_buffer>>

LEMMA QuietSteps ==
    ASSUME TypeOK, [Next]_vars
    PROVE  \/ Quiet \/ Crash \/ LoopExit \/ Analyze \/ AnalyzeRaises \/ WriteScores \/ WriteScoresRaises
           \/ TraceAnalyze \/ TraceAnalyzeRaises \/ TraceWriteScores \/ TraceWriteRaises
<1>1. CASE (\E s \in Spans : Enqueue(s) \/ Store(s)) \/ Tick \/ Signal \/ UNCHANGED vars
  <2>1. UNCHANGED <<pending, span_scores, raised, pc, work, flushing, trace_buffer>>
    BY <1>1, Zenon DEF Enqueue, Store, Tick, Signal, traceVars, bufferVars, spanVars, scoreVars, errorVars, vars
  <2>2. QED BY <2>1 DEF Quiet
<1>2. CASE Start \/ LoopTop \/ Idle \/ Buffer \/ TraceWriteFlags \/ FlushDone
  <2>1. UNCHANGED <<pending, span_scores, raised>> /\ pc' \in {"top", "brpop", "stale"}
    BY <1>2, Zenon DEF Start, LoopTop, Idle, Buffer, EnterFlush, TraceWriteFlags, NextTrace, FlushDone,
       scoreVars, errorVars
  <2>2. QED BY <2>1 DEF Quiet, Busy, Writing
<1>3. CASE Pop \/ Wake
  <2>1. /\ UNCHANGED <<pending, span_scores, raised>> /\ pc' = "fetch"
        /\ \E t, n : \/ work' = [Nobody EXCEPT !.span = t]
                     \/ work' = [Nobody EXCEPT !.span = t, !.attempt = n]
    BY <1>3, Zenon DEF Pop, Wake, scoreVars, errorVars
  <2>2. work'.scores = {}
    BY <2>1 DEF Nobody
  <2>3. QED BY <2>1, <2>2 DEF Quiet, Busy, Writing
<1>4. CASE Fetch \/ FetchMisses \/ FetchRaises \/ WriteFlags \/ WriteFlagsRaises
  <2>1. /\ UNCHANGED <<pending, span_scores, raised, work>> /\ pc \in {"fetch", "flags"}
        /\ pc' \in {"analyze", "sleep", "top", "buffer"}
    BY <1>4, Zenon DEF Fetch, FetchMisses, FetchRaises, WriteFlags, WriteFlagsRaises, RetryOrGiveUp,
       GiveUp, scoreVars, errorVars
  <2>2. QED BY <2>1 DEF Quiet, Busy, Writing
<1>5. QED BY NextCases, <1>1, <1>2, <1>3, <1>4

\* A set of rows keeps to the rule when each new row does.
RowIsRight(row, behind) ==
    \/ row.source \in behind
    \/ row.source = row.span
    \/ row.span = NoSpan /\ row.tenant = TenantOf[row.source]

LEMMA ForeignRows == ForeignScoresWereLeftBehind <=> \A row \in span_scores : RowIsRight(row, raised)
BY DEF ForeignScoresWereLeftBehind, RowIsRight

Scores == ScoresInv /\ ForeignScoresWereLeftBehind

LEMMA ScoresStep ==
    TypeOK /\ ThreadInv /\ BuffersAgree /\ Scores /\ [Next]_vars => Scores'
<1> SUFFICES ASSUME TypeOK, ThreadInv, BuffersAgree, Scores, [Next]_vars PROVE Scores'
  OBVIOUS
<1>0. WorkType /\ ScoreType /\ TraceType /\ ScoresInv /\ \A row \in span_scores : RowIsRight(row, raised)
  BY TypeParts, ForeignRows DEF Scores
<1>a. ANALYZERS \in Nat \ {0} /\ TraceA = ANALYZERS + 1
  BY WorkerAssumption DEF TraceA
<1>b. pc \in Busy => work.span \in Spans
  BY DEF ThreadInv
<1>c. ASSUME raised \subseteq raised', \A row \in span_scores' \ span_scores : RowIsRight(row, raised')
      PROVE  ForeignScoresWereLeftBehind'
  BY <1>0, <1>c DEF ForeignScoresWereLeftBehind, RowIsRight
<1>1. CASE Quiet
  <2>1. ForeignScoresWereLeftBehind'
    BY <1>1, <1>c DEF Quiet
  <2>2. QED BY <1>0, <1>1, <2>1 DEF Scores, ScoresInv, Quiet
<1>2. CASE Crash \/ LoopExit
  <2>1. /\ pc' = "off" /\ pending' = [a \in 1 .. TraceA |-> {}]
        /\ UNCHANGED <<raised, span_scores>>
    BY <1>2, Zenon DEF Crash, LoopExit, ProcessEnds, errorVars
  <2>2. QED BY <1>c, <2>1, Places DEF Scores, ScoresInv
<1>3. CASE Analyze
  <2>1. PICK logged \in SUBSET {work.span}, flagged \in BOOLEAN :
            work' = [work EXCEPT !.next = @ + 1,
                                 !.scores = @ \union pending[work.next] \union logged,
                                 !.flagged = @ \/ flagged]
    BY <1>3 DEF Analyze
  <2>2. /\ pc = "analyze" /\ pending' = [pending EXCEPT ![work.next] = {}]
        /\ UNCHANGED <<raised, span_scores>> /\ pc' \in {"scores", "analyze"}
    BY <1>3 DEF Analyze, errorVars
  <2>3. work'.span = work.span /\ work'.scores = work.scores \union pending[work.next] \union logged
    BY <1>0, <2>1 DEF WorkType
  <2>4. work.next \in 1 .. TraceA /\ pending[work.next] \subseteq raised /\ work.scores \subseteq raised \union {work.span}
    BY <1>0, <2>2, Places DEF WorkType, ScoresInv
  <2>5. \A a \in 1 .. TraceA : pending'[a] \subseteq raised
    BY <1>0, <2>2 DEF ScoreType, ScoresInv
  <2>6. ScoresInv'
    BY <2>2, <2>3, <2>4, <2>5, Places DEF ScoresInv
  <2>7. QED BY <1>c, <2>2, <2>6 DEF Scores
<1>4. CASE AnalyzeRaises
  <2>1. PICK logged \in SUBSET {work.span} :
            /\ pending' = [pending EXCEPT ![work.next] = @ \union logged]
            /\ raised' = raised \union logged
    BY <1>4 DEF AnalyzeRaises
  <2>2. UNCHANGED <<span_scores, work>> /\ pc \in Busy /\ pc' \in {"top", "sleep"}
    BY <1>4, AfterException, Places DEF AnalyzeRaises
  <2>3. \A a \in 1 .. TraceA : pending'[a] \subseteq raised'
    BY <1>0, <2>1 DEF ScoreType, ScoresInv
  <2>4. ScoresInv'
    BY <1>0, <2>1, <2>2, <2>3, Places DEF ScoresInv
  <2>5. QED BY <1>c, <2>1, <2>2, <2>4 DEF Scores
<1>5. CASE WriteScores \/ WriteScoresRaises
  <2>1. /\ pc = "scores" /\ UNCHANGED <<pending, raised, work>> /\ pc' \in {"flags", "buffer", "top"}
        /\ span_scores' \in {span_scores, span_scores \union SpanRows}
    BY <1>5 DEF WriteScores, WriteScoresRaises, AfterScores, GiveUp, spanVars, errorVars
  <2>2. work.scores \subseteq raised \union {work.span}
    BY <1>0, <2>1, Places DEF ScoresInv
  <2>3. \A row \in SpanRows : RowIsRight(row, raised)
    BY <2>2 DEF SpanRows, RowIsRight
  <2>4. ScoresInv'
    BY <1>0, <2>1, <2>2, Places DEF ScoresInv
  <2>5. QED BY <1>c, <2>1, <2>3, <2>4 DEF Scores
<1>6. CASE TraceAnalyze
  <2>1. PICK t \in flushing.ready, flagged \in BOOLEAN :
            \E logged \in SUBSET {Head(trace_buffer[t])} :
                flushing' = [ready |-> flushing.ready \ {t}, tid |-> t,
                             scores |-> pending[TraceA] \union logged, flagged |-> flagged]
    BY <1>6 DEF TraceAnalyze
  <2>2. /\ pending' = [pending EXCEPT ![TraceA] = {}] /\ pc' = "trace scores"
        /\ UNCHANGED <<raised, span_scores, trace_buffer>>
    BY <1>6 DEF TraceAnalyze, bufferVars, errorVars
  <2>3. pending[TraceA] \subseteq raised
    BY <1>0, <1>a DEF ScoresInv
  <2>4. flushing'.scores \subseteq raised \union {Head(trace_buffer[flushing'.tid])}
    BY <2>1, <2>3
  <2>5. \A a \in 1 .. TraceA : pending'[a] \subseteq raised
    BY <1>0, <2>2 DEF ScoreType, ScoresInv
  <2>6. ScoresInv'
    BY <2>2, <2>4, <2>5, Places DEF ScoresInv
  <2>7. QED BY <1>c, <2>2, <2>6 DEF Scores
<1>7. CASE TraceAnalyzeRaises
  <2>1. PICK t \in flushing.ready :
            \E logged \in SUBSET {Head(trace_buffer[t])} :
                /\ pending' = [pending EXCEPT ![TraceA] = @ \union logged]
                /\ raised' = raised \union logged
    BY <1>7 DEF TraceAnalyzeRaises
  <2>2. pc' = "stale" /\ UNCHANGED span_scores
    BY <1>7 DEF TraceAnalyzeRaises
  <2>3. \A a \in 1 .. TraceA : pending'[a] \subseteq raised'
    BY <1>0, <2>1 DEF ScoreType, ScoresInv
  <2>4. raised \subseteq raised'
    BY <2>1
  <2>5. ScoresInv'
    BY <2>2, <2>3 DEF ScoresInv, Busy, Writing
  <2>6. QED BY <1>c, <2>2, <2>4, <2>5 DEF Scores
<1>8. CASE TraceWriteScores \/ TraceWriteRaises
  <2>1. /\ pc \in Writing /\ UNCHANGED <<pending, raised>>
        /\ span_scores' \in {span_scores, span_scores \union TraceScoreRows}
        /\ \/ pc' = "stale"
           \/ pc' = "trace flags" /\ UNCHANGED <<bufferVars, flushing>>
    BY <1>8 DEF TraceWriteScores, TraceWriteRaises, NextTrace, errorVars, Writing
  <2>2. flushing.scores \subseteq raised \union {Head(trace_buffer[flushing.tid])}
    BY <1>0, <2>1 DEF ScoresInv
  <2>3. \A row \in TraceScoreRows : RowIsRight(row, raised)
    BY <2>2 DEF TraceScoreRows, Owner, RowIsRight
  <2>4. ScoresInv'
    BY <1>0, <2>1, <2>2 DEF ScoresInv, bufferVars, Busy, Writing
  <2>5. QED BY <1>c, <2>1, <2>3, <2>4 DEF Scores
<1>9. QED BY QuietSteps, <1>1, <1>2, <1>3, <1>4, <1>5, <1>6, <1>7, <1>8
-----------------------------------------------------------------------------
LEMMA InitIInv == Init => IInv
<1> SUFFICES ASSUME Init PROVE IInv
  OBVIOUS
<1>1. trace_buffer = EmptyDict /\ DOMAIN EmptyDict = {} /\ pc = "off"
  BY DEF Init, EmptyDict
<1>2. StoreType /\ LifeType
  <2>1. analysis_queue = <<>> /\ inClickHouse = {} /\ enqueued = {}
    BY Zenon DEF Init
  <2>2. StoreType
    BY <2>1 DEF StoreType
  <2>3. pc = "off" /\ running = FALSE /\ starts = 0 /\ failures = 0
    BY Zenon DEF Init
  <2>4. 0 \in 0 .. MaxStarts /\ 0 \in 0 .. MaxFailures
    BY WorkerAssumption
  <2>6. LifeType
    BY <2>3, <2>4 DEF LifeType
  <2>7. QED BY <2>2, <2>6
<1>3. WorkType
  BY WorkerAssumption DEF Init, Nobody, TraceA, WorkType
<1>4. ScoreType
  BY DEF Init, ScoreType
<1>5. BufferType
  BY DEF Init, EmptyDict, BufferType
<1>6. TraceType
  BY DEF Init, Nothing, TraceType
<1>7. ThreadInv
  BY <1>1 DEF ThreadInv, Busy, Writing
<1>8. BuffersAgree
  BY DEF Init, EmptyDict, Nothing, BuffersAgree
<1>9. QueueInv
  BY DEF Init, QueueInv, ToSet
<1>10. OnceInv /\ FlagsAtMostOnce /\ AnalysedAtMostOnce
  BY <1>1 DEF Init, OnceInv, Buffered, FlagsAtMostOnce, AnalysedAtMostOnce, Busy
<1>11. ScoresInv /\ ForeignScoresWereLeftBehind
  BY <1>1 DEF Init, ScoresInv, ForeignScoresWereLeftBehind, Busy, Writing
<1>12. QED BY <1>2, <1>3, <1>4, <1>5, <1>6, <1>7, <1>8, <1>9, <1>10, <1>11, TypeParts DEF IInv

LEMMA Inductive == IInv /\ [Next]_vars => IInv'
BY TypeOKStep, ThreadInvStep, BuffersAgreeStep, QueueInvStep, OnceStep, ScoresStep, Zenon
   DEF IInv, Once, Scores

LEMMA SpecIInv == Spec => []IInv
BY InitIInv, Inductive, PTL DEF Spec
-----------------------------------------------------------------------------
\* Type correctness of the worker, which the other results use throughout.
THEOREM SpecTypeOK == Spec => []TypeOK
BY SpecIInv, PTL DEF IInv

\* The dictionaries of main() agree wherever _flush_stale_traces reads them
\* outside its try block, for any traces and exceptions.
THEOREM SpecBuffersAgree == Spec => []BuffersAgree
BY SpecIInv, PTL DEF IInv

\* No number of tries, lost replies and restarts writes a span's flags twice.
THEOREM SpecFlagsAtMostOnce == Spec => []FlagsAtMostOnce
BY SpecIInv, PTL DEF IInv

\* A span goes to the TraceAnalyzer once at most, whatever arrives late.
THEOREM SpecAnalysedAtMostOnce == Spec => []AnalysedAtMostOnce
BY SpecIInv, PTL DEF IInv

\* A score in a foreign row was left in its analyzer by an exception.
THEOREM SpecForeignScoresWereLeftBehind == Spec => []ForeignScoresWereLeftBehind
BY SpecIInv, PTL DEF IInv
=============================================================================
