--------------------------- MODULE Pipeline_proofs ---------------------------
(***************************************************************************)
(* That the worker's tries outlast the batcher, for any rows, batch size,  *)
(* interval, insert time, number of tries and back-off that satisfy        *)
(* TriesOutlastFlush.                                                      *)
(*                                                                         *)
(* BudgetInv compares two clocks: the ticks a row the worker asks for can  *)
(* still need until its insert ends (QueueWait, BufferWait), and the ticks *)
(* the worker will still sleep before its last try (Budget).  Every tick   *)
(* takes as much from the first as from the second, and no other step      *)
(* makes the first grow.                                                   *)
(***************************************************************************)
EXTENDS Pipeline, TLAPS

PipelineTypeOK ==
    /\ queue \in Seq(Rows) /\ buffer \in Seq(Rows)
    /\ loop \in {"off", "get", "flush"}
    /\ deadlineIn \in 0 .. FLUSH_INTERVAL
    /\ spans \in [Rows -> Nat]
    /\ received \in SUBSET Rows
    /\ analysis_queue \in Seq(Rows)
    /\ attempt \in 0 .. ATTEMPTS - 1
    /\ sleepLeft \in Nat
    /\ insertAge \in 0 .. INSERT_TIME

\* A row that was added is on its way or was settled.
PlaceInv ==
    /\ proc = "down" => received = {}
    /\ \A s \in received : spans[s] > 0 \/ s \in dropped \union ToSet(queue) \union ToSet(buffer)

\* A row that is not in the first batch of the queue had one before it.
BacklogInv == \A i \in DOMAIN queue : i > BATCH_SIZE => queue[i] \in backlogged

WorkerInv ==
    /\ proc \in {"down", "up"}
    /\ ToSet(analysis_queue) \subseteq received
    /\ trying # Nobody => trying \in received
    /\ trying = Nobody => sleepLeft = 0

\* Ticks until the insert of a row in the buffer ends, at most.
BufferWait == IF loop = "flush" THEN INSERT_TIME - insertAge ELSE deadlineIn + INSERT_TIME

\* The same for the row at place i of the queue, i being at most a batch: it
\* goes to the next buffer or, if there is room and time left, to this one.
QueueWait(i) ==
    IF loop = "flush" THEN (INSERT_TIME - insertAge) + FLUSH_INTERVAL + INSERT_TIME
    ELSE IF (deadlineIn > 0 \/ buffer = <<>>) /\ Len(buffer) + i <= BATCH_SIZE
    THEN FLUSH_INTERVAL + INSERT_TIME
    ELSE FLUSH_INTERVAL + 2 * INSERT_TIME

\* Twice the sleeps that follow try number a.
Rest(a) == BACKOFF * (ATTEMPTS * (ATTEMPTS - 1) - a * (a + 1))

Budget == 2 * sleepLeft + Rest(attempt)

BudgetInv ==
    trying \notin backlogged \union {Nobody} =>
        /\ trying \in ToSet(buffer) => 2 * BufferWait < Budget
        /\ \A i \in DOMAIN queue : queue[i] = trying => 2 * QueueWait(i) < Budget

\* The invariant that is inductive.
PInv == PipelineTypeOK /\ PlaceInv /\ BacklogInv /\ WorkerInv /\ BudgetInv /\ GivenUpHasCause

-----------------------------------------------------------------------------
(* Steps *)

LEMMA StepCases ==
    ASSUME [PipelineNext]_allVars
    PROVE  \/ StartAnalyser \/ (\E s \in Rows : AddRow(s)) \/ (\E s \in Rows : Enqueue(s))
           \/ (FlushStep /\ Get) \/ (FlushStep /\ TimeOut) \/ (FlushStep /\ FlushReturns)
           \/ Pop \/ TryFinds \/ TryMisses \/ ClockTick \/ UNCHANGED allVars
BY DEF PipelineNext, FlushStep

\* The pipeline runs the batcher: every behaviour of it is one of SpanBatcher.
THEOREM PipelineRunsBatcher == PipelineSpec => Spec
<1>1. PipelineInit => Init
  BY DEF PipelineInit
<1>2. [PipelineNext]_allVars => [Next]_vars
  BY StepCases DEF StartAnalyser, AddRow, Enqueue, FlushStep, Pop, TryFinds, TryMisses, Missing,
                   ClockTick, allVars, Next, FlushLoop
<1>3. QED BY <1>1, <1>2, PTL DEF PipelineSpec, Spec

-----------------------------------------------------------------------------
(* Sequences *)

LEMMA AppendFacts ==
    ASSUME NEW S, NEW q \in Seq(S), NEW e \in S
    PROVE  /\ Append(q, e) \in Seq(S) /\ ToSet(Append(q, e)) = ToSet(q) \union {e}
           /\ Len(q) \in Nat /\ DOMAIN q = 1 .. Len(q) /\ DOMAIN Append(q, e) = 1 .. Len(q) + 1
           /\ \A i \in DOMAIN q : Append(q, e)[i] = q[i]
           /\ Append(q, e)[Len(q) + 1] = e
<1>1. /\ Append(q, e) \in Seq(S) /\ Len(q) \in Nat
      /\ DOMAIN q = 1 .. Len(q) /\ DOMAIN Append(q, e) = 1 .. Len(q) + 1
  OBVIOUS
<1>2. (\A i \in 1 .. Len(q) : Append(q, e)[i] = q[i]) /\ Append(q, e)[Len(q) + 1] = e
  OBVIOUS
<1>3. QED BY <1>1, <1>2 DEF ToSet

LEMMA TailFacts ==
    ASSUME NEW S, NEW q \in Seq(S), q # <<>>
    PROVE  /\ Tail(q) \in Seq(S) /\ Head(q) \in S /\ Head(q) = q[1] /\ 1 \in DOMAIN q
           /\ \A i \in DOMAIN Tail(q) : i \in Nat \ {0} /\ i + 1 \in DOMAIN q /\ Tail(q)[i] = q[i + 1]
           /\ ToSet(q) = {Head(q)} \union ToSet(Tail(q))
<1>1. /\ Len(q) \in Nat \ {0} /\ DOMAIN q = 1 .. Len(q) /\ Tail(q) \in Seq(S)
      /\ DOMAIN Tail(q) = 1 .. Len(q) - 1 /\ Head(q) = q[1] /\ q[1] \in S
  OBVIOUS
<1>2. \A i \in 1 .. Len(q) - 1 : Tail(q)[i] = q[i + 1]
  OBVIOUS
<1>3. \A i \in 1 .. Len(q) : i = 1 \/ (i - 1 \in 1 .. Len(q) - 1 /\ (i - 1) + 1 = i)
  BY <1>1
<1>4. \A i \in 1 .. Len(q) - 1 : i \in Nat \ {0} /\ i + 1 \in 1 .. Len(q)
  BY <1>1
<1>5. ToSet(q) \subseteq {Head(q)} \union ToSet(Tail(q))
  <2> SUFFICES ASSUME NEW i \in 1 .. Len(q) PROVE q[i] \in {Head(q)} \union ToSet(Tail(q))
    BY <1>1 DEF ToSet
  <2>1. CASE i = 1
    BY <1>1, <2>1
  <2>2. CASE i # 1
    <3>1. PICK j \in 1 .. Len(q) - 1 : j + 1 = i
      BY <1>3, <2>2
    <3>2. j \in DOMAIN Tail(q) /\ Tail(q)[j] = q[i]
      BY <1>1, <1>2, <3>1
    <3>3. QED BY <3>2 DEF ToSet
  <2>3. QED BY <2>1, <2>2
<1>6. {Head(q)} \union ToSet(Tail(q)) \subseteq ToSet(q)
  BY <1>1, <1>2, <1>4 DEF ToSet
<1>7. QED BY <1>1, <1>2, <1>4, <1>5, <1>6

-----------------------------------------------------------------------------
(* The two clocks *)

\* The constants without the products of the assumption.
LEMMA Times ==
    /\ INSERT_TIME \in Nat /\ FLUSH_INTERVAL \in Nat \ {0} /\ BATCH_SIZE \in Nat \ {0}
    /\ ATTEMPTS \in Nat \ {0} /\ BACKOFF \in Nat
BY TriesOutlastFlush, BatcherAssumption

LEMMA RestFacts ==
    /\ \A a \in Nat : Rest(a) \in Int
    /\ 2 * (FLUSH_INTERVAL + 2 * INSERT_TIME) < Rest(0)
    /\ \A a \in Nat : Rest(a) = 2 * ((a + 1) * BACKOFF) + Rest(a + 1)
    /\ Rest(ATTEMPTS - 1) = 0
<1> USE TriesOutlastFlush, BatcherAssumption
<1>1. \A a \in Nat : Rest(a) \in Int
  BY DEF Rest
<1>2. 2 * (FLUSH_INTERVAL + 2 * INSERT_TIME) < Rest(0)
  BY DEF Rest
<1>3. \A a \in Nat : Rest(a) = 2 * ((a + 1) * BACKOFF) + Rest(a + 1)
  BY DEF Rest
<1>4. Rest(ATTEMPTS - 1) = 0
  BY DEF Rest
<1>5. QED BY <1>1, <1>2, <1>3, <1>4

LEMMA BufferWaitBounds ==
    ASSUME PipelineTypeOK
    PROVE  BufferWait \in Nat /\ BufferWait <= FLUSH_INTERVAL + INSERT_TIME
BY Times DEF PipelineTypeOK, BufferWait

LEMMA QueueWaitBounds ==
    ASSUME PipelineTypeOK, NEW i \in DOMAIN queue
    PROVE  /\ QueueWait(i) \in Nat /\ FLUSH_INTERVAL + INSERT_TIME <= QueueWait(i)
           /\ QueueWait(i) <= FLUSH_INTERVAL + 2 * INSERT_TIME
BY Times DEF PipelineTypeOK, QueueWait

LEMMA NextWaits ==
    ASSUME PipelineTypeOK'
    PROVE  BufferWait' \in Nat /\ \A i \in DOMAIN queue' : QueueWait(i)' \in Nat
<1>1. PICK age \in 0 .. INSERT_TIME : age = insertAge'
  BY DEF PipelineTypeOK
<1>2. PICK left \in 0 .. FLUSH_INTERVAL : left = deadlineIn'
  BY DEF PipelineTypeOK
<1>3. INSERT_TIME - age \in Nat /\ left + INSERT_TIME \in Nat
  BY Times
<1>4. BufferWait' \in Nat
  BY <1>1, <1>2, <1>3 DEF BufferWait
<1>5. ASSUME NEW i \in DOMAIN queue' PROVE QueueWait(i)' \in Nat
  <2>1. QueueWait(i)' \in {(INSERT_TIME - age) + FLUSH_INTERVAL + INSERT_TIME,
                           FLUSH_INTERVAL + INSERT_TIME, FLUSH_INTERVAL + 2 * INSERT_TIME}
    BY <1>1 DEF QueueWait
  <2>2. QED BY <1>3, <2>1, Times
<1>6. QED BY <1>4, <1>5

LEMMA BudgetType ==
    ASSUME PipelineTypeOK
    PROVE  attempt \in Nat /\ Rest(attempt) \in Int /\ Budget \in Int
<1>1. attempt \in Nat
  BY Times DEF PipelineTypeOK
<1>2. Rest(attempt) \in Int
  BY <1>1, RestFacts
<1>3. QED BY <1>1, <1>2 DEF Budget, PipelineTypeOK

LEMMA Sooner ==
    ASSUME NEW v \in Nat, NEW w \in Nat, NEW b \in Int, w <= v, 2 * v < b
    PROVE  2 * w < b
OBVIOUS

\* The budget of the worker is met if the waits do not grow beyond what they were.
LEMMA BudgetKept ==
    ASSUME BudgetInv, UNCHANGED <<trying, attempt, sleepLeft>>, backlogged \subseteq backlogged',
           PipelineTypeOK, PipelineTypeOK',
           trying \in ToSet(buffer') =>
               \/ trying \in ToSet(buffer) /\ BufferWait' <= BufferWait
               \/ \E i \in DOMAIN queue : queue[i] = trying /\ BufferWait' <= QueueWait(i),
           \A j \in DOMAIN queue' : queue'[j] = trying /\ trying \notin backlogged =>
               \E i \in DOMAIN queue : queue[i] = trying /\ QueueWait(j)' <= QueueWait(i)
    PROVE  BudgetInv'
<1> SUFFICES ASSUME trying \notin backlogged \union {Nobody}
             PROVE  /\ trying \in ToSet(buffer') => 2 * BufferWait' < Budget
                    /\ \A j \in DOMAIN queue' : queue'[j] = trying => 2 * QueueWait(j)' < Budget
  BY DEF BudgetInv, Budget, Rest
<1>1. /\ trying \in ToSet(buffer) => 2 * BufferWait < Budget
      /\ \A i \in DOMAIN queue : queue[i] = trying => 2 * QueueWait(i) < Budget
  BY DEF BudgetInv
<1>2. Budget \in Int
  BY BudgetType
<1>3. BufferWait \in Nat /\ \A i \in DOMAIN queue : QueueWait(i) \in Nat
  BY BufferWaitBounds, QueueWaitBounds
<1>4. BufferWait' \in Nat /\ \A j \in DOMAIN queue' : QueueWait(j)' \in Nat
  BY NextWaits
<1>5. ASSUME trying \in ToSet(buffer') PROVE 2 * BufferWait' < Budget
  <2>1. CASE trying \in ToSet(buffer) /\ BufferWait' <= BufferWait
    BY <1>1, <1>2, <1>3, <1>4, <2>1, Sooner
  <2>2. CASE \E i \in DOMAIN queue : queue[i] = trying /\ BufferWait' <= QueueWait(i)
    <3>1. PICK i \in DOMAIN queue : queue[i] = trying /\ BufferWait' <= QueueWait(i)
      BY <2>2
    <3>2. 2 * QueueWait(i) < Budget /\ QueueWait(i) \in Nat
      BY <1>1, <1>3, <3>1
    <3>3. QED BY <1>2, <1>4, <3>1, <3>2, Sooner
  <2>3. QED BY <1>5, <2>1, <2>2
<1>6. ASSUME NEW j \in DOMAIN queue', queue'[j] = trying PROVE 2 * QueueWait(j)' < Budget
  <2>1. PICK i \in DOMAIN queue : queue[i] = trying /\ QueueWait(j)' <= QueueWait(i)
    BY <1>6
  <2>2. 2 * QueueWait(i) < Budget /\ QueueWait(i) \in Nat /\ QueueWait(j)' \in Nat
    BY <1>1, <1>3, <1>4, <1>6, <2>1
  <2>3. QED BY <1>2, <2>1, <2>2, Sooner
<1>7. QED BY <1>5, <1>6

-----------------------------------------------------------------------------
(* One lemma per step *)

LEMMA AddRowStep ==
    ASSUME PInv, NEW s \in Rows, AddRow(s)
    PROVE  PInv'
<1>1. /\ s \in Rows \ received /\ received' = received \union {s} /\ queue' = Append(queue, s)
      /\ proc = "up" /\ proc' = proc
      /\ backlogged' = IF Len(queue) >= BATCH_SIZE THEN backlogged \union {s} ELSE backlogged
      /\ UNCHANGED <<buffer, loop, deadlineIn, spans, dropped, analysis_queue, workerVars, insertAge>>
  BY DEF AddRow, Add, PInv, PipelineTypeOK, lifeVars, loopVars, tableVars
<1>2. UNCHANGED <<trying, attempt, sleepLeft, processed, givenUp>>
  BY <1>1 DEF workerVars
<1>3. /\ queue' \in Seq(Rows) /\ ToSet(queue') = ToSet(queue) \union {s}
      /\ Len(queue) \in Nat /\ DOMAIN queue = 1 .. Len(queue) /\ DOMAIN queue' = 1 .. Len(queue) + 1
      /\ \A i \in DOMAIN queue : queue'[i] = queue[i]
      /\ queue'[Len(queue) + 1] = s
  BY <1>1, AppendFacts DEF PInv, PipelineTypeOK
<1>4. PipelineTypeOK'
  BY <1>1, <1>2, <1>3 DEF PInv, PipelineTypeOK
<1>5. PlaceInv'
  BY <1>1, <1>3 DEF PInv, PlaceInv, PipelineTypeOK
<1>6. BacklogInv'
  BY <1>1, <1>3, Times DEF PInv, BacklogInv
<1>7. WorkerInv'
  BY <1>1, <1>2 DEF PInv, WorkerInv
<1>8. BudgetInv'
  <2>1. BufferWait' = BufferWait /\ \A j \in DOMAIN queue' : QueueWait(j)' = QueueWait(j)
    BY <1>1 DEF BufferWait, QueueWait
  <2>2. \A i \in DOMAIN queue : QueueWait(i) \in Nat
    BY QueueWaitBounds DEF PInv
  <2>3. BufferWait \in Nat
    BY BufferWaitBounds DEF PInv
  <2>4. CASE trying = Nobody
    BY <1>2, <2>4 DEF BudgetInv
  <2>5. CASE trying # Nobody
    <3>1. trying # s
      BY <1>1, <2>5 DEF PInv, WorkerInv
    <3>2. \A j \in DOMAIN queue' : queue'[j] = trying => j \in DOMAIN queue /\ queue[j] = trying
      BY <1>3, <3>1
    <3>3. backlogged \subseteq backlogged' /\ ToSet(buffer') = ToSet(buffer)
      BY <1>1
    <3>4. \A j \in DOMAIN queue' : queue'[j] = trying =>
              \E i \in DOMAIN queue : queue[i] = trying /\ QueueWait(j)' <= QueueWait(i)
      BY <2>1, <2>2, <3>2
    <3>5. QED BY <1>2, <1>4, <2>1, <2>3, <3>3, <3>4, BudgetKept DEF PInv
  <2>6. QED BY <2>4, <2>5
<1>9. GivenUpHasCause'
  BY <1>1, <1>2 DEF PInv, GivenUpHasCause
<1>10. QED BY <1>4, <1>5, <1>6, <1>7, <1>8, <1>9 DEF PInv

LEMMA GetStep ==
    ASSUME PInv, FlushStep, Get
    PROVE  PInv'
<1>1. /\ loop = "get" /\ deadlineIn > 0 /\ queue # <<>>
      /\ buffer' = Append(buffer, Head(queue)) /\ queue' = Tail(queue)
      /\ IF Len(buffer') >= BATCH_SIZE THEN loop' = "flush" ELSE loop' = loop
      /\ UNCHANGED <<proc, deadlineIn, spans, dropped, received>> /\ insertAge' = 0
      /\ UNCHANGED <<analysis_queue, trying, attempt, sleepLeft, processed, givenUp, backlogged>>
  BY DEF FlushStep, Get, lifeVars, tableVars, historyVars, workerVars
<1>2. /\ queue' \in Seq(Rows) /\ Head(queue) \in Rows /\ Head(queue) = queue[1] /\ 1 \in DOMAIN queue
      /\ \A i \in DOMAIN queue' : i \in Nat \ {0} /\ i + 1 \in DOMAIN queue /\ queue'[i] = queue[i + 1]
      /\ ToSet(queue) = {Head(queue)} \union ToSet(queue')
  BY <1>1, TailFacts DEF PInv, PipelineTypeOK
<1>3. /\ buffer' \in Seq(Rows) /\ ToSet(buffer') = ToSet(buffer) \union {Head(queue)}
      /\ Len(buffer) \in Nat /\ Len(buffer') = Len(buffer) + 1
  BY <1>1, <1>2, AppendFacts DEF PInv, PipelineTypeOK
<1>4. PipelineTypeOK'
  BY <1>1, <1>2, <1>3, Times DEF PInv, PipelineTypeOK
<1>5. PlaceInv'
  BY <1>1, <1>2, <1>3 DEF PInv, PlaceInv
<1>6. BacklogInv'
  BY <1>1, <1>2, Times DEF PInv, BacklogInv
<1>7. WorkerInv'
  BY <1>1 DEF PInv, WorkerInv
<1>8. BudgetInv'
  <2>1. BufferWait \in Nat /\ \A i \in DOMAIN queue : QueueWait(i) \in Nat
    BY BufferWaitBounds, QueueWaitBounds DEF PInv
  <2>2. BufferWait' <= BufferWait /\ BufferWait' <= QueueWait(1)
    BY <1>1, <1>2, <1>4, Times
    DEF PInv, PipelineTypeOK, BufferWait, QueueWait
  <2>3. ASSUME NEW j \in DOMAIN queue' PROVE QueueWait(j)' <= QueueWait(j + 1)
    <3>1. j \in Nat \ {0}
      BY <1>2, <2>3
    <3>2. CASE loop' = "flush"
      <4>1. Len(buffer) + 1 >= BATCH_SIZE
        BY <1>1, <1>3, <3>2
      <4>2. ~(Len(buffer) + (j + 1) <= BATCH_SIZE)
        BY <1>3, <3>1, <4>1, Times
      <4>3. QED BY <1>1, <3>2, <4>2, Times DEF QueueWait
    <3>3. CASE loop' = "get"
      <4>1. Len(buffer') + j = Len(buffer) + (j + 1)
        BY <1>3, <3>1
      <4>2. QED BY <1>1, <3>3, <4>1, Times DEF QueueWait
    <3>4. QED BY <1>1, <3>2, <3>3
  <2>4. trying \in ToSet(buffer') =>
            \/ trying \in ToSet(buffer) /\ BufferWait' <= BufferWait
            \/ \E i \in DOMAIN queue : queue[i] = trying /\ BufferWait' <= QueueWait(i)
    BY <1>2, <1>3, <2>2
  <2>5. \A j \in DOMAIN queue' : queue'[j] = trying =>
            \E i \in DOMAIN queue : queue[i] = trying /\ QueueWait(j)' <= QueueWait(i)
    BY <1>2, <2>3
  <2>6. QED BY <1>1, <1>4, <2>4, <2>5, BudgetKept DEF PInv
<1>9. GivenUpHasCause'
  BY <1>1 DEF PInv, GivenUpHasCause
<1>10. QED BY <1>4, <1>5, <1>6, <1>7, <1>8, <1>9 DEF PInv

LEMMA TimeOutStep ==
    ASSUME PInv, FlushStep, TimeOut
    PROVE  PInv'
<1>1. /\ loop = "get" /\ deadlineIn = 0
      /\ IF buffer # <<>> THEN loop' = "flush" /\ deadlineIn' = deadlineIn
                          ELSE loop' = loop /\ deadlineIn' = FLUSH_INTERVAL
      /\ UNCHANGED <<proc, queue, buffer, spans, dropped, received>> /\ insertAge' = 0
      /\ UNCHANGED <<analysis_queue, trying, attempt, sleepLeft, processed, givenUp, backlogged>>
  BY DEF FlushStep, TimeOut, lifeVars, tableVars, historyVars, workerVars
<1>2. PipelineTypeOK'
  BY <1>1, Times DEF PInv, PipelineTypeOK
<1>3. PlaceInv' /\ BacklogInv' /\ WorkerInv' /\ GivenUpHasCause'
  BY <1>1 DEF PInv, PlaceInv, BacklogInv, WorkerInv, GivenUpHasCause
<1>4. BudgetInv'
  <2>1. BufferWait \in Nat /\ \A i \in DOMAIN queue : QueueWait(i) \in Nat
    BY BufferWaitBounds, QueueWaitBounds DEF PInv
  <2>2. buffer # <<>> => BufferWait' <= BufferWait
    BY <1>1, Times DEF BufferWait
  <2>3. \A j \in DOMAIN queue : QueueWait(j)' <= QueueWait(j)
    BY <1>1, Times DEF QueueWait
  <2>4. buffer = <<>> => ToSet(buffer') = {}
    BY <1>1 DEF ToSet
  <2>5. trying \in ToSet(buffer') => trying \in ToSet(buffer) /\ BufferWait' <= BufferWait
    BY <1>1, <2>2, <2>4
  <2>6. QED BY <1>1, <1>2, <2>3, <2>5, BudgetKept DEF PInv
<1>5. QED BY <1>2, <1>3, <1>4 DEF PInv

LEMMA FlushReturnsStep ==
    ASSUME PInv, FlushStep, FlushReturns
    PROVE  PInv'
<1>1. /\ loop = "flush" /\ loop' = "get" /\ buffer' = <<>> /\ deadlineIn' = FLUSH_INTERVAL
      /\ UNCHANGED <<proc, queue, received>> /\ insertAge' = 0
      /\ UNCHANGED <<analysis_queue, trying, attempt, sleepLeft, processed, givenUp, backlogged>>
  BY DEF FlushStep, FlushReturns, FreshLoop, lifeVars, historyVars, workerVars
<1>2. /\ spans' \in [Rows -> Nat] /\ \A r \in Rows : spans'[r] >= spans[r]
      /\ dropped \subseteq dropped'
      /\ \A r \in Rows : r \in ToSet(buffer) => spans'[r] > 0 \/ r \in dropped'
  <2> DEFINE B == ToSet(buffer)
  <2>1. \/ Apply(B) /\ dropped' = dropped
        \/ dropped' = dropped \union B /\ spans' = spans
        \/ Apply(B) /\ dropped' = dropped \union B
    BY DEF FlushReturns, InsertReturns
  <2>2. spans \in [Rows -> Nat]
    BY DEF PInv, PipelineTypeOK
  <2> HIDE DEF B
  <2>3. CASE Apply(B) /\ dropped \subseteq dropped'
    BY <2>2, <2>3 DEF Apply, B
  <2>4. CASE dropped' = dropped \union B /\ spans' = spans
    BY <2>2, <2>4 DEF B
  <2>5. QED BY <2>1, <2>3, <2>4
<1>3. ToSet(buffer') = {} /\ Len(buffer') = 0 /\ buffer' \in Seq(Rows)
  BY <1>1 DEF ToSet
<1>4. PipelineTypeOK'
  BY <1>1, <1>2, <1>3, Times DEF PInv, PipelineTypeOK
<1>5. PlaceInv'
  BY <1>1, <1>2, <1>3 DEF PInv, PlaceInv, PipelineTypeOK
<1>6. BacklogInv' /\ WorkerInv' /\ GivenUpHasCause'
  BY <1>1, <1>2 DEF PInv, BacklogInv, WorkerInv, GivenUpHasCause
<1>7. BudgetInv'
  <2>1. ASSUME NEW j \in DOMAIN queue, queue[j] \notin backlogged PROVE QueueWait(j)' <= QueueWait(j)
    <3>1. j \in Nat /\ j <= BATCH_SIZE
      BY <2>1, Times DEF PInv, BacklogInv, PipelineTypeOK
    <3>2. QueueWait(j)' = FLUSH_INTERVAL + INSERT_TIME
      BY <1>1, <1>3, <3>1, Times DEF QueueWait
    <3>3. QED BY <3>2, QueueWaitBounds DEF PInv
  <2>2. QED BY <1>1, <1>3, <1>4, <2>1, BudgetKept DEF PInv
<1>8. QED BY <1>4, <1>5, <1>6, <1>7 DEF PInv

LEMMA StartStep ==
    ASSUME PInv, StartAnalyser
    PROVE  PInv'
<1>1. /\ proc \in {"down", "exited"} /\ proc' = "up"
      /\ queue' = <<>> /\ buffer' = <<>> /\ loop' = "get" /\ deadlineIn' = FLUSH_INTERVAL
      /\ UNCHANGED <<spans, dropped, received>>
      /\ UNCHANGED <<analysis_queue, trying, attempt, sleepLeft, processed, givenUp, insertAge, backlogged>>
  BY DEF StartAnalyser, Start, FreshLoop, tableVars, workerVars
<1>2. received = {} /\ trying = Nobody
  BY <1>1 DEF PInv, WorkerInv, PlaceInv
<1>3. queue' \in Seq(Rows) /\ buffer' \in Seq(Rows) /\ DOMAIN queue' = {}
  BY <1>1
<1>4. PipelineTypeOK'
  BY <1>1, <1>3, Times DEF PInv, PipelineTypeOK
<1>5. PlaceInv' /\ BacklogInv' /\ WorkerInv' /\ BudgetInv' /\ GivenUpHasCause'
  BY <1>1, <1>2, <1>3 DEF PInv, PlaceInv, BacklogInv, WorkerInv, BudgetInv, GivenUpHasCause
<1>6. QED BY <1>4, <1>5 DEF PInv

LEMMA EnqueueStep ==
    ASSUME PInv, NEW s \in Rows, Enqueue(s)
    PROVE  PInv'
<1>1. /\ s \in received /\ analysis_queue' = Append(analysis_queue, s)
      /\ UNCHANGED <<proc, queue, buffer, loop, deadlineIn, spans, dropped, received>>
      /\ UNCHANGED <<trying, attempt, sleepLeft, givenUp, insertAge, backlogged>>
  BY DEF Enqueue, workerVars, vars, lifeVars, loopVars, tableVars, historyVars
<1>2. analysis_queue' \in Seq(Rows) /\ ToSet(analysis_queue') = ToSet(analysis_queue) \union {s}
  BY <1>1, AppendFacts DEF PInv, PipelineTypeOK
<1>3. PipelineTypeOK'
  BY <1>1, <1>2 DEF PInv, PipelineTypeOK
<1>4. PlaceInv' /\ BacklogInv' /\ WorkerInv' /\ GivenUpHasCause'
  BY <1>1, <1>2 DEF PInv, PlaceInv, BacklogInv, WorkerInv, GivenUpHasCause
<1>5. BudgetInv'
  BY <1>1 DEF PInv, BudgetInv, Budget, Rest, BufferWait, QueueWait
<1>6. QED BY <1>3, <1>4, <1>5 DEF PInv

LEMMA PopStep ==
    ASSUME PInv, Pop
    PROVE  PInv'
<1>1. /\ trying = Nobody /\ analysis_queue # <<>> /\ trying' = Head(analysis_queue)
      /\ analysis_queue' = Tail(analysis_queue) /\ attempt' = 0
      /\ UNCHANGED <<proc, queue, buffer, loop, deadlineIn, spans, dropped, received>>
      /\ UNCHANGED <<sleepLeft, givenUp, insertAge, backlogged>>
  BY DEF Pop, vars, lifeVars, loopVars, tableVars, historyVars
<1>2. /\ analysis_queue' \in Seq(Rows)
      /\ ToSet(analysis_queue) = {trying'} \union ToSet(analysis_queue')
  BY <1>1, TailFacts DEF PInv, PipelineTypeOK
<1>3. PipelineTypeOK'
  BY <1>1, <1>2, Times DEF PInv, PipelineTypeOK
<1>4. PlaceInv' /\ BacklogInv' /\ WorkerInv' /\ GivenUpHasCause'
  BY <1>1, <1>2 DEF PInv, PlaceInv, BacklogInv, WorkerInv, GivenUpHasCause
<1>5. BudgetInv'
  <2>1. Budget' = Rest(0)
    <3>1. sleepLeft' = 0
      BY <1>1 DEF PInv, WorkerInv
    <3>2. Rest(attempt)' = Rest(0)
      BY <1>1 DEF Rest
    <3>3. Rest(0) \in Int
      BY RestFacts
    <3>4. QED BY <3>1, <3>2, <3>3 DEF Budget
  <2>2. Rest(0) \in Int /\ 2 * (FLUSH_INTERVAL + 2 * INSERT_TIME) < Rest(0)
    BY RestFacts
  <2>3. BufferWait' = BufferWait /\ \A i \in DOMAIN queue : QueueWait(i)' = QueueWait(i)
    BY <1>1 DEF BufferWait, QueueWait
  <2>4. FLUSH_INTERVAL + 2 * INSERT_TIME \in Nat
    BY Times
  <2>5. BufferWait \in Nat /\ BufferWait <= FLUSH_INTERVAL + 2 * INSERT_TIME
    BY BufferWaitBounds, Times DEF PInv
  <2>6. 2 * BufferWait < Rest(0)
    BY <2>2, <2>4, <2>5, Sooner
  <2>7. \A i \in DOMAIN queue : 2 * QueueWait(i) < Rest(0)
    BY <2>2, <2>4, QueueWaitBounds, Sooner DEF PInv
  <2>8. QED BY <1>1, <2>1, <2>3, <2>6, <2>7 DEF BudgetInv
<1>6. QED BY <1>3, <1>4, <1>5 DEF PInv

LEMMA TryFindsStep ==
    ASSUME PInv, TryFinds
    PROVE  PInv'
<1>1. /\ sleepLeft = 0 /\ trying' = Nobody
      /\ UNCHANGED <<proc, queue, buffer, loop, deadlineIn, spans, dropped, received>>
      /\ UNCHANGED <<analysis_queue, attempt, sleepLeft, givenUp, insertAge, backlogged>>
  BY DEF TryFinds, Done, vars, lifeVars, loopVars, tableVars, historyVars
<1>2. PipelineTypeOK'
  BY <1>1 DEF PInv, PipelineTypeOK
<1>3. PlaceInv' /\ BacklogInv' /\ WorkerInv' /\ BudgetInv' /\ GivenUpHasCause'
  BY <1>1 DEF PInv, PlaceInv, BacklogInv, WorkerInv, BudgetInv, GivenUpHasCause
<1>4. QED BY <1>2, <1>3 DEF PInv

\* A try that misses takes from one side of the budget what it adds to the
\* other; at the last there is nothing left, so the row cannot be on its way.
LEMMA TryMissesStep ==
    ASSUME PInv, TryMisses
    PROVE  PInv'
<1>1. /\ trying # Nobody /\ sleepLeft = 0 /\ spans[trying] = 0
      /\ UNCHANGED <<proc, queue, buffer, loop, deadlineIn, spans, dropped, received>>
      /\ UNCHANGED <<analysis_queue, insertAge, backlogged>>
  BY DEF TryMisses, Missing, vars, lifeVars, loopVars, tableVars, historyVars
<1>2. PlaceInv' /\ BacklogInv'
  BY <1>1 DEF PInv, PlaceInv, BacklogInv
<1>3. BufferWait' = BufferWait /\ \A i \in DOMAIN queue : QueueWait(i)' = QueueWait(i)
  BY <1>1 DEF BufferWait, QueueWait
<1>4. CASE attempt + 1 < ATTEMPTS
  <2>1. /\ attempt' = attempt + 1 /\ sleepLeft' = (attempt + 1) * BACKOFF
        /\ trying' = trying /\ givenUp' = givenUp
    BY <1>4 DEF TryMisses, TryAgain
  <2>2. attempt \in Nat /\ sleepLeft' \in Nat
    <3>1. attempt \in Nat
      BY BudgetType DEF PInv
    <3>2. QED BY <2>1, <3>1, Times
  <2>3. attempt' \in 0 .. ATTEMPTS - 1
    BY <1>4, <2>1, <2>2, Times
  <2>4. PipelineTypeOK' /\ WorkerInv' /\ GivenUpHasCause'
    BY <1>1, <2>1, <2>2, <2>3 DEF PInv, PipelineTypeOK, WorkerInv, GivenUpHasCause
  <2>5. Budget' = Budget
    <3>1. Rest(attempt) = 2 * ((attempt + 1) * BACKOFF) + Rest(attempt + 1)
      BY <2>2, RestFacts
    <3>2. Rest(attempt)' = Rest(attempt + 1)
      BY <2>1 DEF Rest
    <3>3. Budget' = 2 * ((attempt + 1) * BACKOFF) + Rest(attempt + 1)
      BY <2>1, <3>2 DEF Budget
    <3>4. Budget = Rest(attempt)
      BY <1>1, BudgetType DEF Budget, PInv
    <3>5. QED BY <3>1, <3>3, <3>4
  <2>6. BudgetInv'
    BY <1>1, <1>3, <2>1, <2>5 DEF PInv, BudgetInv
  <2>7. QED BY <1>2, <2>4, <2>6 DEF PInv
<1>5. CASE ~(attempt + 1 < ATTEMPTS)
  <2>1. /\ givenUp' = givenUp \union {trying} /\ trying' = Nobody
        /\ UNCHANGED <<attempt, sleepLeft>>
    BY <1>5 DEF TryMisses, GiveUp, Done
  <2>2. PipelineTypeOK' /\ WorkerInv' /\ BudgetInv'
    BY <1>1, <2>1 DEF PInv, PipelineTypeOK, WorkerInv, BudgetInv
  <2>3. attempt = ATTEMPTS - 1
    BY <1>5, Times DEF PInv, PipelineTypeOK
  <2>4. Budget = 0
    BY <1>1, <2>3, RestFacts DEF Budget
  <2>5. ASSUME trying \notin backlogged PROVE trying \in dropped
    <3>1. /\ trying \in ToSet(buffer) => 2 * BufferWait < 0
          /\ \A i \in DOMAIN queue : queue[i] = trying => 2 * QueueWait(i) < 0
      BY <1>1, <2>4, <2>5 DEF PInv, BudgetInv
    <3>2. BufferWait \in Nat /\ \A i \in DOMAIN queue : QueueWait(i) \in Nat
      BY BufferWaitBounds, QueueWaitBounds DEF PInv
    <3>3. \A w \in Nat : ~(2 * w < 0)
      OBVIOUS
    <3>4. trying \notin ToSet(buffer)
      BY <3>1, <3>2, <3>3
    <3>5. \A i \in DOMAIN queue : queue[i] # trying
      BY <3>1, <3>2, <3>3
    <3>6. trying \notin ToSet(queue)
      BY <3>5 DEF ToSet
    <3>7. trying \in received
      BY <1>1 DEF PInv, WorkerInv
    <3>8. ~(spans[trying] > 0)
      BY <1>1
    <3>9. QED BY <3>4, <3>6, <3>7, <3>8 DEF PInv, PlaceInv
  <2>6. GivenUpHasCause'
    BY <1>1, <2>1, <2>5 DEF PInv, GivenUpHasCause
  <2>7. QED BY <1>2, <2>2, <2>6 DEF PInv
<1>6. QED BY <1>4, <1>5

\* A tick: what is on its way comes nearer by as much as the worker sleeps.
LEMMA ClockTickStep ==
    ASSUME PInv, ClockTick
    PROVE  PInv'
<1>1. /\ UNCHANGED <<proc, queue, buffer, loop, spans, dropped, received>>
      /\ UNCHANGED <<analysis_queue, trying, attempt, givenUp, backlogged>>
      /\ sleepLeft' = IF sleepLeft > 0 THEN sleepLeft - 1 ELSE 0
      /\ \/ /\ loop = "get" /\ deadlineIn > 0 /\ queue = <<>>
            /\ deadlineIn' = deadlineIn - 1 /\ insertAge' = insertAge
         \/ /\ loop = "flush" /\ insertAge # INSERT_TIME
            /\ insertAge' = insertAge + 1 /\ deadlineIn' = deadlineIn
  BY DEF ClockTick, Due, Tick, vars, lifeVars, loopVars, tableVars, historyVars
<1>2. sleepLeft \in Nat /\ deadlineIn \in 0 .. FLUSH_INTERVAL /\ insertAge \in 0 .. INSERT_TIME
  BY DEF PInv, PipelineTypeOK
<1>3. sleepLeft' \in Nat /\ sleepLeft' >= sleepLeft - 1
  BY <1>1, <1>2
<1>4. deadlineIn' \in 0 .. FLUSH_INTERVAL /\ insertAge' \in 0 .. INSERT_TIME
  BY <1>1, <1>2, Times
<1>5. PipelineTypeOK'
  BY <1>1, <1>3, <1>4 DEF PInv, PipelineTypeOK
<1>6. PlaceInv' /\ BacklogInv' /\ GivenUpHasCause'
  BY <1>1 DEF PInv, PlaceInv, BacklogInv, GivenUpHasCause
<1>7. WorkerInv'
  BY <1>1 DEF PInv, WorkerInv
<1>8. BudgetInv'
  <2>1. Budget' \in Int /\ Budget \in Int /\ Budget' >= Budget - 2
    <3>1. Rest(attempt) \in Int /\ Rest(attempt)' = Rest(attempt)
      BY <1>1, BudgetType DEF PInv, Rest
    <3>2. QED BY <1>2, <1>3, <3>1 DEF Budget
  <2>2. BufferWait' = BufferWait - 1
    <3>1. CASE loop = "get"
      BY <1>1, <1>2, <3>1, Times DEF BufferWait
    <3>2. CASE loop = "flush"
      BY <1>1, <1>2, <3>2, Times DEF BufferWait
    <3>3. QED BY <1>1, <3>1, <3>2
  <2>3. \A i \in DOMAIN queue : QueueWait(i)' = QueueWait(i) - 1
    <3>1. CASE queue = <<>>
      BY <3>1
    <3>2. CASE loop = "flush"
      BY <1>1, <1>2, <3>2, Times DEF QueueWait
    <3>3. QED BY <1>1, <3>1, <3>2
  <2>4. BufferWait \in Nat /\ \A i \in DOMAIN queue : QueueWait(i) \in Nat
    BY BufferWaitBounds, QueueWaitBounds DEF PInv
  <2>5. ASSUME NEW w \in Nat, 2 * w < Budget PROVE 2 * (w - 1) < Budget'
    BY <2>1, <2>5
  <2>6. SUFFICES ASSUME trying \notin backlogged \union {Nobody}
                 PROVE  /\ trying \in ToSet(buffer) => 2 * BufferWait' < Budget'
                        /\ \A i \in DOMAIN queue : queue[i] = trying => 2 * QueueWait(i)' < Budget'
    BY <1>1 DEF BudgetInv
  <2>7. /\ trying \in ToSet(buffer) => 2 * BufferWait < Budget
        /\ \A i \in DOMAIN queue : queue[i] = trying => 2 * QueueWait(i) < Budget
    BY <2>6 DEF PInv, BudgetInv
  <2>8. trying \in ToSet(buffer) => 2 * BufferWait' < Budget'
    BY <2>2, <2>4, <2>5, <2>7
  <2>9. ASSUME NEW i \in DOMAIN queue, queue[i] = trying PROVE 2 * QueueWait(i)' < Budget'
    BY <2>3, <2>4, <2>5, <2>7, <2>9
  <2>10. QED BY <2>8, <2>9
<1>9. QED BY <1>5, <1>6, <1>7, <1>8 DEF PInv

LEMMA PInvStep == PInv /\ [PipelineNext]_allVars => PInv'
<1> SUFFICES ASSUME PInv, [PipelineNext]_allVars PROVE PInv'
  OBVIOUS
<1>1. CASE UNCHANGED allVars
  BY <1>1 DEF allVars, workerVars, vars, lifeVars, loopVars, tableVars, historyVars, PInv,
              PipelineTypeOK, PlaceInv, BacklogInv, WorkerInv, BudgetInv, Budget, Rest, BufferWait,
              QueueWait, GivenUpHasCause
<1>2. QED
  BY <1>1, StepCases, StartStep, AddRowStep, EnqueueStep, GetStep, TimeOutStep, FlushReturnsStep,
     PopStep, TryFindsStep, TryMissesStep, ClockTickStep

LEMMA SpecPInv == PipelineSpec => []PInv
<1>1. PipelineInit => PInv
  <2> SUFFICES ASSUME PipelineInit PROVE PInv
    OBVIOUS
  <2>1. ToSet(<<>>) = {} /\ <<>> \in Seq(Rows)
    BY DEF ToSet
  <2>2. PipelineTypeOK
    BY <2>1, Times DEF PipelineInit, Init, PipelineTypeOK
  <2>3. PlaceInv /\ BacklogInv /\ WorkerInv /\ BudgetInv /\ GivenUpHasCause
    BY <2>1 DEF PipelineInit, Init, PlaceInv, BacklogInv, WorkerInv, BudgetInv, GivenUpHasCause
  <2>4. QED BY <2>2, <2>3 DEF PInv
<1>2. QED BY <1>1, PInvStep, PTL DEF PipelineSpec

\* The tries outlast the batcher: a span is given up only if its insert failed
\* or a whole batch was waiting before it, for any times that satisfy
\* TriesOutlastFlush and however slow handlers and worker are.
THEOREM SpecGivenUpHasCause == PipelineSpec => []GivenUpHasCause
<1>1. PInv => GivenUpHasCause
  BY DEF PInv
<1>2. QED BY <1>1, SpecPInv, PTL
=============================================================================
