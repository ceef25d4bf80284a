-------------------------- MODULE Ingestion_proofs --------------------------
(***************************************************************************)
(* Proofs about SpanBatcher and the handlers over it, for any rows,        *)
(* payloads, batch size, flush interval and number of starts.              *)
(*                                                                         *)
(* AtMostOneCopy is not inductive: a step may only write a row once if the *)
(* row is in one place, so IInv adds where a row can be (OnePlace) and     *)
(* which part of the shutdown sequence owns which running insert (Owners). *)
(* FifoInv names the part of what was added that has left already;         *)
(* LossInv names a set of at most one batch that holds every row a         *)
(* shutdown may still lose in silence.                                     *)
(*                                                                         *)
(* The handlers take the batcher's steps or leave it alone, so all of this *)
(* holds under them (HandlersRunBatcher); HandlerInv ties a handler's      *)
(* position to the stores.                                                 *)
(***************************************************************************)
EXTENDS Ingestion, SequenceTheorems, FiniteSetTheorems, TLAPS

Distinct(s) == \A i, j \in 1 .. Len(s) : s[i] = s[j] => i = j

\* Which inserts can run, given where the loop and stop() are.
Owners ==
    /\ (loop = "off") <=> (proc # "up")
    /\ loop = "off" => buffer = <<>>
    /\ proc \in {"down", "exited"} => inserts = {}
    /\ loop = "get" => inserts = {}
    /\ loop = "flush" => inserts = {ToSet(buffer)}
    /\ proc = "flushall" => ToSet(rows) \in inserts
    /\ proc # "flushall" => rows = <<>>
    /\ proc \notin {"up", "stopping"} => queue = <<>>

\* A row that is still held is in one place only, and nothing of it is in
\* ClickHouse yet.
OnePlace ==
    /\ Distinct(queue)
    /\ Held \subseteq received
    /\ \A r \in ToSet(queue) : r \notin ToSet(buffer) /\ r \notin UNION inserts
    /\ \A b, c \in inserts : b # c => b \cap c = {}
    /\ \A r \in Held : spans[r] = 0
    /\ \A r \in Rows \ received : spans[r] = 0

IInv == TypeOK /\ Owners /\ OnePlace /\ AtMostOneCopy

-----------------------------------------------------------------------------
(* Sequences and the sets of their elements *)

LEMMA ToSetEmpty == ToSet(<<>>) = {}
BY DEF ToSet

LEMMA ToSetIn == ASSUME NEW S, NEW s \in Seq(S) PROVE ToSet(s) \subseteq S
BY DEF ToSet

LEMMA ToSetAppend ==
    ASSUME NEW S, NEW s \in Seq(S), NEW e \in S
    PROVE  ToSet(Append(s, e)) = ToSet(s) \union {e}
<1>1. DOMAIN s = 1 .. Len(s) /\ DOMAIN Append(s, e) = 1 .. Len(s) + 1
  OBVIOUS
<1>2. \A i \in 1 .. Len(s) : Append(s, e)[i] = s[i]
  OBVIOUS
<1>3. Append(s, e)[Len(s) + 1] = e
  OBVIOUS
<1>4. Len(s) \in Nat
  OBVIOUS
<1>5. QED BY <1>1, <1>2, <1>3, <1>4 DEF ToSet

\* What a queue keeps when its oldest element is taken.
LEMMA TakeHead ==
    ASSUME NEW S, NEW s \in Seq(S), s # <<>>
    PROVE  /\ Head(s) \in ToSet(s)
           /\ Head(s) \in S
           /\ Tail(s) \in Seq(S)
           /\ ToSet(Tail(s)) \subseteq ToSet(s)
           /\ Distinct(s) => Distinct(Tail(s)) /\ Head(s) \notin ToSet(Tail(s))
<1>1. /\ Len(s) \in Nat \ {0}
      /\ Head(s) = s[1]
      /\ Tail(s) \in Seq(S)
      /\ DOMAIN Tail(s) = 1 .. Len(s) - 1
      /\ Len(Tail(s)) = Len(s) - 1
      /\ \A i \in 1 .. Len(s) - 1 : Tail(s)[i] = s[i + 1]
  OBVIOUS
<1>2. Head(s) \in ToSet(s) /\ Head(s) \in S
  BY <1>1 DEF ToSet
<1>3. \A x \in ToSet(Tail(s)) : \E i \in 1 .. Len(s) - 1 : x = s[i + 1]
  BY <1>1 DEF ToSet
<1>4. ToSet(Tail(s)) \subseteq ToSet(s)
  BY <1>1, <1>3 DEF ToSet
<1>5. ASSUME Distinct(s) PROVE Distinct(Tail(s)) /\ Head(s) \notin ToSet(Tail(s))
  BY <1>1, <1>3, <1>5 DEF Distinct
<1>6. QED BY <1>1, <1>2, <1>4, <1>5

\* Taking the head loses no other element.
LEMMA HeadOrTail ==
    ASSUME NEW S, NEW s \in Seq(S), s # <<>>
    PROVE  ToSet(s) = ToSet(Tail(s)) \union {Head(s)}
<1>1. /\ Len(s) \in Nat \ {0}
      /\ DOMAIN s = 1 .. Len(s)
      /\ DOMAIN Tail(s) = 1 .. Len(s) - 1
      /\ Head(s) = s[1]
      /\ \A i \in 1 .. Len(s) - 1 : Tail(s)[i] = s[i + 1]
  OBVIOUS
<1>2. \A i \in 2 .. Len(s) : i - 1 \in 1 .. Len(s) - 1 /\ s[i] = Tail(s)[i - 1]
  BY <1>1
<1>3. \A i \in 1 .. Len(s) : s[i] = Head(s) \/ s[i] \in ToSet(Tail(s))
  <2> SUFFICES ASSUME NEW i \in 1 .. Len(s), i # 1 PROVE s[i] \in ToSet(Tail(s))
    BY <1>1
  <2>1. i \in 2 .. Len(s)
    BY <1>1
  <2>2. QED BY <1>1, <1>2, <2>1 DEF ToSet
<1>4. QED BY <1>1, <1>3, TakeHead DEF ToSet

LEMMA DistinctAppend ==
    ASSUME NEW S, NEW s \in Seq(S), NEW e \in S, Distinct(s), e \notin ToSet(s)
    PROVE  Distinct(Append(s, e))
<1>1. /\ Len(s) \in Nat
      /\ Len(Append(s, e)) = Len(s) + 1
      /\ Append(s, e)[Len(s) + 1] = e
      /\ \A i \in 1 .. Len(s) : Append(s, e)[i] = s[i] /\ s[i] \in ToSet(s)
  BY DEF ToSet
<1>2. QED BY <1>1 DEF Distinct

-----------------------------------------------------------------------------
(* Type correctness *)

\* One more batch among the running inserts, or one fewer.
LEMMA InsertsType ==
    ASSUME inserts \in SUBSET SUBSET Rows, NEW batch, batch \subseteq Rows
    PROVE  /\ inserts \union {batch} \in SUBSET SUBSET Rows
           /\ inserts \ {batch} \in SUBSET SUBSET Rows
OBVIOUS

LEMMA ApplyType ==
    ASSUME spans \in [Rows -> Nat], NEW batch, Apply(batch)
    PROVE  spans' \in [Rows -> Nat]
BY DEF Apply

LEMMA InsertReturnsType ==
    ASSUME TypeOK, NEW batch, batch \subseteq Rows, InsertReturns(batch)
    PROVE  /\ inserts' \in SUBSET SUBSET Rows
           /\ spans' \in [Rows -> Nat]
           /\ dropped' \in SUBSET Rows
BY InsertsType, ApplyType DEF InsertReturns, TypeOK

LEMMA TypeStep == TypeOK /\ [Next]_vars => TypeOK'
<1> SUFFICES ASSUME TypeOK, [Next]_vars PROVE TypeOK'
  OBVIOUS
<1> USE BatcherAssumption DEF TypeOK, Procs
<1>0. ToSet(queue) \subseteq Rows /\ ToSet(buffer) \subseteq Rows /\ ToSet(rows) \subseteq Rows
  BY ToSetIn
<1>1. CASE Start
  BY <1>1 DEF Start, FreshLoop, tableVars
<1>2. ASSUME NEW r \in Rows, Add(r) PROVE TypeOK'
  BY <1>2 DEF Add, lifeVars, loopVars, tableVars
<1>3. CASE Get
  <2>1. Head(queue) \in Rows /\ Tail(queue) \in Seq(Rows)
    BY <1>3, TakeHead DEF Get
  <2>2. buffer' \in Seq(Rows) /\ queue' \in Seq(Rows)
    BY <1>3, <2>1 DEF Get
  <2>3. ToSet(buffer') \subseteq Rows
    BY <2>2, ToSetIn
  <2>4. inserts' \in SUBSET SUBSET Rows
    BY <1>3, <2>3 DEF Get
  <2>5. QED BY <1>3, <2>2, <2>4 DEF Get, lifeVars, tableVars, historyVars
<1>4. CASE TimeOut
  <2>1. inserts' \in SUBSET SUBSET Rows
    BY <1>4, <1>0, InsertsType DEF TimeOut
  <2>2. QED BY <1>4, <2>1 DEF TimeOut, lifeVars, tableVars, historyVars
<1>5. CASE FlushReturns
  <2>1. InsertReturns(ToSet(buffer))
    BY <1>5 DEF FlushReturns
  <2>2. QED BY <1>5, <2>1, <1>0, InsertReturnsType DEF FlushReturns, FreshLoop, lifeVars, historyVars
<1>6. CASE Tick
  BY <1>6 DEF Tick, lifeVars, tableVars, historyVars
<1>7. CASE Stop
  BY <1>7 DEF Stop, tableVars, historyVars
<1>8. CASE FlushAll
  <2>1. inserts' \in SUBSET SUBSET Rows
    BY <1>8, <1>0, InsertsType DEF FlushAll
  <2>2. QED BY <1>8, <2>1 DEF FlushAll, loopVars, tableVars, historyVars
<1>9. CASE FlushAllReturns
  <2>1. InsertReturns(ToSet(rows))
    BY <1>9 DEF FlushAllReturns
  <2>2. QED BY <1>9, <2>1, <1>0, InsertReturnsType DEF FlushAllReturns, loopVars, historyVars
<1>10. CASE OrphanReturns
  <2>1. inserts' \in SUBSET SUBSET Rows /\ spans' \in [Rows -> Nat]
    BY <1>10, ApplyType DEF OrphanReturns
  <2>2. QED BY <1>10, <2>1 DEF OrphanReturns, lifeVars, loopVars, historyVars
<1>11. CASE Exit
  BY <1>11 DEF Exit, loopVars, tableVars, historyVars
<1>12. CASE Crash
  <2>1. spans' \in [Rows -> Nat]
    BY <1>12, ApplyType DEF Crash
  <2>2. QED BY <1>12, <2>1 DEF Crash
<1>13. CASE UNCHANGED vars
  BY <1>13 DEF vars, lifeVars, loopVars, tableVars, historyVars
<1>14. QED
  BY <1>1, <1>2, <1>3, <1>4, <1>5, <1>6, <1>7, <1>8, <1>9, <1>10, <1>11,
     <1>12, <1>13 DEF Next, FlushLoop, Shutdown

\* Every variable keeps its type in every reachable state, whatever rows are
\* added and however the process is stopped, killed and restarted.
THEOREM SpecTypeOK == Spec => []TypeOK
<1>1. Init => TypeOK
  BY BatcherAssumption DEF Init, TypeOK, Procs
<1>2. QED BY <1>1, TypeStep, PTL DEF Spec

-----------------------------------------------------------------------------
(* A row has one place, and at most one copy *)

LEMMA InitIInv == Init => IInv
<1> SUFFICES ASSUME Init PROVE IInv
  OBVIOUS
<1>1. ToSet(<<>>) = {}
  BY ToSetEmpty
<1>2. TypeOK
  BY BatcherAssumption DEF Init, TypeOK, Procs
<1>3. Owners
  BY DEF Init, Owners
<1>4. OnePlace /\ AtMostOneCopy
  BY <1>1 DEF Init, OnePlace, AtMostOneCopy, Held, Distinct
<1>5. QED BY <1>2, <1>3, <1>4 DEF IInv

LEMMA OwnersStep == IInv /\ [Next]_vars => Owners'
<1> SUFFICES ASSUME IInv, [Next]_vars PROVE Owners'
  OBVIOUS
<1> USE DEF IInv, TypeOK, Procs, Owners
<1>1. CASE Start
  BY <1>1 DEF Start, FreshLoop
<1>2. ASSUME NEW r \in Rows, Add(r) PROVE Owners'
  BY <1>2 DEF Add, lifeVars, loopVars
<1>3. CASE Get
  BY <1>3 DEF Get, lifeVars
<1>4. CASE TimeOut
  BY <1>4 DEF TimeOut, lifeVars
<1>5. CASE FlushReturns
  BY <1>5 DEF FlushReturns, InsertReturns, FreshLoop, lifeVars
<1>6. CASE Tick
  BY <1>6 DEF Tick, lifeVars
<1>7. CASE Stop
  BY <1>7 DEF Stop
<1>8. CASE FlushAll
  BY <1>8 DEF FlushAll, loopVars
<1>9. CASE FlushAllReturns
  BY <1>9 DEF FlushAllReturns, InsertReturns, loopVars
<1>10. CASE OrphanReturns
  BY <1>10 DEF OrphanReturns, lifeVars, loopVars
<1>11. CASE Exit
  BY <1>11 DEF Exit, loopVars
<1>12. CASE Crash
  BY <1>12 DEF Crash
<1>13. CASE UNCHANGED vars
  BY <1>13 DEF vars, lifeVars, loopVars
<1>14. QED
  BY <1>1, <1>2, <1>3, <1>4, <1>5, <1>6, <1>7, <1>8, <1>9, <1>10, <1>11,
     <1>12, <1>13 DEF Next, FlushLoop, Shutdown

\* What a finished or surviving batch does to the table, row by row.
LEMMA ApplyRow ==
    ASSUME spans \in [Rows -> Nat], NEW batch, Apply(batch), NEW r \in Rows
    PROVE  spans'[r] = IF r \in batch THEN spans[r] + 1 ELSE spans[r]
BY DEF Apply

LEMMA OnePlaceStep == IInv /\ [Next]_vars => OnePlace' /\ AtMostOneCopy'
<1> SUFFICES ASSUME IInv, [Next]_vars PROVE OnePlace' /\ AtMostOneCopy'
  OBVIOUS
<1> USE DEF IInv
<1>0. /\ ToSet(<<>>) = {}
      /\ Distinct(<<>>)
      /\ ToSet(queue) \subseteq Rows
      /\ ToSet(buffer) \subseteq Rows
      /\ ToSet(rows) \subseteq Rows
  BY ToSetEmpty, ToSetIn DEF TypeOK, Distinct
<1>1. CASE Start
  BY <1>0, <1>1 DEF Start, FreshLoop, tableVars, OnePlace, Owners, AtMostOneCopy, Held
<1>2. ASSUME NEW r \in Rows, Add(r) PROVE OnePlace' /\ AtMostOneCopy'
  <2>1. ToSet(queue') = ToSet(queue) \union {r}
    BY <1>2, ToSetAppend DEF Add, TypeOK
  <2>2. r \notin ToSet(queue)
    BY <1>2 DEF Add, OnePlace, Held
  <2>3. Distinct(queue')
    BY <1>2, <2>2, DistinctAppend DEF Add, TypeOK, OnePlace
  <2>4. QED BY <1>2, <2>1, <2>3 DEF Add, lifeVars, loopVars, tableVars, OnePlace, AtMostOneCopy, Held
<1>3. CASE Get
  <2>1. /\ Head(queue) \in ToSet(queue)
        /\ ToSet(queue') \subseteq ToSet(queue)
        /\ Head(queue) \notin ToSet(queue')
        /\ Distinct(queue')
    BY <1>3, TakeHead DEF Get, TypeOK, OnePlace
  <2>2. ToSet(buffer') = ToSet(buffer) \union {Head(queue)}
    BY <1>3, TakeHead, ToSetAppend DEF Get, TypeOK
  <2>3. inserts = {} /\ (inserts' = {} \/ inserts' = {ToSet(buffer')})
    BY <1>3 DEF Get, Owners
  <2>4. Held' \subseteq Held
    BY <1>3, <2>1, <2>2, <2>3 DEF Get, Held
  <2>5. QED BY <1>3, <2>1, <2>2, <2>3, <2>4 DEF Get, tableVars, historyVars, OnePlace, AtMostOneCopy
<1>4. CASE TimeOut
  <2>1. inserts = {} /\ (inserts' = {} \/ inserts' = {ToSet(buffer)})
    BY <1>4 DEF TimeOut, Owners
  <2>2. Held' = Held
    BY <1>4, <2>1 DEF TimeOut, Held
  <2>3. QED BY <1>4, <2>1, <2>2 DEF TimeOut, tableVars, historyVars, OnePlace, AtMostOneCopy
<1>5. CASE FlushReturns
  <2>1. InsertReturns(ToSet(buffer)) /\ inserts = {ToSet(buffer)} /\ rows = <<>>
    BY <1>5 DEF FlushReturns, Owners
  <2>2. Held' = ToSet(queue) /\ inserts' = {}
    BY <1>0, <1>5, <2>1 DEF FlushReturns, InsertReturns, FreshLoop, Held
  <2>3. \A r \in Rows : spans'[r] = spans[r] \/ (r \in ToSet(buffer) /\ spans'[r] = spans[r] + 1)
    BY <2>1, ApplyRow DEF InsertReturns, TypeOK
  <2>4. QED BY <1>0, <1>5, <2>1, <2>2, <2>3 DEF FlushReturns, FreshLoop, historyVars, OnePlace, AtMostOneCopy, Held
<1>6. CASE Tick
  BY <1>6 DEF Tick, tableVars, historyVars, OnePlace, AtMostOneCopy, Held
<1>7. CASE Stop
  BY <1>0, <1>7 DEF Stop, tableVars, historyVars, OnePlace, AtMostOneCopy, Held
<1>8. CASE FlushAll
  <2>1. buffer = <<>> /\ rows = <<>>
    BY <1>8 DEF FlushAll, Owners
  <2>2. Held' = Held
    BY <1>0, <1>8, <2>1 DEF FlushAll, loopVars, Held
  <2>3. QED BY <1>0, <1>8, <2>1, <2>2 DEF FlushAll, loopVars, tableVars, historyVars, OnePlace, AtMostOneCopy, Held
<1>9. CASE FlushAllReturns
  <2>1. InsertReturns(ToSet(rows)) /\ ToSet(rows) \in inserts /\ buffer = <<>> /\ queue = <<>>
    BY <1>9 DEF FlushAllReturns, Owners
  <2>2. Held' = UNION inserts'
    BY <1>0, <1>9, <2>1 DEF FlushAllReturns, loopVars, Held
  <2>3. \A r \in UNION inserts' : r \in UNION inserts /\ r \notin ToSet(rows)
    BY <2>1 DEF InsertReturns, OnePlace
  <2>4. \A r \in Rows : spans'[r] = spans[r] \/ (r \in ToSet(rows) /\ spans'[r] = spans[r] + 1)
    BY <2>1, ApplyRow DEF InsertReturns, TypeOK
  <2>5. QED BY <1>0, <1>9, <2>1, <2>2, <2>3, <2>4 DEF FlushAllReturns, InsertReturns, loopVars, historyVars, TypeOK, OnePlace, AtMostOneCopy, Held
<1>10. CASE OrphanReturns
  <2>1. PICK batch \in inserts :
          /\ batch # ToSet(rows)
          /\ inserts' = inserts \ {batch}
          /\ Apply(batch) \/ UNCHANGED spans
    BY <1>10 DEF OrphanReturns
  <2>2. buffer = <<>> /\ (rows = <<>> \/ ToSet(rows) \in inserts)
    BY <1>10 DEF OrphanReturns, Owners, TypeOK, Procs
  <2>3. \A r \in Held' : r \in Held /\ r \notin batch
    BY <1>0, <1>10, <2>1, <2>2 DEF OrphanReturns, loopVars, OnePlace, Held
  <2>4. \A r \in Rows : spans'[r] = spans[r] \/ (r \in batch /\ spans'[r] = spans[r] + 1)
    BY <2>1, ApplyRow DEF TypeOK
  <2>5. batch \subseteq Held
    BY <2>1 DEF Held
  <2>6. queue' = queue /\ buffer' = buffer /\ received' = received
    BY <1>10 DEF OrphanReturns, loopVars, historyVars
  <2>7. Held \subseteq Rows /\ Held' \subseteq Held
    BY <2>3 DEF TypeOK, OnePlace
  <2>8. AtMostOneCopy'
    BY <2>4, <2>5 DEF OnePlace, AtMostOneCopy
  <2>9. /\ \A r \in Held' : spans'[r] = 0
        /\ \A r \in Rows \ received' : spans'[r] = 0
    BY <2>3, <2>4, <2>5, <2>6, <2>7 DEF OnePlace
  <2>10. \A b, c \in inserts' : b # c => b \cap c = {}
    BY <2>1 DEF OnePlace
  <2>11. UNION inserts' \subseteq UNION inserts
    BY <2>1
  <2>12. OnePlace'
    BY <2>6, <2>7, <2>9, <2>10, <2>11 DEF OnePlace
  <2>13. QED BY <2>8, <2>12
<1>11. CASE Exit
  BY <1>11 DEF Exit, loopVars, tableVars, historyVars, OnePlace, AtMostOneCopy, Held
<1>12. CASE Crash
  <2>1. PICK survived \in SUBSET inserts : Apply(UNION survived)
    BY <1>12 DEF Crash
  <2>2. Held' = {}
    BY <1>0, <1>12 DEF Crash, Held
  <2>3. \A r \in Rows : spans'[r] = spans[r] \/ (r \in UNION survived /\ spans'[r] = spans[r] + 1)
    BY <2>1, ApplyRow DEF TypeOK
  <2>4. UNION survived \subseteq Held
    BY DEF Held
  <2>5. AtMostOneCopy'
    BY <2>3, <2>4 DEF OnePlace, AtMostOneCopy
  <2>6. \A r \in Rows \ received' : spans'[r] = 0
    BY <1>12, <2>3, <2>4 DEF Crash, OnePlace
  <2>7. queue' = <<>> /\ inserts' = {}
    BY <1>12 DEF Crash
  <2>8. QED BY <1>0, <2>2, <2>5, <2>6, <2>7 DEF OnePlace
<1>13. CASE UNCHANGED vars
  BY <1>13 DEF vars, lifeVars, loopVars, tableVars, historyVars, OnePlace, AtMostOneCopy, Held
<1>14. QED
  BY <1>1, <1>2, <1>3, <1>4, <1>5, <1>6, <1>7, <1>8, <1>9, <1>10, <1>11,
     <1>12, <1>13 DEF Next, FlushLoop, Shutdown

LEMMA SpecIInv == Spec => []IInv
<1>1. IInv /\ [Next]_vars => IInv'
  BY TypeStep, OwnersStep, OnePlaceStep DEF IInv
<1>2. QED BY InitIInv, <1>1, PTL DEF Spec

\* ClickHouse never gets a second copy of a row, for any batch size and any
\* interleaving of the loop, cancelled inserts, the final flush and crashes.
THEOREM SpecAtMostOneCopy == Spec => []AtMostOneCopy
<1>1. IInv => AtMostOneCopy
  BY DEF IInv
<1>2. QED BY SpecIInv, <1>1, PTL

-----------------------------------------------------------------------------
(* The deadline of the flush loop *)

\* What the oldest row has waited and what is left until the deadline never
\* add up to more than the interval: this is what a deadline that moved with
\* every row would break.
TimeInv ==
    /\ oldest + deadlineIn <= FLUSH_INTERVAL
    /\ buffer = <<>> => oldest = 0
    /\ loop = "get" => Len(buffer) < BATCH_SIZE

LEMMA TimeStep == TypeOK /\ TimeInv /\ [Next]_vars => TimeInv'
<1> SUFFICES ASSUME TypeOK, TimeInv, [Next]_vars PROVE TimeInv'
  OBVIOUS
<1> USE BatcherAssumption DEF TypeOK, TimeInv
<1>0. Len(<<>>) = 0
  OBVIOUS
<1>1. CASE Start
  BY <1>0, <1>1 DEF Start, FreshLoop
<1>2. ASSUME NEW r \in Rows, Add(r) PROVE TimeInv'
  BY <1>2 DEF Add, loopVars
<1>3. CASE Get
  <2>1. /\ buffer' = Append(buffer, Head(queue))
        /\ oldest' = oldest /\ deadlineIn' = deadlineIn
        /\ loop' = "get" => ~(Len(buffer') >= BATCH_SIZE)
    BY <1>3 DEF Get
  <2>2. Len(buffer') = Len(buffer) + 1 /\ buffer' # <<>>
    BY <1>3, <2>1, TakeHead DEF Get
  <2>3. QED BY <2>1, <2>2
<1>4. CASE TimeOut
  BY <1>4 DEF TimeOut
<1>5. CASE FlushReturns
  BY <1>0, <1>5 DEF FlushReturns, FreshLoop
<1>6. CASE Tick
  BY <1>6 DEF Tick
<1>7. CASE Stop
  BY <1>0, <1>7 DEF Stop
<1>8. CASE FlushAll
  BY <1>8 DEF FlushAll, loopVars
<1>9. CASE FlushAllReturns
  BY <1>9 DEF FlushAllReturns, loopVars
<1>10. CASE OrphanReturns
  BY <1>10 DEF OrphanReturns, loopVars
<1>11. CASE Exit
  BY <1>11 DEF Exit, loopVars
<1>12. CASE Crash
  BY <1>0, <1>12 DEF Crash
<1>13. CASE UNCHANGED vars
  BY <1>13 DEF vars, loopVars
<1>14. QED
  BY <1>1, <1>2, <1>3, <1>4, <1>5, <1>6, <1>7, <1>8, <1>9, <1>10, <1>11,
     <1>12, <1>13 DEF Next, FlushLoop, Shutdown

\* No row waits in the flush loop's buffer for longer than the flush interval,
\* and the buffer is short of a batch whenever the loop waits for a row.
THEOREM SpecFlushedInTime == Spec => []FlushedInTime
<1>1. Init => TypeOK /\ TimeInv
  BY BatcherAssumption DEF Init, TypeOK, Procs, TimeInv
<1>2. TypeOK /\ TimeInv /\ [Next]_vars => (TypeOK /\ TimeInv)'
  BY TypeStep, TimeStep
<1>3. TypeOK /\ TimeInv => FlushedInTime
  BY BatcherAssumption DEF TypeOK, TimeInv, FlushedInTime
<1>4. QED BY <1>1, <1>2, <1>3, PTL DEF Spec

-----------------------------------------------------------------------------
(* The order of rows, and what a shutdown loses *)

\* What was added in this life of the process is what has left the buffer,
\* followed by what is held.
FifoInv == \E gone \in Seq(Rows) : accepted = gone \o (buffer \o queue)

LEMMA FifoKept ==
    ASSUME TypeOK, FifoInv, TypeOK', accepted' = accepted, buffer' \o queue' = buffer \o queue
    PROVE  FifoInv'
BY DEF FifoInv

\* The buffer empties, by a flush or because the loop is cancelled.
LEMMA FifoBufferGone ==
    ASSUME TypeOK, FifoInv, accepted' = accepted, buffer' = <<>>, queue' = queue
    PROVE  FifoInv'
<1>1. PICK gone \in Seq(Rows) : accepted = gone \o (buffer \o queue)
  BY DEF FifoInv
<1>2. gone \o buffer \in Seq(Rows)
  BY ConcatProperties DEF TypeOK
<1>3. gone \o (buffer \o queue) = (gone \o buffer) \o queue
  <2>1. gone \in Seq(Rows) /\ buffer \in Seq(Rows) /\ queue \in Seq(Rows)
    BY <1>1 DEF TypeOK
  <2>2. QED BY <2>1, ConcatAssociative
<1>4. buffer' \o queue' = queue
  BY ConcatEmptySeq DEF TypeOK
<1>5. accepted' = (gone \o buffer) \o (buffer' \o queue')
  BY <1>1, <1>3, <1>4
<1>6. QED BY <1>2, <1>5 DEF FifoInv

LEMMA FifoStep == IInv /\ FifoInv /\ [Next]_vars => FifoInv'
<1> SUFFICES ASSUME IInv, FifoInv, [Next]_vars PROVE FifoInv'
  OBVIOUS
<1>t. TypeOK /\ TypeOK'
  BY TypeStep DEF IInv
<1>0. /\ <<>> \in Seq(Rows) /\ \A s \in Seq(Rows) : <<>> \o s = s /\ s \o <<>> = s
      /\ queue \in Seq(Rows) /\ buffer \in Seq(Rows) /\ accepted \in Seq(Rows)
  BY <1>t, ConcatEmptySeq, EmptySeq DEF TypeOK
<1>1. CASE Start
  <2>1. accepted' = <<>> \o (buffer' \o queue')
    BY <1>0, <1>1 DEF Start, FreshLoop
  <2>2. QED BY <1>0, <2>1 DEF FifoInv
<1>2. ASSUME NEW r \in Rows, Add(r) PROVE FifoInv'
  <2>1. PICK gone \in Seq(Rows) : accepted = gone \o (buffer \o queue)
    BY DEF FifoInv
  <2>2. /\ accepted' = accepted \o <<r>> /\ queue' = queue \o <<r>> /\ buffer' = buffer
        /\ <<r>> \in Seq(Rows)
    BY <1>0, <1>2, AppendIsConcat DEF Add, loopVars
  <2>3. buffer \o queue \in Seq(Rows)
    BY <1>0, ConcatProperties
  <2>4. (gone \o (buffer \o queue)) \o <<r>> = gone \o ((buffer \o queue) \o <<r>>)
    BY <2>1, <2>2, <2>3, ConcatAssociative
  <2>5. (buffer \o queue) \o <<r>> = buffer \o (queue \o <<r>>)
    BY <1>0, <2>2, ConcatAssociative
  <2>6. accepted' = gone \o (buffer' \o queue')
    BY <2>1, <2>2, <2>4, <2>5
  <2>7. QED BY <2>6 DEF FifoInv
<1>3. CASE Get
  <2>1. /\ queue # <<>> /\ buffer' = Append(buffer, Head(queue)) /\ queue' = Tail(queue)
        /\ accepted' = accepted
    BY <1>3 DEF Get, historyVars
  <2>2. Head(queue) \in Rows /\ Tail(queue) \in Seq(Rows)
    BY <1>0, <2>1, HeadTailProperties
  <2>3. buffer' = buffer \o <<Head(queue)>> /\ <<Head(queue)>> \in Seq(Rows)
    BY <1>0, <2>1, <2>2, AppendIsConcat
  <2>4. (buffer \o <<Head(queue)>>) \o Tail(queue) = buffer \o (<<Head(queue)>> \o Tail(queue))
    BY <1>0, <2>2, <2>3, ConcatAssociative
  <2>5. <<Head(queue)>> \o Tail(queue) = queue
    <3>1. 1 \in 1 .. Len(queue) /\ Len(queue) \in 1 .. Len(queue)
      BY <1>0, <2>1
    <3>2. SubSeq(queue, 1, Len(queue)) = <<queue[1]>> \o SubSeq(queue, 2, Len(queue))
      BY <1>0, <3>1, SubSeqRecursiveFirst
    <3>3. SubSeq(queue, 1, Len(queue)) = queue /\ Tail(queue) = SubSeq(queue, 2, Len(queue))
      BY <1>0, <2>1, SubSeqFull, TailIsSubSeq
    <3>4. Head(queue) = queue[1]
      BY <1>0, <2>1
    <3>5. QED BY <3>2, <3>3, <3>4
  <2>6. QED BY <2>1, <2>3, <2>4, <2>5, <1>t, FifoKept
<1>4. CASE TimeOut
  BY <1>4, <1>t, FifoKept DEF TimeOut, historyVars
<1>5. CASE FlushReturns
  BY <1>5, <1>t, FifoBufferGone DEF FlushReturns, FreshLoop, historyVars
<1>6. CASE Tick
  BY <1>6, <1>t, FifoKept DEF Tick, historyVars
<1>7. CASE Stop
  BY <1>7, <1>t, FifoBufferGone DEF Stop, historyVars
<1>8. CASE FlushAll
  <2>1. PICK gone \in Seq(Rows) : accepted = gone \o (buffer \o queue)
    BY DEF FifoInv
  <2>2. accepted' = accepted /\ buffer = <<>> /\ buffer' = <<>> /\ queue' = <<>>
    BY <1>8 DEF FlushAll, IInv, Owners, loopVars, historyVars
  <2>3. gone \o queue \in Seq(Rows)
    BY <1>0, <2>1, ConcatProperties
  <2>4. accepted' = (gone \o queue) \o (buffer' \o queue')
    BY <1>0, <2>1, <2>2, <2>3
  <2>5. QED BY <2>3, <2>4 DEF FifoInv
<1>9. CASE FlushAllReturns
  BY <1>9, <1>t, FifoKept DEF FlushAllReturns, loopVars, historyVars
<1>10. CASE OrphanReturns
  BY <1>10, <1>t, FifoKept DEF OrphanReturns, loopVars, historyVars
<1>11. CASE Exit
  BY <1>11, <1>t, FifoKept DEF Exit, loopVars, historyVars
<1>12. CASE Crash
  <2>1. accepted' = <<>> \o (buffer' \o queue')
    BY <1>0, <1>12 DEF Crash
  <2>2. QED BY <1>0, <2>1 DEF FifoInv
<1>13. CASE UNCHANGED vars
  BY <1>13, <1>t, FifoKept DEF vars, loopVars, historyVars
<1>14. QED
  BY <1>1, <1>2, <1>3, <1>4, <1>5, <1>6, <1>7, <1>8, <1>9, <1>10, <1>11,
     <1>12, <1>13 DEF Next, FlushLoop, Shutdown

LEMMA ReverseFacts ==
    ASSUME NEW S, NEW s \in Seq(S)
    PROVE  /\ Reverse(s) \in Seq(S) /\ Len(Reverse(s)) = Len(s)
           /\ \A i \in 1 .. Len(s) : Reverse(s)[i] = s[Len(s) - i + 1]
<1> DEFINE m == Len(s)
           u == [i \in 1 .. m |-> s[m - i + 1]]
<1>1. m \in Nat /\ \A i \in 1 .. m : s[i] \in S
  BY LenProperties
<1>2. Reverse(s) = u
  BY DEF Reverse
<1> HIDE DEF m
<1>3. \A i \in 1 .. m : m - i + 1 \in 1 .. m
  BY <1>1
<1>4. u \in [1 .. m -> S]
  BY <1>1, <1>3
<1>5. \A i \in 1 .. m : u[i] = s[m - i + 1]
  OBVIOUS
<1> HIDE DEF u
<1>6. u \in Seq(S) /\ Len(u) = m
  BY <1>1, <1>4, LenProperties
<1>7. QED BY <1>2, <1>5, <1>6 DEF m

\* A sequence that ends in s has s as its suffix.
LEMMA EndIsSuffix ==
    ASSUME NEW S, NEW g \in Seq(S), NEW s \in Seq(S)
    PROVE  IsSuffix(s, g \o s)
<1> DEFINE t == g \o s
           m == Len(s)
           n == Len(g)
<1>1. /\ t \in Seq(S) /\ Len(t) = n + m /\ m \in Nat /\ n \in Nat
      /\ \A i \in 1 .. n + m : t[i] = IF i <= n THEN g[i] ELSE s[i - n]
  BY ConcatProperties, LenProperties
<1> HIDE DEF t
<1>2. \A i \in 1 .. m : t[n + m - i + 1] = s[m - i + 1]
  <2> HIDE DEF m, n
  <2>1. ASSUME NEW i \in 1 .. m PROVE t[n + m - i + 1] = s[m - i + 1]
    <3>1. n + m - i + 1 \in 1 .. n + m /\ ~(n + m - i + 1 <= n) /\ n + m - i + 1 - n = m - i + 1
      BY <1>1, <2>1
    <3>2. QED BY <1>1, <3>1
  <2>2. QED BY <2>1
<1>3. /\ Reverse(s) \in Seq(S) /\ Len(Reverse(s)) = m
      /\ \A i \in 1 .. m : Reverse(s)[i] = s[m - i + 1]
  BY ReverseFacts
<1>4. /\ Reverse(t) \in Seq(S) /\ Len(Reverse(t)) = n + m
      /\ \A i \in 1 .. n + m : Reverse(t)[i] = t[n + m - i + 1]
  BY <1>1, ReverseFacts
<1>5. SubSeq(Reverse(s), 1, m) = SubSeq(Reverse(t), 1, m)
  <2> DEFINE a == Reverse(s)
             b == Reverse(t)
             A == SubSeq(a, 1, m)
             B == SubSeq(b, 1, m)
  <2> HIDE DEF a, b, m, n
  <2>1. m \in Nat /\ n \in Nat /\ \A i \in 1 .. m : i \in 1 .. n + m /\ 1 + i - 1 = i
    BY <1>1
  <2>2. \A i \in 1 .. m : a[i] = b[i] /\ a[i] \in S /\ b[i] \in S
    <3>1. \A i \in 1 .. m : a[i] \in S
      BY <1>3, ElementOfSeq DEF a
    <3>2. \A i \in 1 .. m : a[i] = b[i]
      BY <1>2, <1>3, <1>4, <2>1 DEF a, b
    <3>3. QED BY <3>1, <3>2
  <2>3. /\ A \in Seq(S) /\ Len(A) = m - 1 + 1
        /\ \A i \in 1 .. m - 1 + 1 : A[i] = a[1 + i - 1]
    BY <2>1, <2>2, SubSeqProperties
  <2>4. /\ B \in Seq(S) /\ Len(B) = m - 1 + 1
        /\ \A i \in 1 .. m - 1 + 1 : B[i] = b[1 + i - 1]
    BY <2>1, <2>2, SubSeqProperties
  <2> HIDE DEF A, B
  <2>5. A = B
    BY <2>1, <2>2, <2>3, <2>4, SeqEqual
  <2>6. QED BY <2>5 DEF A, B, a, b
<1>6. QED BY <1>1, <1>3, <1>4, <1>5 DEF IsSuffix, IsPrefix, t

\* Rows leave the batcher in the order in which the handlers added them.
THEOREM SpecFirstInFirstFlushed == Spec => []FirstInFirstFlushed
<1>1. Init => FifoInv
  <2> SUFFICES ASSUME Init PROVE FifoInv
    OBVIOUS
  <2>1. <<>> \in Seq(Rows) /\ <<>> \o (<<>> \o <<>>) = <<>>
    BY ConcatEmptySeq, EmptySeq
  <2>2. QED BY <2>1 DEF Init, FifoInv
<1>2. TypeOK /\ FifoInv => FirstInFirstFlushed
  <2> SUFFICES ASSUME TypeOK, NEW gone \in Seq(Rows), accepted = gone \o (buffer \o queue)
               PROVE  FirstInFirstFlushed
    BY DEF FifoInv
  <2>1. buffer \o queue \in Seq(Rows)
    BY ConcatProperties DEF TypeOK
  <2>2. QED BY <2>1, EndIsSuffix DEF FirstInFirstFlushed
<1>3. IInv /\ FifoInv /\ [Next]_vars => FifoInv'
  BY FifoStep
<1>4. IInv => TypeOK
  BY DEF IInv
<1>5. QED BY <1>1, <1>2, <1>3, <1>4, SpecIInv, PTL DEF Spec

\* The rows a shutdown may lose: those the cancelled loop had in its buffer.
LossOf(L) ==
    /\ proc = "up" => L = {}
    /\ \A r \in ToSet(accepted) : r \in Held \/ spans[r] > 0 \/ r \in dropped \/ r \in L
    /\ proc # "up" => \A b \in inserts : b = ToSet(rows) \/ b \subseteq L

SmallLoss(L) == L \subseteq Rows /\ IsFiniteSet(L) /\ Cardinality(L) <= BATCH_SIZE

LossInv == /\ Len(buffer) <= BATCH_SIZE
           /\ \E L : SmallLoss(L) /\ LossOf(L)

\* The elements of a sequence are at most as many as its positions.
LEMMA ToSetCardinality ==
    ASSUME NEW S, NEW s \in Seq(S)
    PROVE  IsFiniteSet(ToSet(s)) /\ Cardinality(ToSet(s)) <= Len(s)
<1>1. Len(s) \in Nat /\ DOMAIN s = 1 .. Len(s)
  BY LenProperties
<1>2. IsFiniteSet(1 .. Len(s)) /\ Cardinality(1 .. Len(s)) = Len(s)
  BY <1>1, FS_Interval
<1>3. s \in Surjection(1 .. Len(s), ToSet(s))
  <2>1. s \in [1 .. Len(s) -> ToSet(s)]
    <3>1. s \in [1 .. Len(s) -> S]
      BY LenProperties
    <3>2. QED BY <1>1, <3>1 DEF ToSet
  <2>2. \A t \in ToSet(s) : \E i \in 1 .. Len(s) : s[i] = t
    BY <1>1 DEF ToSet
  <2>3. QED BY <2>1, <2>2 DEF Surjection
<1>4. QED BY <1>2, <1>3, FS_Surjection

\* Nothing that was settled is undone, and what is no longer held is settled or
\* was the loop's.
LEMMA NoMoreLost ==
    ASSUME TypeOK, NEW L, LossOf(L), accepted' = accepted, dropped \subseteq dropped',
           \A r \in Rows : spans'[r] = spans[r] \/ spans'[r] = spans[r] + 1,
           \A r \in Held : r \in Held' \/ spans'[r] > 0 \/ r \in dropped' \/ r \in L
    PROVE  \A r \in ToSet(accepted') : r \in Held' \/ spans'[r] > 0 \/ r \in dropped' \/ r \in L
<1>1. ToSet(accepted) \subseteq Rows
  BY ToSetIn DEF TypeOK
<1>2. \A r \in Rows : spans[r] \in Nat
  BY DEF TypeOK
<1>3. \A r \in Rows : spans[r] > 0 => spans'[r] > 0
  BY <1>2
<1>4. QED BY <1>1, <1>3 DEF LossOf

\* An awaited insert ends: its rows are in the table or in the log.
LEMMA InsertSettles ==
    ASSUME TypeOK, NEW batch, batch \subseteq Rows, InsertReturns(batch)
    PROVE  /\ dropped \subseteq dropped' /\ \A r \in batch : spans'[r] > 0 \/ r \in dropped'
           /\ \A r \in Rows : spans'[r] = spans[r] \/ spans'[r] = spans[r] + 1
BY ApplyRow DEF InsertReturns, TypeOK

LEMMA BufferStep == TypeOK /\ TimeInv /\ Len(buffer) <= BATCH_SIZE /\ [Next]_vars => Len(buffer') <= BATCH_SIZE
<1> SUFFICES ASSUME TypeOK, TimeInv, Len(buffer) <= BATCH_SIZE, [Next]_vars PROVE Len(buffer') <= BATCH_SIZE
  OBVIOUS
<1>1. CASE Get
  <2>1. buffer' = Append(buffer, Head(queue)) /\ Len(buffer) < BATCH_SIZE /\ buffer \in Seq(Rows)
    BY <1>1 DEF Get, TimeInv, TypeOK
  <2>2. Len(buffer') = Len(buffer) + 1 /\ Len(buffer) \in Nat
    BY <2>1, TakeHead
  <2>3. QED BY <2>1, <2>2, BatcherAssumption
<1>2. Len(<<>>) = 0 /\ 0 <= BATCH_SIZE
  BY BatcherAssumption
<1>3. CASE buffer' = buffer \/ buffer' = <<>>
  BY <1>2, <1>3
<1>4. QED BY <1>1, <1>3 DEF Next, Start, Add, FlushLoop, TimeOut, FlushReturns, Tick, Stop, Shutdown,
               FlushAll, FlushAllReturns, OrphanReturns, Exit, Crash, FreshLoop, vars, loopVars

LEMMA LossStep == IInv /\ TimeInv /\ LossInv /\ [Next]_vars => LossInv'
<1> SUFFICES ASSUME IInv, TimeInv, LossInv, [Next]_vars PROVE LossInv'
  OBVIOUS
<1>a. TypeOK /\ TypeOK' /\ Owners /\ OnePlace
  BY TypeStep DEF IInv
<1>b. Len(buffer') <= BATCH_SIZE
  BY <1>a, BufferStep DEF LossInv
<1> SUFFICES \E L : SmallLoss(L) /\ LossOf(L)'
  BY <1>b DEF LossInv, SmallLoss
<1>c. PICK L : SmallLoss(L) /\ LossOf(L)
  BY DEF LossInv
<1>d. /\ ToSet(<<>>) = {} /\ Held \subseteq Rows
      /\ ToSet(queue) \subseteq Rows /\ ToSet(buffer) \subseteq Rows /\ ToSet(rows) \subseteq Rows
  BY <1>a, ToSetEmpty, ToSetIn DEF TypeOK, OnePlace
<1>e. SmallLoss({})
  BY FS_EmptySet, BatcherAssumption DEF SmallLoss
<1>f. ASSUME UNCHANGED <<proc, rows, inserts, accepted, spans, dropped>>, Held' = Held
      PROVE  LossOf(L)'
  BY <1>c, <1>f DEF LossOf
<1>1. CASE Start
  <2>1. inserts = {} /\ ToSet(accepted') = {} /\ inserts' = inserts /\ proc' = "up"
    BY <1>a, <1>d, <1>1 DEF Start, Owners
  <2>2. LossOf({})'
    BY <2>1 DEF LossOf
  <2>3. QED BY <1>e, <2>2
<1>2. ASSUME NEW r \in Rows, Add(r) PROVE LossOf(L)'
  <2>1. /\ ToSet(queue') = ToSet(queue) \union {r}
        /\ ToSet(accepted') = ToSet(accepted) \union {r}
    BY <1>a, <1>2, ToSetAppend DEF Add, TypeOK
  <2>2. Held' = Held \union {r}
    BY <1>2, <2>1 DEF Add, loopVars, Held
  <2>3. QED BY <1>c, <1>2, <2>1, <2>2 DEF Add, LossOf, lifeVars, tableVars
<1>3. CASE Get
  <2>1. queue # <<>> /\ queue \in Seq(Rows) /\ queue' = Tail(queue) /\ loop = "get" /\ proc = "up"
    BY <1>a, <1>3 DEF Get, TypeOK, Owners
  <2>2. ToSet(queue) = ToSet(queue') \union {Head(queue)}
    BY <2>1, HeadOrTail
  <2>3. ToSet(buffer') = ToSet(buffer) \union {Head(queue)}
    BY <1>a, <1>3, TakeHead, ToSetAppend DEF Get, TypeOK
  <2>4. inserts = {} /\ (inserts' = {} \/ inserts' = {ToSet(buffer')})
    BY <1>a, <1>3 DEF Get, Owners
  <2>5. Held' = Held
    BY <1>3, <2>2, <2>3, <2>4 DEF Get, Held
  <2>6. LossOf(L)'
    BY <1>c, <1>3, <2>1, <2>5 DEF Get, LossOf, lifeVars, tableVars, historyVars
  <2>7. QED BY <1>c, <2>6
<1>4. CASE TimeOut
  <2>1. proc = "up" /\ inserts = {} /\ (inserts' = {} \/ inserts' = {ToSet(buffer)})
    BY <1>a, <1>4 DEF TimeOut, Owners
  <2>2. Held' = Held
    BY <1>4, <2>1 DEF TimeOut, Held
  <2>3. LossOf(L)'
    BY <1>c, <1>4, <2>1, <2>2 DEF TimeOut, LossOf, lifeVars, tableVars, historyVars
  <2>4. QED BY <1>c, <2>3
<1>5. CASE FlushReturns
  <2>1. /\ InsertReturns(ToSet(buffer)) /\ inserts = {ToSet(buffer)} /\ rows = <<>> /\ proc = "up"
        /\ UNCHANGED <<proc, queue, accepted>>
    BY <1>a, <1>5 DEF FlushReturns, Owners, lifeVars, historyVars
  <2>2. \A r \in Held : r \in Held' \/ r \in ToSet(buffer)
    BY <1>d, <2>1 DEF Held
  <2>3. LossOf(L)'
    BY <1>a, <1>c, <1>d, <2>1, <2>2, InsertSettles, NoMoreLost DEF LossOf
  <2>4. QED BY <1>c, <2>3
<1>6. CASE Tick
  BY <1>c, <1>f, <1>6 DEF Tick, lifeVars, tableVars, historyVars, Held
<1>7. CASE Stop
  <2>1. PICK M : M = ToSet(buffer)
    OBVIOUS
  <2>2. SmallLoss(M)
    <3>1. IsFiniteSet(M) /\ Cardinality(M) <= Len(buffer) /\ Len(buffer) \in Nat
      BY <1>a, <2>1, ToSetCardinality, LenProperties DEF TypeOK
    <3>2. Cardinality(M) \in Nat
      BY <3>1, FS_CardinalityType
    <3>3. Cardinality(M) <= BATCH_SIZE
      BY <3>1, <3>2, BatcherAssumption DEF LossInv
    <3>4. QED BY <1>d, <2>1, <3>1, <3>3 DEF SmallLoss
  <2>3. /\ inserts \subseteq {M} /\ L = {} /\ rows = <<>> /\ rows' = rows
        /\ inserts' = inserts /\ proc' # "up"
        /\ UNCHANGED <<queue, accepted, spans, dropped>>
    BY <1>a, <1>c, <1>7, <2>1 DEF Stop, Owners, TypeOK, LossOf, tableVars, historyVars
  <2>4. \A r \in Held : r \in Held' \/ r \in M
    BY <1>d, <2>1, <2>3 DEF Held
  <2>5. \A r \in ToSet(accepted) : r \in Held \/ spans[r] > 0 \/ r \in dropped
    BY <1>c, <2>3 DEF LossOf
  <2>6. \A r \in ToSet(accepted') : r \in Held' \/ spans'[r] > 0 \/ r \in dropped' \/ r \in M
    BY <2>3, <2>4, <2>5
  <2>7. \A b \in inserts' : b \subseteq M
    BY <2>3
  <2>8. LossOf(M)'
    BY <2>3, <2>6, <2>7 DEF LossOf
  <2>9. QED BY <2>2, <2>8
<1>8. CASE FlushAll
  <2>1. buffer = <<>> /\ rows = <<>> /\ proc = "stopping" /\ proc' # "up"
    BY <1>a, <1>8 DEF FlushAll, Owners
  <2>2. Held' = Held
    BY <1>d, <1>8, <2>1 DEF FlushAll, loopVars, Held
  <2>3. \A b \in inserts' : b = ToSet(rows') \/ b \subseteq L
    BY <1>c, <1>d, <1>8, <2>1 DEF FlushAll, LossOf
  <2>4. LossOf(L)'
    BY <1>c, <1>8, <2>1, <2>2, <2>3 DEF FlushAll, LossOf, tableVars, historyVars
  <2>5. QED BY <1>c, <2>4
<1>9. CASE FlushAllReturns
  <2>1. /\ InsertReturns(ToSet(rows)) /\ ToSet(rows) \in inserts /\ buffer = <<>> /\ queue = <<>>
        /\ inserts' = inserts \ {ToSet(rows)} /\ proc = "flushall" /\ proc' # "up" /\ rows' = <<>>
        /\ UNCHANGED accepted
    BY <1>a, <1>9 DEF FlushAllReturns, Owners, InsertReturns, historyVars
  <2>2. \A r \in Held : r \in Held' \/ r \in ToSet(rows)
    BY <1>d, <2>1 DEF Held
  <2>3. \A b \in inserts' : b \subseteq L
    BY <1>c, <2>1 DEF LossOf
  <2>4. LossOf(L)'
    BY <1>a, <1>c, <1>d, <2>1, <2>2, <2>3, InsertSettles, NoMoreLost DEF LossOf
  <2>5. QED BY <1>c, <2>4
<1>10. CASE OrphanReturns
  <2>1. PICK batch \in inserts :
          /\ batch # ToSet(rows)
          /\ inserts' = inserts \ {batch}
          /\ Apply(batch) \/ UNCHANGED spans
    BY <1>10 DEF OrphanReturns
  <2>2. /\ proc # "up" /\ UNCHANGED <<proc, queue, buffer, rows, accepted, dropped>>
    BY <1>10 DEF OrphanReturns, lifeVars, loopVars, historyVars
  <2>3. batch \subseteq L
    BY <1>c, <2>1, <2>2 DEF LossOf
  <2>4. \A r \in Held : r \in Held' \/ r \in L
    BY <2>1, <2>2, <2>3 DEF Held
  <2>5. \A r \in Rows : spans'[r] = spans[r] \/ spans'[r] = spans[r] + 1
    BY <1>a, <2>1, ApplyRow DEF TypeOK
  <2>6. \A r \in ToSet(accepted') : r \in Held' \/ spans'[r] > 0 \/ r \in dropped' \/ r \in L
    BY <1>a, <1>c, <2>2, <2>4, <2>5, NoMoreLost
  <2>7. LossOf(L)'
    BY <1>c, <2>1, <2>2, <2>6 DEF LossOf
  <2>8. QED BY <1>c, <2>7
<1>11. CASE Exit
  <2>1. Held' = Held /\ proc # "up" /\ proc' # "up" /\ UNCHANGED <<rows, inserts, accepted, spans, dropped>>
    BY <1>11 DEF Exit, loopVars, tableVars, historyVars, Held
  <2>2. LossOf(L)'
    BY <1>c, <2>1 DEF LossOf
  <2>3. QED BY <1>c, <2>2
<1>12. CASE Crash
  <2>1. ToSet(accepted') = {} /\ inserts' = {} /\ proc' = "down"
    BY <1>d, <1>12 DEF Crash
  <2>2. LossOf({})'
    BY <2>1 DEF LossOf
  <2>3. QED BY <1>e, <2>2
<1>13. CASE UNCHANGED vars
  BY <1>c, <1>f, <1>13 DEF vars, lifeVars, loopVars, tableVars, historyVars, Held
<1>14. QED
  BY <1>c, <1>1, <1>2, <1>3, <1>4, <1>5, <1>6, <1>7, <1>8, <1>9, <1>10, <1>11,
     <1>12, <1>13 DEF Next, FlushLoop, Shutdown

\* A graceful stop loses without a log line at most the one batch that the
\* cancelled flush loop was holding.
THEOREM SpecStopLosesOneBatchAtMost == Spec => []StopLosesOneBatchAtMost
<1>1. Init => LossInv
  <2> SUFFICES ASSUME Init PROVE LossInv
    OBVIOUS
  <2>1. ToSet(accepted) = {} /\ inserts = {} /\ Len(buffer) = 0
    BY ToSetEmpty DEF Init
  <2>2. LossOf({})
    BY <2>1 DEF LossOf
  <2>3. SmallLoss({})
    BY FS_EmptySet, BatcherAssumption DEF SmallLoss
  <2>4. QED BY <2>1, <2>2, <2>3, BatcherAssumption DEF LossInv
<1>2. Init => TimeInv
  BY BatcherAssumption DEF Init, TimeInv
<1>3. IInv /\ TimeInv /\ [Next]_vars => TimeInv'
  BY TimeStep DEF IInv
<1>4. IInv /\ LossInv => StopLosesOneBatchAtMost
  <2> SUFFICES ASSUME IInv, LossInv, proc = "exited" PROVE Cardinality(SilentlyLost) <= BATCH_SIZE
    BY DEF StopLosesOneBatchAtMost
  <2>1. PICK L : SmallLoss(L) /\ LossOf(L)
    BY DEF LossInv
  <2>2. Held = {}
    BY ToSetEmpty DEF IInv, Owners, Held
  <2>3. SilentlyLost \subseteq L
    BY <2>1, <2>2 DEF SilentlyLost, LossOf
  <2>4. Cardinality(SilentlyLost) <= Cardinality(L) /\ IsFiniteSet(SilentlyLost)
    BY <2>1, <2>3, FS_Subset DEF SmallLoss
  <2>5. Cardinality(SilentlyLost) \in Nat /\ Cardinality(L) \in Nat
    BY <2>1, <2>4, FS_CardinalityType DEF SmallLoss
  <2>6. QED BY <2>1, <2>4, <2>5, BatcherAssumption DEF SmallLoss
<1>5. QED BY <1>1, <1>2, <1>3, <1>4, LossStep, SpecIInv, PTL DEF Spec

-----------------------------------------------------------------------------
(* Refinement *)

\* A group of held rows leaves; those in kept get their only copy.
LEMMA SettleStep ==
    ASSUME IInv, NEW group \in SUBSET Held, NEW kept \in SUBSET group,
           Held' = Held \ group, received' = received,
           Apply(kept) \/ (kept = {} /\ UNCHANGED spans)
    PROVE  Sink!Next
<1>1. spans' = [r \in Rows |-> IF r \in kept THEN 1 ELSE spans[r]]
  <2>1. \A r \in kept : spans[r] = 0
    BY DEF IInv, OnePlace
  <2>2. CASE Apply(kept)
    BY <2>1, <2>2 DEF Apply, IInv, TypeOK
  <2>3. CASE kept = {} /\ UNCHANGED spans
    BY <2>3 DEF IInv, TypeOK
  <2>4. QED BY <2>2, <2>3
<1>2. Sink!Settle(group, kept)
  BY <1>1 DEF Sink!Settle
<1>3. QED BY <1>2 DEF Sink!Next

\* The usual case: one batch or buffer, all of it stored or all of it gone.
LEMMA SettleAll ==
    ASSUME IInv, NEW group, group \subseteq Held,
           Held' = Held \ group, received' = received,
           Apply(group) \/ UNCHANGED spans
    PROVE  Sink!Next
<1>1. group \in SUBSET Held /\ group \in SUBSET group /\ {} \in SUBSET group
  OBVIOUS
<1>2. CASE Apply(group)
  BY <1>1, <1>2, SettleStep
<1>3. CASE UNCHANGED spans
  BY <1>1, <1>3, SettleStep
<1>4. QED BY <1>2, <1>3

LEMMA SinkStep == IInv /\ [Next]_vars => [Sink!Next]_Sink!sinkVars
<1> SUFFICES ASSUME IInv, [Next]_vars PROVE Sink!Next \/ UNCHANGED <<received, Held, spans>>
  BY DEF Sink!sinkVars
<1>0. ToSet(<<>>) = {}
  BY ToSetEmpty
<1>1. CASE Start
  <2>1. Held = {}
    BY <1>0, <1>1 DEF Start, IInv, Owners, Held
  <2>2. Held' = {}
    BY <1>0, <1>1, <2>1 DEF Start, FreshLoop, Held
  <2>3. QED BY <1>1, <2>1, <2>2 DEF Start, tableVars
<1>2. ASSUME NEW r \in Rows, Add(r) PROVE Sink!Next
  <2>1. ToSet(queue') = ToSet(queue) \union {r}
    BY <1>2, ToSetAppend DEF Add, IInv, TypeOK
  <2>2. Held' = Held \union {r}
    BY <1>2, <2>1 DEF Add, loopVars, Held
  <2>3. Sink!Accept(r)
    BY <1>2, <2>2 DEF Add, tableVars, Sink!Accept
  <2>4. QED BY <2>3 DEF Sink!Next
<1>3. CASE Get
  <2>1. queue # <<>> /\ queue \in Seq(Rows) /\ queue' = Tail(queue)
    BY <1>3 DEF Get, IInv, TypeOK
  <2>2. ToSet(queue) = ToSet(queue') \union {Head(queue)}
    BY <2>1, HeadOrTail
  <2>3. ToSet(buffer') = ToSet(buffer) \union {Head(queue)}
    BY <1>3, TakeHead, ToSetAppend DEF Get, IInv, TypeOK
  <2>4. inserts = {} /\ (inserts' = {} \/ inserts' = {ToSet(buffer')})
    BY <1>3 DEF Get, IInv, Owners
  <2>5. Held' = Held
    BY <1>3, <2>2, <2>3, <2>4 DEF Get, Held
  <2>6. QED BY <1>3, <2>5 DEF Get, tableVars, historyVars
<1>4. CASE TimeOut
  <2>1. inserts = {} /\ (inserts' = {} \/ inserts' = {ToSet(buffer)})
    BY <1>4 DEF TimeOut, IInv, Owners
  <2>2. Held' = Held
    BY <1>4, <2>1 DEF TimeOut, Held
  <2>3. QED BY <1>4, <2>2 DEF TimeOut, tableVars, historyVars
<1>5. CASE FlushReturns
  <2>1. InsertReturns(ToSet(buffer)) /\ inserts = {ToSet(buffer)} /\ rows = <<>>
    BY <1>5 DEF FlushReturns, IInv, Owners
  <2>2. Held' = Held \ ToSet(buffer) /\ ToSet(buffer) \subseteq Held
    BY <1>0, <1>5, <2>1 DEF FlushReturns, InsertReturns, FreshLoop, IInv, OnePlace, Held
  <2>3. received' = received /\ (Apply(ToSet(buffer)) \/ UNCHANGED spans)
    BY <1>5, <2>1 DEF FlushReturns, InsertReturns, historyVars
  <2>4. QED BY <2>2, <2>3, SettleAll
<1>6. CASE Tick
  BY <1>6 DEF Tick, tableVars, historyVars, Held
<1>7. CASE Stop
  <2>1. rows = <<>>
    BY <1>7 DEF Stop, IInv, Owners
  <2>2. Held' = Held \ (ToSet(buffer) \ UNION inserts)
    BY <1>0, <1>7, <2>1 DEF Stop, IInv, OnePlace, Held
  <2>3. ToSet(buffer) \ UNION inserts \subseteq Held
    BY DEF Held
  <2>4. QED BY <1>7, <2>2, <2>3, SettleAll DEF Stop, tableVars, historyVars
<1>8. CASE FlushAll
  <2>1. buffer = <<>> /\ rows = <<>>
    BY <1>8 DEF FlushAll, IInv, Owners
  <2>2. Held' = Held
    BY <1>0, <1>8, <2>1 DEF FlushAll, loopVars, Held
  <2>3. QED BY <1>8, <2>2 DEF FlushAll, tableVars, historyVars
<1>9. CASE FlushAllReturns
  <2>1. InsertReturns(ToSet(rows)) /\ ToSet(rows) \in inserts /\ buffer = <<>> /\ queue = <<>>
    BY <1>9 DEF FlushAllReturns, IInv, Owners
  <2>2. Held' = UNION inserts' /\ Held = UNION inserts
    BY <1>0, <1>9, <2>1 DEF FlushAllReturns, loopVars, Held
  <2>3. UNION inserts' = (UNION inserts) \ ToSet(rows)
    BY <2>1 DEF InsertReturns, IInv, OnePlace
  <2>4. received' = received /\ (Apply(ToSet(rows)) \/ UNCHANGED spans)
    BY <1>9, <2>1 DEF FlushAllReturns, InsertReturns, historyVars
  <2>5. ToSet(rows) \subseteq Held
    BY <2>1, <2>2
  <2>6. QED BY <2>2, <2>3, <2>4, <2>5, SettleAll
<1>10. CASE OrphanReturns
  <2>1. PICK batch \in inserts :
          /\ batch # ToSet(rows)
          /\ inserts' = inserts \ {batch}
          /\ Apply(batch) \/ UNCHANGED spans
    BY <1>10 DEF OrphanReturns
  <2>2. buffer = <<>> /\ (rows = <<>> \/ ToSet(rows) \in inserts)
    BY <1>10 DEF OrphanReturns, IInv, Owners, TypeOK, Procs
  <2>3. UNION inserts' = (UNION inserts) \ batch
    BY <2>1 DEF IInv, OnePlace
  <2>4. ToSet(rows) \cap batch = {} /\ ToSet(queue) \cap batch = {}
    BY <1>0, <2>1, <2>2 DEF IInv, OnePlace
  <2>5. Held' = Held \ batch
    BY <1>0, <1>10, <2>2, <2>3, <2>4 DEF OrphanReturns, loopVars, Held
  <2>6. batch \subseteq Held /\ received' = received
    BY <1>10, <2>1 DEF OrphanReturns, historyVars, Held
  <2>7. QED BY <2>1, <2>5, <2>6, SettleAll
<1>11. CASE Exit
  BY <1>11 DEF Exit, loopVars, tableVars, historyVars, Held
<1>12. CASE Crash
  <2>1. PICK survived \in SUBSET inserts : Apply(UNION survived)
    BY <1>12 DEF Crash
  <2>2. Held' = Held \ Held
    BY <1>0, <1>12 DEF Crash, Held
  <2>3. UNION survived \subseteq Held /\ received' = received
    BY <1>12 DEF Crash, Held
  <2>4. QED BY <2>1, <2>2, <2>3, SettleStep
<1>13. CASE UNCHANGED vars
  BY <1>13 DEF vars, lifeVars, loopVars, tableVars, historyVars, Held
<1>14. QED
  BY <1>1, <1>2, <1>3, <1>4, <1>5, <1>6, <1>7, <1>8, <1>9, <1>10, <1>11,
     <1>12, <1>13 DEF Next, FlushLoop, Shutdown

\* The batcher implements the abstract sink: every step of the loop, of the
\* shutdown and of a crash settles a group of held rows or changes nothing.
THEOREM SpecImplementsRowSink == Spec => ImplementsRowSink
<1>1. Init => Sink!Init
  BY ToSetEmpty DEF Init, Sink!Init, Held
<1>2. QED BY <1>1, SpecIInv, SinkStep, PTL DEF Spec, ImplementsRowSink, Sink!Spec
-----------------------------------------------------------------------------
(* The handlers over the batcher *)

\* A span is added after its last payload and pushed after it is added.
HandlerInv(s) ==
    /\ request[s] \in {"new", "s3"} => objects[s] < PAYLOADS
    /\ request[s] \in {"new", "s3", "add"} => s \notin received
    /\ request[s] = "add" => objects[s] = PAYLOADS
    /\ s \in received => objects[s] = PAYLOADS
    /\ request[s] = "lpush" => s \in received /\ s \notin ToSet(analysis_queue)
    /\ request[s] = "ok" => s \in ToSet(analysis_queue)

ServerIInv ==
    /\ request \in [Rows -> Stages] /\ objects \in [Rows -> 0 .. PAYLOADS]
    /\ analysis_queue \in Seq(Rows)
    /\ \A s \in Rows : HandlerInv(s)
    /\ IsFiniteSet(ToSet(analysis_queue)) /\ QueuedOnceAfterAdd

LEMMA ServerCases ==
    ASSUME [ServerNext]_serverVars
    PROVE  \/ \E s \in Rows : \/ Post(s) \/ PutObject(s) \/ PutObjectFails(s)
                              \/ AddRow(s) \/ Enqueue(s) \/ EnqueueFails(s)
           \/ ServerStart \/ ServerStop \/ ServerCrash \/ Background
           \/ UNCHANGED serverVars
BY DEF ServerNext, Handle

\* The handlers run the batcher: every behaviour of the server is one of the
\* batcher inside it.
THEOREM HandlersRunBatcher == ServerSpec => Spec
<1>1. ServerInit => Init
  BY DEF ServerInit
<1>2. [ServerNext]_serverVars => [Next]_vars
  BY ServerCases DEF Post, PutObject, PutObjectFails, AddRow, Enqueue, EnqueueFails, ServerStart,
                     ServerStop, ServerCrash, Background, serverVars, Next
<1>3. QED BY <1>1, <1>2, PTL DEF ServerSpec, Spec

\* What the batcher holds or has stored was added.
LEMMA HeldWasReceived ==
    ServerSpec => [](Held \cup Stored \subseteq received /\ received \subseteq Rows)
<1>1. IInv => Held \cup Stored \subseteq received /\ received \subseteq Rows
  BY DEF IInv, OnePlace, TypeOK, Stored
<1>2. QED BY <1>1, HandlersRunBatcher, SpecIInv, PTL

LEMMA ServerIInvStep == ServerIInv /\ [ServerNext]_serverVars => ServerIInv'
<1> SUFFICES ASSUME ServerIInv, [ServerNext]_serverVars PROVE ServerIInv'
  OBVIOUS
<1> USE DEF ServerIInv
<1> USE PayloadAssumption
<1>1. CASE \E s \in Rows : Post(s) \/ PutObject(s) \/ PutObjectFails(s)
  <2>1. PICK s \in Rows : Post(s) \/ PutObject(s) \/ PutObjectFails(s)
    BY <1>1
  <2>2. /\ request[s] \in {"new", "s3"} /\ UNCHANGED <<analysis_queue, received>>
        /\ \E to \in {"s3", "add", "500"} : /\ request' = [request EXCEPT ![s] = to]
                                            /\ to # "500" /\ objects'[s] = PAYLOADS => to = "add"
                                            /\ to = "add" => objects'[s] = PAYLOADS
        /\ objects' \in {objects, [objects EXCEPT ![s] = @ + 1]}
    BY <2>1 DEF Post, PutObject, PutObjectFails, Moves, vars, historyVars, HandlerInv
  <2>3. request' \in [Rows -> Stages] /\ objects' \in [Rows -> 0 .. PAYLOADS]
    <3>1. request' \in [Rows -> Stages]
      BY <2>2 DEF Stages, InFlight
    <3>2. objects[s] \in 0 .. PAYLOADS /\ (objects' # objects => objects[s] < PAYLOADS)
      BY <2>2, <2>1 DEF HandlerInv, Post, PutObject, PutObjectFails, Moves
    <3>3. objects' \in [Rows -> 0 .. PAYLOADS]
      BY <2>2, <3>2
    <3>4. QED BY <3>1, <3>3
  <2>4. HandlerInv(s)'
    BY <2>2, <2>3 DEF HandlerInv
  <2>5. ASSUME NEW r \in Rows, r # s PROVE HandlerInv(r)'
    BY <2>2, <2>5 DEF HandlerInv
  <2>6. QED BY <2>2, <2>3, <2>4, <2>5 DEF QueuedOnceAfterAdd
<1>2. CASE \E s \in Rows : AddRow(s)
  <2>1. PICK s \in Rows : AddRow(s)
    BY <1>2
  <2>2. /\ request[s] = "add" /\ request' = [request EXCEPT ![s] = "lpush"]
        /\ received' = received \cup {s} /\ UNCHANGED <<objects, analysis_queue>>
        /\ s \notin received
    BY <2>1 DEF AddRow, Moves, Add
  <2>3. request' \in [Rows -> Stages]
    BY <2>2 DEF Stages, InFlight
  <2>4. HandlerInv(s)'
    BY <2>2 DEF HandlerInv, QueuedOnceAfterAdd
  <2>5. ASSUME NEW r \in Rows, r # s PROVE HandlerInv(r)'
    BY <2>2, <2>5 DEF HandlerInv
  <2>6. QED BY <2>2, <2>3, <2>4, <2>5 DEF QueuedOnceAfterAdd
<1>3. CASE \E s \in Rows : Enqueue(s) \/ EnqueueFails(s)
  <2>1. PICK s \in Rows : Enqueue(s) \/ EnqueueFails(s)
    BY <1>3
  <2>2. /\ request[s] = "lpush" /\ UNCHANGED <<objects, received>>
        /\ \/ request' = [request EXCEPT ![s] = "ok"] /\ analysis_queue' = Append(analysis_queue, s)
           \/ /\ request' = [request EXCEPT ![s] = "500"]
              /\ analysis_queue' \in {analysis_queue, Append(analysis_queue, s)}
    BY <2>1 DEF Enqueue, EnqueueFails, Moves, vars, historyVars
  <2>3. request' \in [Rows -> Stages]
    BY <2>2 DEF Stages
  <2>4. s \in received /\ s \notin ToSet(analysis_queue)
    BY <2>2 DEF HandlerInv
  <2>5. /\ analysis_queue' \in Seq(Rows)
        /\ IsFiniteSet(ToSet(analysis_queue')) /\ ToSet(analysis_queue') \subseteq received
        /\ Cardinality(ToSet(analysis_queue')) = Len(analysis_queue')
        /\ ToSet(analysis_queue') \in {ToSet(analysis_queue), ToSet(analysis_queue) \cup {s}}
        /\ request'[s] = "ok" => s \in ToSet(analysis_queue')
    <3>1. CASE analysis_queue' = Append(analysis_queue, s)
      <4>1. /\ ToSet(analysis_queue') = ToSet(analysis_queue) \cup {s}
            /\ Len(analysis_queue') = Len(analysis_queue) + 1 /\ analysis_queue' \in Seq(Rows)
        BY <3>1, ToSetAppend
      <4>2. /\ IsFiniteSet(ToSet(analysis_queue) \cup {s})
            /\ Cardinality(ToSet(analysis_queue) \cup {s}) = Cardinality(ToSet(analysis_queue)) + 1
        BY <2>4, FS_AddElement
      <4>3. QED BY <2>4, <4>1, <4>2 DEF QueuedOnceAfterAdd
    <3>2. CASE analysis_queue' = analysis_queue /\ request'[s] = "500"
      BY <3>2 DEF QueuedOnceAfterAdd
    <3>3. QED BY <2>2, <3>1, <3>2
  <2>6. HandlerInv(s)'
    BY <2>2, <2>4, <2>5 DEF HandlerInv
  <2>7. ASSUME NEW r \in Rows, r # s PROVE HandlerInv(r)'
    BY <2>2, <2>5, <2>7 DEF HandlerInv
  <2>8. QED BY <2>2, <2>3, <2>5, <2>6, <2>7 DEF QueuedOnceAfterAdd
<1>4. CASE ServerCrash
  <2>1. /\ request' = [s \in Rows |-> IF request[s] \in InFlight THEN "cut off" ELSE request[s]]
        /\ UNCHANGED <<objects, analysis_queue, received>>
    BY <1>4 DEF ServerCrash, Crash
  <2>2. request' \in [Rows -> Stages]
    BY <2>1 DEF Stages
  <2>3. \A s \in Rows : HandlerInv(s)'
    BY <2>1 DEF HandlerInv, InFlight
  <2>4. QED BY <2>1, <2>2, <2>3 DEF QueuedOnceAfterAdd
<1>5. CASE UNCHANGED <<request, objects, analysis_queue, received>>
  BY <1>5 DEF HandlerInv, QueuedOnceAfterAdd
<1>6. ServerStart \/ ServerStop \/ Background \/ UNCHANGED serverVars =>
          UNCHANGED <<request, objects, analysis_queue, received>>
  BY DEF ServerStart, ServerStop, Background, handlerVars, serverVars, vars, historyVars, Start, Stop,
         FlushLoop, Get, TimeOut, FlushReturns, Tick, Shutdown, FlushAll, FlushAllReturns,
         OrphanReturns, Exit
<1>7. QED BY <1>1, <1>2, <1>3, <1>4, <1>5, <1>6, ServerCases

LEMMA SpecServerIInv == ServerSpec => []ServerIInv
<1>1. ServerInit => ServerIInv
  <2> SUFFICES ASSUME ServerInit PROVE ServerIInv
    OBVIOUS
  <2>1. ToSet(analysis_queue) = {} /\ Len(analysis_queue) = 0 /\ received = {}
    BY DEF ServerInit, Init, ToSet
  <2>2. \A s \in Rows : HandlerInv(s)
    BY <2>1, PayloadAssumption DEF ServerInit, HandlerInv
  <2>3. QED BY <2>1, <2>2, FS_EmptySet, PayloadAssumption DEF ServerInit, ServerIInv, QueuedOnceAfterAdd, Stages
<1>2. QED BY <1>1, ServerIInvStep, PTL DEF ServerSpec

\* Every variable of handlers and batcher keeps its type.
THEOREM SpecServerTypeOK == ServerSpec => []ServerTypeOK
<1>1. ServerIInv /\ TypeOK => ServerTypeOK
  BY DEF ServerIInv, ServerTypeOK
<1>2. QED BY <1>1, SpecServerIInv, HandlersRunBatcher, SpecTypeOK, PTL

\* No row before its payloads: not in the queue, the buffer, a running insert
\* or the table, whatever failed and whenever the process died.
THEOREM SpecPayloadsBeforeRow == ServerSpec => []PayloadsBeforeRow
<1>1. ServerIInv /\ Held \cup Stored \subseteq received /\ received \subseteq Rows =>
          PayloadsBeforeRow
  BY DEF ServerIInv, HandlerInv, PayloadsBeforeRow
<1>2. QED BY <1>1, SpecServerIInv, HeldWasReceived, PTL

\* An id reaches Redis once, after its row was added.
THEOREM SpecQueuedOnceAfterAdd == ServerSpec => []QueuedOnceAfterAdd
<1>1. ServerIInv => QueuedOnceAfterAdd
  BY DEF ServerIInv
<1>2. QED BY <1>1, SpecServerIInv, PTL

\* What an answer tells the caller of the stores is true for good.
THEOREM SpecAnswerMatchesStores == ServerSpec => []AnswerMatchesStores
<1>1. ServerIInv => AnswerMatchesStores
  BY DEF ServerIInv, HandlerInv, QueuedOnceAfterAdd, AnswerMatchesStores
<1>2. QED BY <1>1, SpecServerIInv, PTL
=============================================================================
