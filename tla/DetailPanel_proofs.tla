-------------------------- MODULE DetailPanel_proofs --------------------------
(***************************************************************************)
(* Proofs about Diagnosis and about DetailPanel on top of it, for every    *)
(* set of requests.                                                        *)
(*                                                                         *)
(* An answer is judged by what the table held, and the table by what the   *)
(* jobs did, so IInv ties the three: JobInv says which jobs have a row,    *)
(* StepInv how far a job can be given how far its request is, AnswerInv    *)
(* what the answers showed.  JobInv also carries that there is a newest    *)
(* row, which Latest takes for granted.                                    *)
(*                                                                         *)
(* The panel only adds to Diagnosis, so a behaviour of both is one of      *)
(* Diagnosis, and what is proved of the service holds below the panel too. *)
(* That a settled panel is decided is not inductive: a click blanks the    *)
(* display, and it is the click's own answer that fills it again, so       *)
(* PanelInv says that a blank display has a click pending.                 *)
(***************************************************************************)
EXTENDS DetailPanel, TLAPS

-----------------------------------------------------------------------------
(* The service: the inductive invariant *)

HasNewest(times) == \E t \in times \union {0} : \A u \in times : u <= t

JobInv ==
    /\ \A i \in DOMAIN diagnoses :
          /\ created[diagnoses[i].by] = diagnoses[i].at
          /\ job[diagnoses[i].by] \in {"ok", "error"}
    /\ \A i, j \in DOMAIN diagnoses : diagnoses[i].by = diagnoses[j].by => i = j
    /\ \A p \in Posts : job[p] = "ok" => \E i \in DOMAIN diagnoses : diagnoses[i].by = p
    /\ \A p \in Posts : job[p] = "insert" => created[p] > 0
    /\ HasNewest(Committed)

StepInv ==
    /\ \A p \in Posts : step[p] \in {"idle", "guard", "forward"} => job[p] = "none"
    /\ \A p \in Posts : step[p] = "read" => job[p] = "ok"

StatusInv ==
    /\ \A r \in Requests : step[r] # "done" => status[r] = "none" /\ shown[r] = 0
    /\ \A r \in Requests : step[r] = "done" => status[r] # "none"
    /\ \A r \in Requests : status[r] = "200" => shown[r] # 0
    /\ \A r \in Requests : status[r] # "200" => shown[r] = 0
    /\ \A r \in Requests : status[r] # "no diagnosis"

OrderInv ==
    /\ \A p \in Posts : status[p] = "200" => job[p] = "ok" /\ shown[p] >= created[p]
    /\ \A r \in Requests : floor[r] <= Latest
    /\ \A r \in Requests : status[r] = "200" => shown[r] >= floor[r]

AnswerInv == StatusInv /\ OrderInv

IInv == TypeOK /\ JobInv /\ StepInv /\ AnswerInv

-----------------------------------------------------------------------------
(* Newest, and the table after a commit *)

LEMMA PositiveIsNotZero == \A n \in Nat : n > 0 <=> n # 0
OBVIOUS

LEMMA NewestIsMax ==
    ASSUME NEW times \in SUBSET Nat, HasNewest(times), NEW n, n = Newest(times)
    PROVE  n \in times \union {0} /\ n \in Nat /\ \A u \in times : u <= n
<1>1. \E t \in times \union {0} : \A u \in times : u <= t
  BY DEF HasNewest
<1>2. n \in times \union {0} /\ \A u \in times : u <= n
  BY <1>1, Zenon DEF Newest
<1>3. QED BY <1>2

LEMMA OneMore ==
    ASSUME NEW S \in SUBSET Nat, HasNewest(S), NEW t \in Nat
    PROVE  HasNewest(S \union {t})
BY DEF HasNewest

LEMMA CommittedType ==
    ASSUME TypeOK
    PROVE  Committed \in SUBSET Nat /\ \A i \in DOMAIN diagnoses : diagnoses[i] \in Rows
<1>1. diagnoses \in Seq(Rows)
  BY DEF TypeOK
<1>2. \A i \in DOMAIN diagnoses : diagnoses[i] \in Rows
  BY <1>1
<1>3. QED BY <1>2 DEF Committed, Rows

\* The rows after Insert: the old ones, and one more.
LEMMA InsertRow ==
    ASSUME TypeOK, JobInv, NEW p \in Posts, job[p] = "insert", Insert(p)
    PROVE  /\ diagnoses' \in Seq(Rows)
           /\ DOMAIN diagnoses' = DOMAIN diagnoses \union {Len(diagnoses) + 1}
           /\ Len(diagnoses) + 1 \notin DOMAIN diagnoses
           /\ \A i \in DOMAIN diagnoses : diagnoses'[i] = diagnoses[i]
           /\ diagnoses'[Len(diagnoses) + 1].by = p
           /\ diagnoses'[Len(diagnoses) + 1].at = created[p]
           /\ Committed' = Committed \union {created[p]}
<1>1. diagnoses \in Seq(Rows) /\ created[p] \in Nat \ {0}
  <2>1. diagnoses \in Seq(Rows) /\ created[p] \in Nat
    BY DEF TypeOK
  <2>2. created[p] > 0
    BY DEF JobInv
  <2>3. QED BY <2>1, <2>2
<1> DEFINE row == [by |-> p, at |-> created[p]]
<1>2. row \in Rows
  BY <1>1 DEF Rows
<1>3. diagnoses' = Append(diagnoses, row)
  BY DEF Insert
<1>4. row.by = p /\ row.at = created[p]
  OBVIOUS
<1> HIDE DEF row
<1>5. /\ Len(diagnoses) \in Nat
      /\ DOMAIN diagnoses = 1 .. Len(diagnoses)
      /\ diagnoses' \in Seq(Rows)
      /\ DOMAIN diagnoses' = 1 .. Len(diagnoses) + 1
      /\ \A i \in 1 .. Len(diagnoses) : diagnoses'[i] = diagnoses[i]
      /\ diagnoses'[Len(diagnoses) + 1] = row
  BY <1>1, <1>2, <1>3
<1>6. /\ DOMAIN diagnoses' = DOMAIN diagnoses \union {Len(diagnoses) + 1}
      /\ Len(diagnoses) + 1 \notin DOMAIN diagnoses
  BY <1>5
<1>7. Committed' = Committed \union {created[p]}
  BY <1>4, <1>5, <1>6 DEF Committed
<1>8. QED BY <1>4, <1>5, <1>6, <1>7

\* Latest is what its name says.
LatestFacts ==
    /\ Latest \in Committed \union {0}
    /\ Latest \in Nat
    /\ \A u \in Committed : u <= Latest

LEMMA LatestIsMax == TypeOK /\ HasNewest(Committed) => LatestFacts
<1> SUFFICES ASSUME TypeOK, HasNewest(Committed) PROVE LatestFacts
  OBVIOUS
<1>1. Committed \in SUBSET Nat
  BY CommittedType
<1>2. Latest = Newest(Committed)
  BY DEF Latest
<1>3. QED BY <1>1, <1>2, NewestIsMax DEF LatestFacts

\* The same after a step.
LEMMA LatestIsMaxLater == (TypeOK /\ HasNewest(Committed) => LatestFacts)'
BY LatestIsMax, PTL

-----------------------------------------------------------------------------
(* The steps, by what they may change *)

\* A step of the Presenter leaves the table alone, and a step of the
\* Diagnosticer the answers.
PresenterMoves(r) ==
    \/ Send(r) \/ Read(r) \/ Raises(r)
    \/ r \in Posts /\ PresenterStep(r)

LEMMA NextCases ==
    ASSUME [Next]_vars
    PROVE  \/ Store
           \/ \E r \in Requests : PresenterMoves(r)
           \/ \E p \in Posts : JobStep(p)
           \/ Crash
           \/ UNCHANGED vars
BY DEF Next, Serve, PresenterMoves, Requests

LEMMA TypeStep == TypeOK /\ JobInv /\ [Next]_vars => TypeOK'
<1> SUFFICES ASSUME TypeOK, JobInv, [Next]_vars PROVE TypeOK'
  OBVIOUS
<1>0. clock + 1 \in Nat
  <2>1. clock \in Nat
    BY DEF TypeOK
  <2>2. QED BY <2>1
<1> USE DEF TypeOK
<1>1. CASE Store
  BY <1>1 DEF Store, presenterVars, jobVars
<1>2. ASSUME NEW r \in Requests, PresenterMoves(r) PROVE TypeOK'
  <2>2. Latest \in Nat
    BY LatestIsMax DEF JobInv, LatestFacts
  <2>3. CASE Send(r)
    BY <2>2, <2>3 DEF Send, Move, jobVars, Latest
  <2>4. CASE Read(r)
    BY <2>2, <2>4 DEF Read, Answer, Move, jobVars
  <2>5. CASE Raises(r)
    BY <2>5 DEF Raises, Answer, Move, jobVars
  <2>6. CASE r \in Posts /\ PresenterStep(r)
    BY <2>6 DEF PresenterStep, Guard, Forward, Unreachable, TimesOut, Breaks, Reply,
       ReplyFails, Answer, Move, jobVars, Running
  <2>7. QED BY <1>2, <2>3, <2>4, <2>5, <2>6 DEF PresenterMoves
<1>3. ASSUME NEW p \in Posts, JobStep(p) PROVE TypeOK'
  <2>1. CASE Commit(p)
    <3>1. diagnoses' \in Seq(Rows)
      BY <2>1, InsertRow DEF Commit, JobMoves
    <3>2. QED BY <2>1, <3>1 DEF Commit, JobMoves, presenterVars
  <2>2. CASE Assemble(p) \/ Diagnose(p) \/ Fails(p) \/ Begin(p)
    <3>1. UNCHANGED <<stored, presenterVars, diagnoses>>
      BY <2>2 DEF Assemble, Diagnose, Fails, Begin, JobMoves
    <3>2. PICK to \in {"llm", "error", "begin", "insert"} : job' = [job EXCEPT ![p] = to]
      BY <2>2 DEF Assemble, Diagnose, Fails, Begin, JobMoves
    <3>3. job' \in [Posts -> {"none", "ok", "error", "lost"} \union Running]
      BY <3>2 DEF Running
    <3>4. created' \in [Posts -> Nat] /\ clock' \in Nat
      <4>1. CASE Begin(p)
        <5>1. clock' = clock + 1 /\ created' = [created EXCEPT ![p] = clock + 1]
          BY <4>1 DEF Begin
        <5>2. QED BY <1>0, <5>1
      <4>2. CASE Assemble(p) \/ Diagnose(p) \/ Fails(p)
        BY <4>2 DEF Assemble, Diagnose, Fails
      <4>3. QED BY <2>2, <4>1, <4>2
    <3>5. QED BY <3>1, <3>3, <3>4 DEF presenterVars
  <2>3. QED BY <1>3, <2>1, <2>2 DEF JobStep
<1>4. CASE Crash
  BY <1>4 DEF Crash, presenterVars
<1>5. CASE UNCHANGED vars
  BY <1>5 DEF vars, presenterVars, jobVars
<1>6. QED BY <1>1, <1>2, <1>3, <1>4, <1>5, NextCases

LEMMA StepInvStep == IInv /\ [Next]_vars => StepInv'
<1> SUFFICES ASSUME IInv, [Next]_vars PROVE StepInv'
  OBVIOUS
<1> USE DEF IInv, TypeOK, StepInv
<1>1. CASE Store
  BY <1>1 DEF Store, presenterVars, jobVars
<1>2. ASSUME NEW r \in Requests, PresenterMoves(r) PROVE StepInv'
  <2>1. CASE Send(r) \/ Read(r) \/ Raises(r)
    <3>1. UNCHANGED job
      BY <2>1 DEF Send, Read, Raises, jobVars
    <3>2. PICK to \in {"guard", "read", "done"} :
            /\ step' = [step EXCEPT ![r] = to]
            /\ r \in Posts => to # "read" /\ (to = "guard" => step[r] = "idle")
      BY <2>1 DEF Send, Read, Raises, Answer, Move
    <3>3. QED BY <3>1, <3>2 DEF Requests
  <2>2. CASE r \in Posts /\ PresenterStep(r)
    BY <2>2 DEF PresenterStep, Guard, Forward, Unreachable, TimesOut, Breaks, Reply,
       ReplyFails, Answer, Move, jobVars, Requests
  <2>3. QED BY <1>2, <2>1, <2>2 DEF PresenterMoves
<1>3. ASSUME NEW p \in Posts, JobStep(p) PROVE StepInv'
  BY <1>3 DEF JobStep, Assemble, Diagnose, Fails, Begin, Commit, JobMoves, presenterVars, Running
<1>4. CASE Crash
  BY <1>4 DEF Crash, presenterVars, Running
<1>5. CASE UNCHANGED vars
  BY <1>5 DEF vars, presenterVars, jobVars
<1>6. QED BY <1>1, <1>2, <1>3, <1>4, <1>5, NextCases

LEMMA JobInvStep == IInv /\ [Next]_vars => JobInv'
<1> SUFFICES ASSUME IInv, [Next]_vars PROVE JobInv'
  OBVIOUS
<1>0. /\ TypeOK /\ JobInv
      /\ Committed \in SUBSET Nat
      /\ \A i \in DOMAIN diagnoses : diagnoses[i].by \in Posts
  BY CommittedType DEF IInv, Rows
<1>1. ASSUME UNCHANGED jobVars PROVE JobInv'
  BY <1>0, <1>1 DEF jobVars, JobInv, Committed
<1>2. ASSUME NEW r \in Requests, PresenterMoves(r) PROVE JobInv'
  <2>1. CASE r \in Posts /\ Forward(r)
    <3>1. job[r] = "none"
      BY <2>1 DEF Forward, Move, IInv, StepInv
    <3>2. Committed' = Committed
      BY <2>1 DEF Forward, Committed
    <3>3. QED BY <1>0, <2>1, <3>1, <3>2 DEF Forward, JobInv, TypeOK
  <2>2. CASE ~(r \in Posts /\ Forward(r))
    BY <1>1, <1>2, <2>2 DEF PresenterMoves, PresenterStep, Send, Read, Raises, Guard,
       Unreachable, TimesOut, Breaks, Reply, ReplyFails
  <2>3. QED BY <2>1, <2>2
<1>3. ASSUME NEW p \in Posts, JobStep(p) PROVE JobInv'
  <2>1. CASE Commit(p)
    <3>1. job[p] = "insert" /\ job'[p] \in {"ok", "error"} /\ created' = created
      BY <1>0, <2>1 DEF Commit, JobMoves, TypeOK
    <3>2. \A q \in Posts \ {p} : job'[q] = job[q]
      BY <1>0, <2>1 DEF Commit, JobMoves, TypeOK
    <3>3. /\ DOMAIN diagnoses' = DOMAIN diagnoses \union {Len(diagnoses) + 1}
          /\ Len(diagnoses) + 1 \notin DOMAIN diagnoses
          /\ \A i \in DOMAIN diagnoses : diagnoses'[i] = diagnoses[i]
          /\ diagnoses'[Len(diagnoses) + 1].by = p
          /\ diagnoses'[Len(diagnoses) + 1].at = created[p]
          /\ Committed' = Committed \union {created[p]}
      BY <1>0, <2>1, <3>1, InsertRow DEF Commit
    <3>4. \A i \in DOMAIN diagnoses : diagnoses[i].by # p
      BY <1>0, <3>1 DEF JobInv
    <3>5. HasNewest(Committed')
      BY <1>0, <3>3, OneMore DEF JobInv, TypeOK
    <3>6. QED BY <1>0, <3>1, <3>2, <3>3, <3>4, <3>5 DEF JobInv
  <2>2. CASE Begin(p)
    <3>1. Committed' = Committed
      BY <2>2 DEF Begin, Committed
    <3>2. \A i \in DOMAIN diagnoses : diagnoses[i].by # p
      BY <1>0, <2>2 DEF Begin, JobMoves, JobInv
    <3>9. clock + 1 > 0
      <4>1. clock \in Nat
        BY <1>0 DEF TypeOK
      <4>2. QED BY <4>1
    <3>3. /\ job'[p] = "insert" /\ created'[p] = clock + 1 /\ UNCHANGED diagnoses
          /\ \A q \in Posts \ {p} : job'[q] = job[q] /\ created'[q] = created[q]
      BY <1>0, <2>2 DEF Begin, JobMoves, TypeOK
    <3>4. QED BY <1>0, <3>1, <3>2, <3>3, <3>9 DEF JobInv
  <2>3. CASE Assemble(p) \/ Diagnose(p) \/ Fails(p)
    <3>1. Committed' = Committed
      BY <2>3 DEF Assemble, Diagnose, Fails, Committed
    <3>2. /\ job[p] \in Running /\ job'[p] \in {"llm", "begin", "error"}
          /\ UNCHANGED <<created, diagnoses>>
          /\ \A q \in Posts \ {p} : job'[q] = job[q]
      BY <1>0, <2>3 DEF Assemble, Diagnose, Fails, JobMoves, TypeOK, Running
    <3>3. \A i \in DOMAIN diagnoses : diagnoses[i].by # p
      BY <1>0, <3>2 DEF JobInv, Running
    <3>4. QED BY <1>0, <3>1, <3>2, <3>3 DEF JobInv
  <2>4. QED BY <1>3, <2>1, <2>2, <2>3 DEF JobStep
<1>4. CASE Crash
  <2>1. Committed' = Committed
    BY <1>4 DEF Crash, Committed
  <2>2. QED BY <1>0, <1>4, <2>1 DEF Crash, JobInv, TypeOK, Running
<1>5. CASE Store \/ UNCHANGED vars
  BY <1>1, <1>5 DEF Store, vars, jobVars
<1>6. QED BY <1>2, <1>3, <1>4, <1>5, NextCases

\* What an answer other than 200 leaves of AnswerInv, and a step that answers
\* nothing.
LEMMA AnswerInvKept ==
    ASSUME IInv, TypeOK', NEW r \in Requests,
           UNCHANGED <<shown, floor, created, diagnoses>>,
           \A p \in Posts : job[p] = "ok" => job'[p] = "ok",
           \/ /\ step[r] # "done" /\ step'[r] # "done"
              /\ step' = [step EXCEPT ![r] = step'[r]] /\ UNCHANGED status
           \/ /\ step[r] # "done" /\ step' = [step EXCEPT ![r] = "done"]
              /\ \E code \in {"404", "500", "502", "503", "504"} :
                    status' = [status EXCEPT ![r] = code]
    PROVE  AnswerInv'
<1>1. Latest' = Latest
  BY DEF Latest, Committed
<1>2. TypeOK /\ AnswerInv /\ Posts \subseteq Requests
  BY DEF IInv, Requests
<1>3. \A q \in Requests \ {r} : step'[q] = step[q] /\ status'[q] = status[q]
  BY <1>2 DEF TypeOK
<1>4. \/ step[r] # "done" /\ step'[r] # "done" /\ status'[r] = status[r]
      \/ /\ step[r] # "done" /\ step'[r] = "done"
         /\ status'[r] \in {"404", "500", "502", "503", "504"}
  <2>1. CASE step[r] # "done" /\ step' = [step EXCEPT ![r] = step'[r]] /\ UNCHANGED status
        /\ step'[r] # "done"
    BY <2>1
  <2>2. CASE step[r] # "done" /\ step' = [step EXCEPT ![r] = "done"]
        /\ \E code \in {"404", "500", "502", "503", "504"} : status' = [status EXCEPT ![r] = code]
    BY <1>2, <2>2 DEF TypeOK
  <2>3. QED BY <2>1, <2>2
<1>5. status'[r] = status[r] \/ status'[r] \in {"404", "500", "502", "503", "504"}
  BY <1>4
<1>6. StatusInv'
  <2>1. UNCHANGED shown /\ StatusInv
    BY <1>2 DEF AnswerInv
  <2>2. CASE step[r] # "done" /\ step'[r] # "done" /\ status'[r] = status[r]
    BY <1>3, <2>1, <2>2 DEF StatusInv
  <2>3. ASSUME step[r] # "done", step'[r] = "done",
               status'[r] \in {"404", "500", "502", "503", "504"}
        PROVE  StatusInv'
    <3>1. shown[r] = 0
      BY <2>1, <2>3 DEF StatusInv
    <3>2. status'[r] # "none" /\ status'[r] # "200" /\ status'[r] # "no diagnosis"
      BY <2>3
    <3>3. ASSUME NEW q \in Requests
          PROVE  /\ step'[q] # "done" => status'[q] = "none" /\ shown[q] = 0
                 /\ step'[q] = "done" => status'[q] # "none"
                 /\ status'[q] = "200" => shown[q] # 0
                 /\ status'[q] # "200" => shown[q] = 0
                 /\ status'[q] # "no diagnosis"
      <4>1. CASE q = r
        BY <2>3, <3>1, <3>2, <4>1
      <4>2. CASE q # r
        <5>1. step'[q] = step[q] /\ status'[q] = status[q]
          BY <1>3, <4>2
        <5>2. QED BY <2>1, <5>1 DEF StatusInv
      <4>3. QED BY <4>1, <4>2
    <3>4. QED BY <2>1, <3>3 DEF StatusInv
  <2>4. QED BY <1>4, <2>2, <2>3
<1>7. OrderInv'
  BY <1>1, <1>2, <1>3, <1>5 DEF OrderInv, AnswerInv
<1>8. QED BY <1>6, <1>7 DEF AnswerInv

LEMMA AnswerInvStep == IInv /\ [Next]_vars => AnswerInv'
<1> SUFFICES ASSUME IInv, [Next]_vars PROVE AnswerInv'
  OBVIOUS
<1>0. TypeOK /\ JobInv /\ StepInv /\ AnswerInv
  BY DEF IInv
<1>1. Latest \in Nat /\ \A u \in Committed : u <= Latest
  BY <1>0, LatestIsMax DEF JobInv, LatestFacts
<1>2. TypeOK' /\ JobInv'
  BY TypeStep, JobInvStep DEF IInv
<1>3. ASSUME UNCHANGED <<presenterVars, jobVars>> PROVE AnswerInv'
  <2>1. Latest' = Latest
    BY <1>3 DEF Latest, Committed, jobVars
  <2>2. QED BY <1>0, <1>3, <2>1 DEF presenterVars, jobVars, AnswerInv, StatusInv, OrderInv
<1>4. ASSUME NEW r \in Requests, PresenterMoves(r) PROVE AnswerInv'
  <2>1. CASE Read(r)
    <3>1. /\ step[r] = "read" /\ UNCHANGED <<floor, job, created>>
          /\ Latest' = Latest
      BY <2>1 DEF Read, Answer, Move, jobVars, Latest, Committed
    <3>2. ASSUME r \in Posts PROVE Latest > 0 /\ Latest >= created[r] /\ job[r] = "ok"
      <4>1. job[r] = "ok"
        BY <1>0, <3>1, <3>2 DEF StepInv
      <4>2. PICK i \in DOMAIN diagnoses : diagnoses[i].by = r
        BY <1>0, <3>2, <4>1 DEF JobInv
      <4>3. diagnoses[i].at = created[r] /\ created[r] \in Committed
        BY <1>0, <4>2 DEF JobInv, Committed
      <4>4. diagnoses[i] \in Rows
        BY <1>0, <4>2, CommittedType
      <4>5. created[r] \in Nat \ {0}
        BY <4>3, <4>4 DEF Rows
      <4>6. QED BY <1>1, <4>1, <4>3, <4>5
    <3>3. Latest >= floor[r]
      BY <1>0, <1>1 DEF AnswerInv, OrderInv, TypeOK
    <3>4. shown' = [shown EXCEPT ![r] = Latest] /\ step' = [step EXCEPT ![r] = "done"]
      BY <2>1 DEF Read, Answer, Move
    <3>5. PICK code \in {"200", "404", "no diagnosis"} :
            /\ status' = [status EXCEPT ![r] = code]
            /\ code = "no diagnosis" => r \in Posts /\ Latest = 0
            /\ code = "200" <=> Latest # 0
      BY <2>1 DEF Read, Answer
    <3>6. /\ step'[r] = "done" /\ shown'[r] = Latest /\ status'[r] = code
          /\ \A q \in Requests \ {r} :
                step'[q] = step[q] /\ shown'[q] = shown[q] /\ status'[q] = status[q]
      BY <1>0, <3>4, <3>5 DEF TypeOK
    <3>7. Posts \subseteq Requests
      BY DEF Requests
    <3>8. code # "no diagnosis"
      <4>1. ASSUME r \in Posts PROVE Latest # 0
        <5>1. Latest > 0
          BY <3>2, <4>1
        <5>2. Latest \in Nat
          BY <1>1
        <5>3. QED BY <5>1, <5>2, PositiveIsNotZero
      <4>2. QED BY <3>5, <4>1
    <3>9. code = "200" <=> Latest # 0
      BY <3>5
    <3>10. StatusInv'
      <4>1. \/ code = "200" /\ Latest # 0
            \/ code = "404" /\ Latest = 0
        BY <3>5, <3>8, <3>9
      <4>2. QED BY <1>0, <3>6, <4>1 DEF StatusInv, AnswerInv
    <3>11. OrderInv'
      BY <1>0, <3>1, <3>2, <3>3, <3>6, <3>7 DEF OrderInv, AnswerInv
    <3>12. QED BY <3>10, <3>11 DEF AnswerInv
  <2>2. CASE Send(r)
    <3>1. /\ step[r] = "idle" /\ UNCHANGED <<status, shown, job, created>>
          /\ Latest' = Latest
          /\ floor' = [floor EXCEPT ![r] = Latest]
      BY <2>2 DEF Send, Move, jobVars, Latest, Committed
    <3>2. PICK to \in {"guard", "read"} : step' = [step EXCEPT ![r] = to]
      BY <2>2 DEF Send, Move
    <3>3. /\ step'[r] # "done" /\ floor'[r] = Latest
          /\ \A q \in Requests \ {r} : step'[q] = step[q] /\ floor'[q] = floor[q]
      BY <1>0, <3>1, <3>2 DEF TypeOK
    <3>4. status[r] = "none" /\ shown[r] = 0
      BY <1>0, <3>1 DEF AnswerInv, StatusInv
    <3>5. Latest <= Latest
      BY <1>1
    <3>6. StatusInv'
      BY <1>0, <3>1, <3>3, <3>4 DEF StatusInv, AnswerInv
    <3>7. OrderInv'
      BY <1>0, <3>1, <3>3, <3>4, <3>5 DEF OrderInv, AnswerInv, Requests
    <3>8. QED BY <3>6, <3>7 DEF AnswerInv
  <2>3. CASE Raises(r)
    BY <1>0, <1>2, <2>3, AnswerInvKept DEF Raises, Answer, Move, jobVars
  <2>4. CASE r \in Posts /\ PresenterStep(r)
    <3>1. CASE Forward(r)
      <4>1. \A p \in Posts : job[p] = "ok" => job'[p] = "ok"
        BY <1>0, <2>4, <3>1 DEF Forward, Move, StepInv, TypeOK
      <4>2. QED BY <1>0, <1>2, <3>1, <4>1, AnswerInvKept DEF Forward, Move, TypeOK
    <3>2. CASE Guard(r)
      BY <1>0, <1>2, <3>2, AnswerInvKept DEF Guard, Answer, Move, jobVars, TypeOK
    <3>3. CASE Reply(r)
      BY <1>0, <1>2, <3>3, AnswerInvKept DEF Reply, Move, jobVars, TypeOK
    <3>4. CASE Unreachable(r) \/ TimesOut(r) \/ Breaks(r) \/ ReplyFails(r)
      BY <1>0, <1>2, <3>4, AnswerInvKept DEF Unreachable, TimesOut, Breaks, ReplyFails, Answer,
         Move, jobVars
    <3>5. QED BY <2>4, <3>1, <3>2, <3>3, <3>4 DEF PresenterStep
  <2>5. QED BY <1>4, <2>1, <2>2, <2>3, <2>4 DEF PresenterMoves
<1>5. ASSUME NEW p \in Posts, JobStep(p) \/ Crash PROVE AnswerInv'
  <2>1. /\ UNCHANGED presenterVars
        /\ Committed \subseteq Committed'
        /\ \A q \in Posts : job[q] = "ok" => job'[q] = "ok" /\ created'[q] = created[q]
    <3>1. CASE Commit(p)
      <4>1. job[p] = "insert" /\ Insert(p)
        BY <3>1 DEF Commit, JobMoves
      <4>2. Committed' = Committed \union {created[p]}
        BY <1>0, <4>1, InsertRow
      <4>3. QED BY <1>0, <3>1, <4>1, <4>2 DEF Commit, JobMoves, TypeOK
    <3>2. CASE Assemble(p) \/ Diagnose(p) \/ Fails(p) \/ Begin(p) \/ Crash
      <4>1. Committed' = Committed
        BY <3>2 DEF Assemble, Diagnose, Fails, Begin, Crash, Committed
      <4>2. QED BY <1>0, <3>2, <4>1 DEF Assemble, Diagnose, Fails, Begin, Crash, JobMoves,
         TypeOK, Running
    <3>3. QED BY <1>5, <3>1, <3>2 DEF JobStep
  <2>2. Latest' \in Nat /\ \A u \in Committed' : u <= Latest'
    <3>1. TypeOK' /\ HasNewest(Committed)'
      BY <1>2 DEF JobInv
    <3>2. QED BY <3>1, LatestIsMaxLater DEF LatestFacts
  <2>3. Latest <= Latest'
    BY <1>0, <2>1, <2>2, LatestIsMax DEF JobInv, LatestFacts
  <2>4. UNCHANGED <<step, status, shown, floor>>
    BY <2>1 DEF presenterVars
  <2>5. ASSUME NEW r \in Requests PROVE floor[r] <= Latest'
    <3>1. floor[r] \in Nat /\ floor[r] <= Latest
      BY <1>0 DEF AnswerInv, OrderInv, TypeOK
    <3>2. QED BY <1>1, <2>2, <2>3, <3>1
  <2>6. StatusInv'
    BY <1>0, <2>4 DEF AnswerInv, StatusInv
  <2>7. OrderInv'
    BY <1>0, <2>1, <2>4, <2>5 DEF AnswerInv, OrderInv
  <2>8. QED BY <2>6, <2>7 DEF AnswerInv
<1>6. CASE Crash
  BY <1>0, <1>5, <1>6 DEF Crash
<1>7. CASE Store \/ UNCHANGED vars
  BY <1>3, <1>7 DEF Store, vars
<1>8. QED BY <1>4, <1>5, <1>6, <1>7, NextCases

-----------------------------------------------------------------------------
(* The theorems *)

LEMMA InitIInv == Init => IInv
<1> SUFFICES ASSUME Init PROVE IInv
  OBVIOUS
<1>1. Committed = {} /\ DOMAIN diagnoses = {}
  BY DEF Init, Committed
<1>2. HasNewest(Committed)
  BY <1>1 DEF HasNewest
<1>3. TypeOK
  BY DEF Init, TypeOK
<1>4. JobInv
  BY <1>1, <1>2 DEF Init, JobInv
<1>5. Latest \in Nat
  BY <1>2, <1>3, LatestIsMax DEF LatestFacts
<1>6. StepInv
  BY DEF Init, StepInv, Requests
<1>7. StatusInv
  BY DEF Init, StatusInv
<1>8. OrderInv
  BY <1>5 DEF Init, OrderInv, Requests
<1>9. QED BY <1>3, <1>4, <1>6, <1>7, <1>8 DEF IInv, AnswerInv

LEMMA SpecIInv == Spec => []IInv
<1>1. IInv /\ [Next]_vars => IInv'
  BY TypeStep, JobInvStep, StepInvStep, AnswerInvStep DEF IInv
<1>2. QED BY <1>1, InitIInv, PTL DEF Spec

\* A POST that is answered with a diagnosis has its own row in the table and
\* shows it or a newer one, for any number of requests and failures.
THEOREM SpecPostShowsOwnOrNewer == Spec => []PostShowsOwnOrNewer
<1>1. IInv => PostShowsOwnOrNewer
  <2>1. TypeOK => \A p \in Posts : shown[p] > 0 => shown[p] # 0
    BY PositiveIsNotZero DEF TypeOK, Requests
  <2>2. QED BY <2>1 DEF IInv, JobInv, AnswerInv, StatusInv, OrderInv,
       PostShowsOwnOrNewer, Requests
<1>2. QED BY <1>1, SpecIInv, PTL

\* No answer shows less than what was committed when its request arrived, in
\* whatever order the transactions of the jobs begin and commit.
THEOREM SpecReadsNeverGoBack == Spec => []ReadsNeverGoBack
<1>1. IInv => ReadsNeverGoBack
  BY DEF IInv, AnswerInv, OrderInv, ReadsNeverGoBack
<1>2. QED BY <1>1, SpecIInv, PTL

\* A POST leaves one row at most, whatever is lost between the services.
THEOREM SpecOneRowPerPost == Spec => []OneRowPerPost
<1>1. IInv => OneRowPerPost
  BY DEF IInv, JobInv, OneRowPerPost
<1>2. QED BY <1>1, SpecIInv, PTL

-----------------------------------------------------------------------------
(* The panel *)


Decided ==
    \/ diagResult # 0
    \/ diagError # "none"
    \/ \E p \in Posts : p \in pending

PanelInv ==
    /\ PanelTypeOK
    /\ ~open => pending = {} /\ told = 0
    /\ told # 0 => Decided

\* Every step of the panel and the service is a step of the service.
LEMMA PanelStepIsStep == [PanelNext]_allVars => [Next]_vars
<1> SUFFICES ASSUME [PanelNext]_allVars PROVE [Next]_vars
  OBVIOUS
<1>1. \A r \in Requests : Send(r) => Next
  BY DEF Next
<1>2. CASE PanelNext
  BY <1>1, <1>2 DEF PanelNext, Open, Click, Elsewhere, Close, Deliver, Render, Next, Requests
<1>3. CASE UNCHANGED allVars
  BY <1>3 DEF allVars
<1>4. QED BY <1>2, <1>3

\* The panel on top of the service implements the service.
THEOREM PanelImplementsDiagnosis == PanelSpec => Spec
<1>1. PanelInit => Init
  BY DEF PanelInit
<1>2. QED BY <1>1, PanelStepIsStep, PTL DEF PanelSpec, Spec

LEMMA ToldIsNewest ==
    ASSUME NEW a \in Nat, NEW b \in Nat
    PROVE  Newest({a, b}) \in Nat /\ (Newest({a, b}) = 0 <=> a = 0 /\ b = 0)
<1>1. HasNewest({a, b})
  BY DEF HasNewest
<1>2. {a, b} \in SUBSET Nat
  OBVIOUS
<1> DEFINE n == Newest({a, b})
<1>3. n \in {a, b} \union {0} /\ n \in Nat /\ \A u \in {a, b} : u <= n
  BY <1>1, <1>2, NewestIsMax
<1> HIDE DEF n
<1>4. n \in Nat /\ (n = 0 <=> a = 0 /\ b = 0)
  BY <1>3
<1>5. QED BY <1>4 DEF n

LEMMA DeliverKeeps ==
    ASSUME IInv, PanelInv, NEW r \in Requests, Deliver(r), TypeOK'
    PROVE  PanelInv'
<1>0. TypeOK /\ StatusInv /\ PanelTypeOK
  BY DEF IInv, AnswerInv, PanelInv
<1>1. /\ r \in pending /\ step[r] = "done"
      /\ open' = open /\ diagLoading' = FALSE
      /\ pending' = pending \ {r} /\ told' = Newest({told, shown[r]})
  BY DEF Deliver, Render
<1>2. told' \in Nat /\ (told' = 0 <=> told = 0 /\ shown[r] = 0)
  BY <1>0, <1>1, ToldIsNewest DEF PanelTypeOK, TypeOK
<1>3. open /\ open'
  BY <1>1 DEF PanelInv
<1>4. CASE status[r] = "200"
  <2>1. diagResult' = shown[r] /\ diagError' = diagError
    BY <1>4 DEF Deliver, Render
  <2>2. shown[r] # 0 /\ shown[r] \in Nat
    BY <1>0, <1>4 DEF StatusInv, TypeOK
  <2>3. PanelTypeOK'
    BY <1>0, <1>1, <1>2, <2>1, <2>2 DEF PanelTypeOK
  <2>4. QED BY <1>3, <2>1, <2>2, <2>3 DEF PanelInv, Decided
<1>5. CASE status[r] # "200"
  <2>1. /\ diagResult' = diagResult
        /\ diagError' = IF r \in Gets /\ status[r] = "404" THEN diagError ELSE status[r]
    BY <1>5 DEF Deliver, Render
  <2>2. status[r] \in {"404", "500", "502", "503", "504"} /\ shown[r] = 0
    BY <1>0, <1>1, <1>5 DEF StatusInv, TypeOK
  <2>3. PanelTypeOK'
    BY <1>0, <1>1, <1>2, <2>1, <2>2 DEF PanelTypeOK
  <2>4. CASE r \in Posts
    <3>1. r \notin Gets
      BY <2>4, RequestsAreDisjoint
    <3>2. diagError' # "none"
      BY <2>1, <2>2, <3>1
    <3>3. QED BY <1>3, <2>3, <3>2 DEF PanelInv, Decided
  <2>5. CASE r \notin Posts
    <3>1. told' # 0 => told # 0
      BY <1>2, <2>2
    <3>2. diagError' = diagError \/ diagError' # "none"
      BY <2>1, <2>2
    <3>3. \A p \in Posts : p \in pending => p \in pending'
      BY <1>1, <2>5
    <3>4. Decided => Decided'
      BY <2>1, <3>2, <3>3 DEF Decided
    <3>5. QED BY <1>3, <2>3, <3>1, <3>4 DEF PanelInv
  <2>6. QED BY <2>4, <2>5
<1>6. QED BY <1>4, <1>5

LEMMA PanelInvStep == IInv /\ PanelInv /\ [PanelNext]_allVars => PanelInv'
<1> SUFFICES ASSUME IInv, PanelInv, [PanelNext]_allVars PROVE PanelInv'
  OBVIOUS
<1>0. TypeOK'
  BY PanelStepIsStep, TypeStep DEF IInv
<1>1. ASSUME NEW g \in Gets, Open(g) PROVE PanelInv'
  BY <1>0, <1>1 DEF Open, PanelInv, PanelTypeOK, Decided, Requests
<1>2. ASSUME NEW p \in Posts, Click(p) PROVE PanelInv'
  <2>1. open' = open /\ open /\ told' = told /\ p \in pending'
    BY <1>2 DEF Click
  <2>2. PanelTypeOK'
    BY <1>0, <1>2 DEF Click, PanelInv, PanelTypeOK, Requests
  <2>3. QED BY <2>1, <2>2 DEF PanelInv, Decided
<1>3. CASE Close
  BY <1>0, <1>3 DEF Close, PanelInv, PanelTypeOK
<1>4. ASSUME NEW r \in Requests, Deliver(r) PROVE PanelInv'
  BY <1>0, <1>4, DeliverKeeps
<1>5. CASE UNCHANGED panelVars
  BY <1>0, <1>5 DEF panelVars, PanelInv, PanelTypeOK, Decided
<1>6. CASE PanelNext
  BY <1>1, <1>2, <1>3, <1>4, <1>5, <1>6 DEF PanelNext, Elsewhere
<1>7. QED BY <1>5, <1>6 DEF allVars

LEMMA PanelSpecInv == PanelSpec => [](IInv /\ PanelInv)
<1>1. PanelInit => IInv /\ PanelInv
  <2>1. PanelInit => IInv
    BY InitIInv DEF PanelInit
  <2>2. PanelInit /\ IInv => PanelInv
    <3> SUFFICES ASSUME PanelInit, IInv PROVE PanelInv
      OBVIOUS
    <3>1. open = FALSE /\ pending = {} /\ told = 0
      BY DEF PanelInit
    <3>2. PanelTypeOK
      BY DEF PanelInit, IInv, PanelTypeOK
    <3>3. QED BY <3>1, <3>2 DEF PanelInv
  <2>3. QED BY <2>1, <2>2
<1>2. PanelSpec => []IInv
  BY PanelImplementsDiagnosis, SpecIInv, PTL
<1>3. QED BY <1>1, <1>2, PanelInvStep, PTL DEF PanelSpec

\* Whatever is clicked, fails, is answered late or happens elsewhere, a panel
\* that waits for nothing and was told of a diagnosis shows one or an error.
THEOREM PanelSettlesDecided == PanelSpec => []SettledPanelIsDecided
<1>1. PanelInv => SettledPanelIsDecided
  <2> SUFFICES ASSUME PanelInv, pending = {}, told > 0
               PROVE  diagResult > 0 \/ diagError # "none"
    BY DEF SettledPanelIsDecided
  <2>1. told \in Nat /\ diagResult \in Nat
    BY DEF PanelInv, PanelTypeOK
  <2>2. told # 0
    BY <2>1, PositiveIsNotZero
  <2>3. diagResult # 0 \/ diagError # "none"
    BY <2>2 DEF PanelInv, Decided
  <2>4. QED BY <2>1, <2>3, PositiveIsNotZero
<1>2. QED BY <1>1, PanelSpecInv, PTL

\* Below the panel an answer never shows less than its request could see.
THEOREM PanelReadsNeverGoBack == PanelSpec => []ReadsNeverGoBack
BY PanelImplementsDiagnosis, SpecReadsNeverGoBack, PTL
=============================================================================
