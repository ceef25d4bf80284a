------------------------------ MODULE Diagnosis ------------------------------
(***************************************************************************)
(* Diagnosing one span on demand.  A request of the dashboard reaches the  *)
(* Presenter: GET reads the newest row of the table diagnoses, POST checks *)
(* that the span exists, forwards to the Diagnosticer, and when that has   *)
(* answered reads the newest row back (diagnosis_service.py:120-238).      *)
(* The Diagnosticer is a process of its own: it assembles the context,     *)
(* asks an LLM, and inserts one row in a transaction (main.py:119-197).    *)
(*                                                                         *)
(* created_at is PostgreSQL's now(), the start of the transaction, so rows *)
(* may be committed in another order than their created_at.                *)
(***************************************************************************)
EXTENDS Naturals, Sequences, SequencesExt

CONSTANTS Posts, Gets

ASSUME RequestsAreDisjoint == Posts \intersect Gets = {}

Requests == Posts \union Gets

VARIABLES
    stored,      \* the span is in ClickHouse
    step,        \* how far the Presenter is with each request
    status,      \* the HTTP status of the answer
    shown,       \* created_at of the diagnosis in the answer, 0 for none
    floor,       \* newest committed created_at when the request arrived
    job,         \* how far the Diagnosticer is with each POST
    created,     \* created_at of each job's row, 0 before its transaction
    clock,       \* start of the last transaction
    diagnoses    \* committed rows, in the order of their commits

presenterVars == <<step, status, shown, floor>>
jobVars == <<job, created, clock, diagnoses>>
vars == <<stored, presenterVars, jobVars>>

Rows == [by : Posts, at : Nat \ {0}]

Running == {"context", "llm", "begin", "insert"}

TypeOK ==
    /\ stored \in BOOLEAN
    /\ step \in [Requests -> {"idle", "guard", "forward", "wait", "read", "done"}]
    /\ status \in [Requests -> 
        {"none", "200", "404", "500", "502", "503", "504", "no diagnosis"}]
    /\ shown \in [Requests -> Nat]
    /\ floor \in [Requests -> Nat]
    /\ job \in [Posts -> {"none", "ok", "error", "lost"} \union Running]
    /\ created \in [Posts -> Nat]
    /\ clock \in Nat
    /\ diagnoses \in Seq(Rows)

Init ==
    /\ stored \in BOOLEAN
    /\ step = [r \in Requests |-> "idle"]
    /\ status = [r \in Requests |-> "none"]
    /\ shown = [r \in Requests |-> 0]
    /\ floor = [r \in Requests |-> 0]
    /\ job = [p \in Posts |-> "none"]
    /\ created = [p \in Posts |-> 0]
    /\ clock = 0
    /\ diagnoses = <<>>

Committed == {diagnoses[i].at : i \in DOMAIN diagnoses}

\* The newest of a set of times, 0 for none.
Newest(times) == CHOOSE t \in times \union {0} : \A u \in times : u <= t

\* Mutant: the row committed last.
LatestByCommit == IF diagnoses = <<>> THEN 0 ELSE Last(diagnoses).at

\* get_latest_for_span
Latest == Newest(Committed)

-----------------------------------------------------------------------------
(* The Presenter *)

Move(r, from, to) ==
    /\ step[r] = from
    /\ step' = [step EXCEPT ![r] = to]

Answer(r, from, code) ==
    /\ Move(r, from, "done")
    /\ status' = [status EXCEPT ![r] = code]
    /\ UNCHANGED floor

\* The span's row reaches ClickHouse.
Store ==
    /\ ~stored
    /\ stored' = TRUE
    /\ UNCHANGED <<presenterVars, jobVars>>

Send(r) ==
    /\ Move(r, "idle", IF r \in Posts THEN "guard" ELSE "read")
    /\ floor' = [floor EXCEPT ![r] = Newest(Committed)]
    /\ UNCHANGED <<stored, status, shown, jobVars>>

\* Step 2: the span must be stored.
Guard(p) ==
    /\ IF stored
       THEN Move(p, "guard", "forward") /\ UNCHANGED <<status, floor>>
       ELSE Answer(p, "guard", "404")
    /\ UNCHANGED <<stored, shown, jobVars>>

\* Step 3: the request reaches the Diagnosticer ...
Forward(p) ==
    /\ Move(p, "forward", "wait")
    /\ job' = [job EXCEPT ![p] = "context"]
    /\ UNCHANGED <<stored, status, shown, floor, created, clock, diagnoses>>

\* ... or it cannot be connected to.
Unreachable(p) ==
    /\ Answer(p, "forward", "503")
    /\ UNCHANGED <<stored, shown, jobVars>>

\* Mutant: the limit is only put on the connection.
TimesOutConnecting(p) ==
    /\ Answer(p, "forward", "504")
    /\ UNCHANGED <<stored, shown, jobVars>>

\* httpx.TimeoutException; nobody tells the Diagnosticer.
TimesOut(p) ==
    /\ \E from \in {"forward", "wait"} : Answer(p, from, "504")
    /\ UNCHANGED <<stored, shown, jobVars>>

\* The connection breaks after the request was sent.
Breaks(p) ==
    /\ Answer(p, "wait", "503")
    /\ UNCHANGED <<stored, shown, jobVars>>

\* Mutant: the body of the answer is not waited for.
ReplyEarly(p) ==
    /\ job[p] \in {"insert", "ok"}
    /\ Move(p, "wait", "read")
    /\ UNCHANGED <<stored, status, shown, floor, jobVars>>

\* The Diagnosticer has answered 2xx.
Reply(p) ==
    /\ job[p] = "ok"
    /\ Move(p, "wait", "read")
    /\ UNCHANGED <<stored, status, shown, floor, jobVars>>

\* Step 4: any other answer is a 502.
ReplyFails(p) ==
    /\ job[p] = "error"
    /\ Answer(p, "wait", "502")
    /\ UNCHANGED <<stored, shown, jobVars>>

\* Step 5, and all of GET: read the newest row; without one, GET answers 404
\* and POST the 500 "Diagnosis not found after successful forward".
Read(r) ==
    /\ IF Latest = 0
       THEN Answer(r, "read", IF r \in Posts THEN "no diagnosis" ELSE "404")
       ELSE Answer(r, "read", "200")
    /\ shown' = [shown EXCEPT ![r] = Latest]
    /\ UNCHANGED <<stored, jobVars>>

\* A query to ClickHouse or PostgreSQL raises: 500 from the framework.
Raises(r) ==
    /\ \E from \in {"guard", "read"} : Answer(r, from, "500")
    /\ UNCHANGED <<stored, shown, jobVars>>

-----------------------------------------------------------------------------
(* The Diagnosticer *)

JobMoves(p, from, to) ==
    /\ job[p] = from
    /\ job' = [job EXCEPT ![p] = to]
    /\ UNCHANGED <<stored, presenterVars>>

\* assemble_context finds the span (else 404), flags and payloads.
Assemble(p) ==
    /\ JobMoves(p, "context", IF stored THEN "llm" ELSE "error")
    /\ UNCHANGED <<created, clock, diagnoses>>

\* The provider returns a result, well-formed or not.
Diagnose(p) ==
    /\ JobMoves(p, "llm", "begin")
    /\ UNCHANGED <<created, clock, diagnoses>>

\* A query raises, the provider raises LLMError or ParseError, PostgreSQL
\* cannot be reached or the row is refused by a CHECK.
Fails(p) ==
    /\ \E from \in Running : JobMoves(p, from, "error")
    /\ UNCHANGED <<created, clock, diagnoses>>

\* tenant_session begins the transaction: this is the row's created_at.
Begin(p) ==
    /\ JobMoves(p, "begin", "insert")
    /\ clock' = clock + 1
    /\ created' = [created EXCEPT ![p] = clock + 1]
    /\ UNCHANGED diagnoses

Insert(p) == diagnoses' = Append(diagnoses, [by |-> p, at |-> created[p]])

\* Mutant: a commit whose reply is lost is tried again.
CommitAgain(p) ==
    /\ \E to \in {"ok", "insert"} : JobMoves(p, "insert", to)
    /\ Insert(p)
    /\ UNCHANGED <<created, clock>>

\* The transaction commits; its reply may be lost.
Commit(p) ==
    /\ \E to \in {"ok", "error"} : JobMoves(p, "insert", to)
    /\ Insert(p)
    /\ UNCHANGED <<created, clock>>

\* The Diagnosticer is killed; open transactions are rolled back.
Crash ==
    /\ \E p \in Posts : job[p] \in Running
    /\ job' = [p \in Posts |-> IF job[p] \in Running THEN "lost" ELSE job[p]]
    /\ UNCHANGED <<stored, presenterVars, created, clock, diagnoses>>

PresenterStep(p) ==
    Guard(p) \/ Forward(p) \/ Unreachable(p) \/ TimesOut(p) \/ Breaks(p) \/ Reply(p) \/ ReplyFails(p)

JobStep(p) == Assemble(p) \/ Diagnose(p) \/ Fails(p) \/ Begin(p) \/ Commit(p)

Serve ==
    \/ Store
    \/ \E p \in Posts : PresenterStep(p) \/ JobStep(p)
    \/ \E r \in Requests : Read(r) \/ Raises(r)
    \/ Crash

Next == Serve \/ \E r \in Requests : Send(r)

Spec == Init /\ [][Next]_vars

\* The Presenter goes on with its requests, and its timeout fires.  Nothing is
\* assumed of the Diagnosticer, of the LLM or of the connection.
Fairness ==
    /\ \A p \in Posts : WF_vars(Guard(p)) /\ WF_vars(TimesOut(p))
    /\ \A r \in Requests : WF_vars(Read(r))

FairSpec == Spec /\ Fairness

-----------------------------------------------------------------------------
(* Properties *)

\* A POST that is answered with a diagnosis shows the row of its own job or a
\* newer one, and after a successful forward there is always one to show.
PostShowsOwnOrNewer ==
    \A p \in Posts :
        /\ status[p] = "200" => \E i \in DOMAIN diagnoses : diagnoses[i].by = p
        /\ step[p] = "done" /\ shown[p] > 0 => shown[p] >= created[p]
        /\ status[p] # "no diagnosis"

\* A request shows nothing older than what was committed when it arrived, so
\* a diagnosis that was seen once, or that a timed-out POST left behind, is
\* never followed by an older one, in whatever order transactions commit.
ReadsNeverGoBack ==
    \A r \in Requests : status[r] = "200" => shown[r] >= floor[r]

\* A POST leaves at most one row, and none if it never left the Presenter.
OneRowPerPost ==
    /\ \A i, j \in DOMAIN diagnoses : diagnoses[i].by = diagnoses[j].by => i = j
    /\ \A i \in DOMAIN diagnoses : job[diagnoses[i].by] \in {"ok", "error"}

\* Every request is answered, whatever the Diagnosticer and the LLM do.
RequestIsAnswered ==
    \A r \in Requests : step[r] # "idle" ~> step[r] = "done"
=============================================================================
