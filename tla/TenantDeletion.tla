--------------------------- MODULE TenantDeletion ---------------------------
(***************************************************************************)
(* Accounts, and their end.  POST /register makes a tenant, its user and   *)
(* its API key in one transaction (presenter/routers/auth.py);             *)
(* scripts/delete_tenant.py removes a tenant from ClickHouse, PostgreSQL   *)
(* and S3, one store after the other, while everything else goes on: the   *)
(* Analyser's handlers and batcher, the worker, the Diagnosticer.          *)
(*                                                                         *)
(* One tenant is deleted, Tenant, once it is registered; the spans are     *)
(* its spans.  A payload is named by its span, and S3 lists names in the   *)
(* order of the integers that stand for them.                              *)
(***************************************************************************)
EXTENDS Integers, FiniteSets, Sequences

CONSTANTS Clients,    \* those who register; each gets a tenant of its own
          EmailOf,    \* the email each registers with
          Tenant,     \* the one that is deleted
          Spans,      \* the spans of Tenant
          PageSize,   \* names S3 lists at a time
          Analysable, \* bound: the spans whose id LPUSH gets into the queue
          Diagnosable,\* bound: the spans somebody asks a diagnosis of
          MaxRuns     \* bound: runs of the script

ASSUME TenantAssumption == Tenant \in Clients
ASSUME SpansAssumption == /\ Spans \subseteq Nat /\ Clients \cap Spans = {}
                          /\ IsFiniteSet(Spans)
ASSUME PageAssumption == PageSize \in Nat \ {0}

VARIABLES registration, \* how far each registration is
          signedIn,     \* whether somebody has tokens for Tenant
          pg,           \* PostgreSQL: committed rows <<table, owner>>
          rows,         \* ClickHouse: spans
          payloads,     \* S3: spans with payloads
          handler,      \* how far POST /ingest is for each span
          buffered,     \* spans in the batcher
          queue,        \* spans in the Redis queue
          popped,       \* the span the worker tries, and tries again, to fetch
          analysing,    \* the span whose row the worker has
          traced,       \* spans in the worker's trace buffer
          flushing,     \* the span whose trace the worker flushes
          diagnosing,   \* spans the Diagnosticer has read
          mutation,     \* rows a submitted ALTER TABLE DELETE has yet to remove
          script        \* delete_tenant.py
accounts == <<registration, signedIn>>
ingestion == <<handler, buffered, queue>>
worker == <<popped, analysing, traced, flushing>>
flight == <<ingestion, worker, diagnosing>>
data == <<pg, rows, payloads, mutation>>
vars == <<accounts, flight, data, script>>

\* The order of deletion: children before parents.
AccountTables == {"api_keys", "users", "tenants"}
Tables == <<"span_scores", "diagnostics", "diagnoses", "flags", "api_keys", "users", "tenants">>

Account(c) == AccountTables \X {c}
IsOf(owner, t) == owner = t \/ (t = Tenant /\ owner \in Spans)

\* history: exposed is what has been in flight at some moment of the run
NotRunning == [step |-> "idle", runs |-> 0, table |-> 1, deleted |-> {},
               listed |-> {}, page |-> {}, exposed |-> {}]

Init == /\ registration = [c \in Clients |-> "new"] /\ signedIn = FALSE
        /\ pg = {} /\ rows = {} /\ payloads = {} /\ mutation = {}
        /\ handler = [s \in Spans |-> "new"]
        /\ buffered = {} /\ queue = {} /\ diagnosing = {}
        /\ popped = {} /\ analysing = {} /\ traced = {} /\ flushing = {}
        /\ script = NotRunning
-----------------------------------------------------------------------------
\* POST /register.  The email is looked for, the password and the key are
\* hashed, the rows are inserted, all in one transaction.
HasUser(email) == \E c \in Clients : EmailOf[c] = email /\ <<"users", c>> \in pg

CheckEmail(c) == /\ registration[c] = "new"
                 /\ registration' = [registration EXCEPT
                                        ![c] = IF HasUser(EmailOf[c]) THEN "409" ELSE "checked"]
                 /\ UNCHANGED <<signedIn, flight, data, script>>

\* users.email is UNIQUE: an insert waits for a transaction that has inserted
\* or deleted the same email and not yet ended, and raises if the email is
\* there after that; the transaction is rolled back and the answer is 500.
Contended(c) == \/ \E d \in Clients : registration[d] = "inserted" /\ EmailOf[d] = EmailOf[c]
                \/ \E d \in Clients : EmailOf[d] = EmailOf[c] /\ <<"users", d>> \in script.deleted

InsertUserUnchecked(c) == /\ registration[c] = "checked" /\ ~Contended(c)
                          /\ registration' = [registration EXCEPT ![c] = "inserted"]
                          /\ UNCHANGED <<signedIn, flight, data, script>>

InsertUser(c) == /\ registration[c] = "checked" /\ ~Contended(c)
                 /\ registration' = [registration EXCEPT
                                        ![c] = IF HasUser(EmailOf[c]) THEN "500" ELSE "inserted"]
                 /\ UNCHANGED <<signedIn, flight, data, script>>

Registered(c) == /\ registration[c] = "inserted"
                 /\ registration' = [registration EXCEPT ![c] = "registered"]
                 /\ pg' = pg \cup Account(c)
                 /\ UNCHANGED <<signedIn, flight, rows, payloads, mutation, script>>

\* Tokens are not looked up anywhere: they outlive the user.
Login == /\ <<"users", Tenant>> \in pg
         /\ signedIn' = TRUE
         /\ UNCHANGED <<registration, flight, data, script>>
-----------------------------------------------------------------------------
Expose(s) == script' = [script EXCEPT !.exposed = IF script.step = "idle" THEN {} ELSE @ \cup {s}]

\* The keys are read in one query, and compared one by one after that.
VerifyApiKey(s) == /\ handler[s] = "new" /\ <<"api_keys", Tenant>> \in pg
                   /\ handler' = [handler EXCEPT ![s] = "accepted"]
                   /\ Expose(s)
                   /\ UNCHANGED <<accounts, buffered, queue, worker, diagnosing, data>>

Upload(s) == /\ handler[s] = "accepted"
             /\ payloads' = payloads \cup {s}
             /\ handler' = [handler EXCEPT ![s] = "uploaded"]
             /\ UNCHANGED <<accounts, buffered, queue, worker, diagnosing, pg, rows, mutation, script>>

Add(s) == /\ handler[s] = "uploaded"
          /\ buffered' = buffered \cup {s}
          /\ handler' = [handler EXCEPT ![s] = "added"]
          /\ UNCHANGED <<accounts, queue, worker, diagnosing, data, script>>

\* LPUSH, or the end of the request at any call that raised.
Ingested(s) == /\ \/ handler[s] = "added" /\ s \in Analysable /\ queue' = queue \cup {s}
                  \/ handler[s] \in {"accepted", "uploaded", "added"} /\ UNCHANGED queue
               /\ handler' = [handler EXCEPT ![s] = "done"]
               /\ UNCHANGED <<accounts, buffered, worker, diagnosing, data, script>>

\* The rows of a batch are stored, or dropped if the insert fails.
Flush == \E batch \in SUBSET buffered :
             /\ batch # {}
             /\ rows' \in {rows, rows \cup batch} /\ buffered' = buffered \ batch
             /\ UNCHANGED <<accounts, handler, queue, worker, diagnosing, pg, payloads, mutation, script>>

\* The worker is one thread.  It pops a span; looks for its row up to three
\* times, asleep in between; analyses it; writes its scores, then its flags;
\* and keeps it in the trace buffer until the trace is flushed, which writes
\* scores and flags of the trace.  A trace is here one span.  A worker that is
\* killed loses what it holds, as one does whose analyses all raise.
Busy == popped \cup analysing \cup flushing # {}

PopSpan(s) == /\ s \in queue /\ ~Busy
              /\ queue' = queue \ {s} /\ popped' = {s}
              /\ UNCHANGED <<accounts, handler, buffered, analysing, traced, flushing, diagnosing, data, script>>

FetchSpan(s) == /\ s \in popped \cap rows
                /\ popped' = {} /\ analysing' = {s}
                /\ UNCHANGED <<accounts, ingestion, traced, flushing, diagnosing, data, script>>

GiveUp(s) == /\ s \in popped
             /\ popped' = {}
             /\ UNCHANGED <<accounts, ingestion, analysing, traced, flushing, diagnosing, data, script>>

WriteScores(s) == /\ s \in analysing \cup flushing
                  /\ pg' = pg \cup {<<"span_scores", s>>}
                  /\ UNCHANGED <<accounts, flight, rows, payloads, mutation, script>>

Analysed(s) == /\ s \in analysing
               /\ pg' \in {pg, pg \cup {<<"flags", s>>}}
               /\ analysing' = {} /\ traced' = traced \cup {s}
               /\ UNCHANGED <<accounts, ingestion, popped, flushing, diagnosing, rows, payloads, mutation, script>>

\* A ValueError is taken for a row that is not there yet.
AnalysisFails(s) == /\ s \in analysing
                    /\ analysing' = {} /\ popped' \in {{}, {s}}
                    /\ UNCHANGED <<accounts, ingestion, traced, flushing, diagnosing, data, script>>

FlushTrace(s) == /\ s \in traced /\ ~Busy
                 /\ traced' = traced \ {s} /\ flushing' = {s}
                 /\ UNCHANGED <<accounts, ingestion, popped, analysing, diagnosing, data, script>>

\* A flush that fails has dropped its trace all the same.
TraceFlushed(s) == /\ s \in flushing
                   /\ pg' \in {pg, pg \cup {<<"flags", s>>}}
                   /\ flushing' = {}
                   /\ UNCHANGED <<accounts, ingestion, popped, analysing, traced, diagnosing, rows, payloads, mutation, script>>

\* POST /diagnose, with any token for Tenant; the row is written at the end,
\* if nothing fails.
Diagnose(s) == /\ signedIn /\ s \in (Diagnosable \cap rows) \ diagnosing
               /\ diagnosing' = diagnosing \cup {s}
               /\ Expose(s)
               /\ UNCHANGED <<accounts, ingestion, worker, data>>

Diagnosed(s) == /\ s \in diagnosing
                /\ diagnosing' = diagnosing \ {s}
                /\ pg' \in {pg, pg \cup {<<"diagnoses", s>>}}
                /\ UNCHANGED <<accounts, ingestion, worker, rows, payloads, mutation, script>>
-----------------------------------------------------------------------------
InFlight(s) == \/ handler[s] \in {"accepted", "uploaded", "added"}
               \/ s \in buffered \cup queue \cup diagnosing
               \/ s \in popped \cup analysing \cup traced \cup flushing

Running(step) == script.step = step

\* main --confirm, for a tenant id its owner was given; the counting of the dry
\* run changes nothing.
Start == /\ script.step \in {"idle", "failed", "complete"} /\ script.runs < MaxRuns
         /\ registration[Tenant] = "registered"
         /\ script' = [NotRunning EXCEPT !.step = "counted", !.runs = script.runs + 1,
                                         !.exposed = {s \in Spans : InFlight(s)}]
         /\ UNCHANGED <<accounts, flight, data>>

DeleteClickhouse == /\ Running("counted")
                    /\ mutation' = mutation \cup rows
                    /\ script' = [script EXCEPT !.step = "postgres"]
                    /\ UNCHANGED <<accounts, flight, pg, rows, payloads>>

\* ClickHouse applies the mutation in the background, to the rows that were
\* there when it was submitted.
Mutate == /\ mutation # {}
          /\ rows' = rows \ mutation /\ mutation' = {}
          /\ UNCHANGED <<accounts, flight, pg, payloads, script>>

\* One DELETE after the other, each of the rows committed by then.
Doomed == {r \in pg : r[1] = Tables[script.table] /\ IsOf(r[2], Tenant)}

DeleteTableAutocommit == /\ Running("postgres") /\ script.table <= Len(Tables)
                         /\ pg' = pg \ Doomed
                         /\ script' = [script EXCEPT !.table = @ + 1]
                         /\ UNCHANGED <<accounts, flight, rows, payloads, mutation>>

DeleteTable == /\ Running("postgres") /\ script.table <= Len(Tables)
               /\ script' = [script EXCEPT !.table = @ + 1, !.deleted = @ \cup Doomed]
               /\ UNCHANGED <<accounts, flight, data>>

Commit == /\ Running("postgres") /\ script.table > Len(Tables)
          /\ pg' = pg \ script.deleted
          /\ script' = [script EXCEPT !.step = "s3", !.deleted = {}]
          /\ UNCHANGED <<accounts, flight, rows, payloads, mutation>>

\* A page holds the first names behind the page before.
Behind(page) == {s \in payloads : \A p \in page : s > p}
Page(page) == {s \in Behind(page) : Cardinality({r \in Behind(page) : r < s}) < PageSize}

ListPageOnce == /\ Running("s3")
                /\ script' = IF script.page # {} \/ Page(script.page) = {} THEN [script EXCEPT !.step = "complete"]
                             ELSE [script EXCEPT !.step = "listed", !.listed = Page(script.page)]
                /\ UNCHANGED <<accounts, flight, data>>

ListPage == /\ Running("s3")
            /\ script' = IF Page(script.page) = {} THEN [script EXCEPT !.step = "complete"]
                         ELSE [script EXCEPT !.step = "listed", !.listed = Page(script.page)]
            /\ UNCHANGED <<accounts, flight, data>>

DeleteObjects == /\ Running("listed")
                 /\ payloads' = payloads \ script.listed
                 /\ script' = [script EXCEPT !.step = "s3", !.listed = {}, !.page = script.listed]
                 /\ UNCHANGED <<accounts, flight, pg, rows, mutation>>

\* Any call may raise: the transaction is rolled back, the script ends.
Fail == /\ script.step \in {"counted", "postgres", "s3", "listed"}
        /\ script' = [script EXCEPT !.step = "failed", !.deleted = {}, !.listed = {}]
        /\ UNCHANGED <<accounts, flight, data>>
-----------------------------------------------------------------------------
Register(c) == CheckEmail(c) \/ InsertUser(c) \/ Registered(c)

Ingest(s) == VerifyApiKey(s) \/ Upload(s) \/ Add(s) \/ Ingested(s)
Work(s) == \/ PopSpan(s) \/ FetchSpan(s) \/ GiveUp(s)
           \/ WriteScores(s) \/ Analysed(s) \/ AnalysisFails(s)
           \/ FlushTrace(s) \/ TraceFlushed(s)
Services(s) == Ingest(s) \/ Work(s) \/ Diagnose(s) \/ Diagnosed(s)

DeleteTenant == Start \/ DeleteClickhouse \/ DeleteTable \/ Commit \/ ListPage \/ DeleteObjects \/ Fail

Next == \/ \E c \in Clients : Register(c)
        \/ Login
        \/ \E s \in Spans : Services(s)
        \/ Flush \/ Mutate
        \/ DeleteTenant

Spec == Init /\ [][Next]_vars
-----------------------------------------------------------------------------
TypeOK ==
    /\ registration \in [Clients -> {"new", "checked", "inserted", "registered", "409", "500"}]
    /\ signedIn \in BOOLEAN
    /\ pg \subseteq (AccountTables \X Clients) \cup ({"span_scores", "diagnoses", "flags"} \X Spans)
    /\ rows \subseteq Spans /\ payloads \subseteq Spans /\ mutation \subseteq rows
    /\ handler \in [Spans -> {"new", "accepted", "uploaded", "added", "done"}]
    /\ buffered \subseteq Spans /\ queue \subseteq Spans /\ diagnosing \subseteq Spans
    /\ popped \subseteq Spans /\ analysing \subseteq Spans
    /\ traced \subseteq Spans /\ flushing \subseteq Spans
    /\ DOMAIN script = DOMAIN NotRunning
    /\ script.step \in {"idle", "counted", "postgres", "s3", "listed", "complete", "failed"}
    /\ script.table \in 1 .. Len(Tables) + 1 /\ script.deleted \subseteq pg
    /\ script.listed \subseteq Spans /\ script.page \subseteq Spans /\ script.exposed \subseteq Spans

\* An account is there whole or not at all, however a registration or a
\* deletion ends: never a tenant without its user, a key that outlives its
\* tenant (auth.py:134, delete_tenant.py:199).
AccountsAreWhole == \A c \in Clients : Account(c) \subseteq pg \/ Account(c) \cap pg = {}

\* Of two registrations with one email at most one has a user at a time, though
\* both may have found the email free; and nobody is turned away from an email
\* that nobody got (auth.py:138).
EmailHasOneOwner ==
    \A c \in Clients :
        /\ \A d \in Clients \ {c} : EmailOf[c] = EmailOf[d] => ~({<<"users", c>>, <<"users", d>>} \subseteq pg)
        /\ registration[c] \in {"409", "500"} =>
               \E d \in Clients \ {c} : EmailOf[d] = EmailOf[c] /\ registration[d] = "registered"

\* What a run that printed "DELETION COMPLETE" leaves behind, once the mutation
\* is through, belongs to spans that were being ingested, waited for, analysed,
\* kept for their trace or diagnosed while it ran; all else is gone, from all
\* three stores, whatever earlier runs failed at (delete_tenant.py:294).
Leftovers == rows \cup payloads \cup {s \in Spans : \E i \in 1 .. Len(Tables) : <<Tables[i], s>> \in pg}

LeftoverWasInFlight == script.step = "complete" /\ mutation = {} => Leftovers \subseteq script.exposed
=============================================================================
