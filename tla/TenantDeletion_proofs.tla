------------------------ MODULE TenantDeletion_proofs ------------------------
(***************************************************************************)
(* TenantDeletion's invariants for any clients, emails, spans and sizes of *)
(* a page.  None of the three is inductive: what they need to know of an   *)
(* unfinished registration and of a run that is under way is in IInv.      *)
(***************************************************************************)
EXTENDS TenantDeletion, FiniteSetTheorems, WellFoundedInduction, TLAPS

\* A user is there, or will be once its transaction ends.
Holds(c) == registration[c] = "inserted" \/ <<"users", c>> \in pg

\* Nobody has a row before the registration is through.
RegistrationInv ==
    /\ \A c \in Clients : registration[c] # "registered" => Account(c) \cap pg = {}
    /\ \A c, d \in Clients : c # d /\ EmailOf[c] = EmailOf[d] => ~(Holds(c) /\ Holds(d))
    /\ \A c \in Clients : registration[c] \in {"409", "500"} =>
           \E d \in Clients \ {c} : EmailOf[d] = EmailOf[c] /\ registration[d] = "registered"

\* The transaction of the script holds, of the tables it is through with, all
\* that is the tenant's, and nothing that is another client's.
TransactionInv ==
    /\ script.step # "idle" => registration[Tenant] = "registered"
    /\ script.step = "counted" => script.table = 1
    /\ script.step # "postgres" => script.deleted = {}
    /\ \A c \in Clients \ {Tenant} : script.deleted \cap Account(c) = {}
    /\ script.step = "postgres" =>
           \A i \in {5, 6, 7} : i < script.table /\ <<Tables[i], Tenant>> \in pg =>
               <<Tables[i], Tenant>> \in script.deleted

Idle(s) == /\ handler[s] \in {"new", "done"}
           /\ s \notin buffered \cup queue \cup diagnosing
           /\ s \notin popped \cup analysing \cup traced \cup flushing

\* A span that was never in flight during the run is not in flight now.
ExposureInv == script.step # "idle" => \A s \in Spans \ script.exposed : Idle(s)

\* What is left, in each store, of such a span.
RowsInv == script.step \in {"postgres", "s3", "listed", "complete"} =>
               rows \subseteq mutation \cup script.exposed

PgInv ==
    /\ script.step = "postgres" =>
           \A i \in 1 .. 7, s \in Spans \ script.exposed :
               i < script.table /\ <<Tables[i], s>> \in pg => <<Tables[i], s>> \in script.deleted
    /\ script.step \in {"s3", "listed", "complete"} =>
           \A i \in 1 .. 7, s \in Spans \ script.exposed : <<Tables[i], s>> \notin pg

PayloadsInv ==
    /\ script.step \in {"counted", "postgres"} => script.page = {}
    /\ script.step = "s3" =>
           \A s \in payloads \ script.exposed : \A p \in script.page : s > p
    /\ script.step = "listed" =>
           \A s \in payloads \ script.exposed : s \in script.listed \/ \A p \in script.listed : s > p
    /\ script.step = "complete" => payloads \subseteq script.exposed

AccountInv == TypeOK /\ RegistrationInv /\ TransactionInv /\ AccountsAreWhole
StoresInv == ExposureInv /\ RowsInv /\ PgInv /\ PayloadsInv
IInv == AccountInv /\ StoresInv
-----------------------------------------------------------------------------
LEMMA NextCases ==
    ASSUME [Next]_vars
    PROVE  \/ \E c \in Clients : CheckEmail(c) \/ InsertUser(c) \/ Registered(c)
           \/ Login
           \/ \E s \in Spans : Services(s)
           \/ Flush \/ Mutate
           \/ Start \/ DeleteClickhouse \/ DeleteTable \/ Commit
           \/ ListPage \/ DeleteObjects \/ Fail
           \/ UNCHANGED vars
BY DEF Next, Register, DeleteTenant

LEMMA TablesFacts ==
    /\ Len(Tables) = 7
    /\ Tables[1] = "span_scores" /\ Tables[2] = "diagnostics" /\ Tables[3] = "diagnoses"
    /\ Tables[4] = "flags"
    /\ Tables[5] = "api_keys" /\ Tables[6] = "users" /\ Tables[7] = "tenants"
BY DEF Tables

\* What a service writes is named by the span it works on; of the script's
\* record it touches the history only.
Written(s) ==
    /\ UNCHANGED <<registration, signedIn, rows, mutation>>
    /\ payloads' \in {payloads, payloads \cup {s}}
    /\ \/ pg' = pg
       \/ \E t \in {"span_scores", "diagnoses", "flags"} : pg' = pg \cup {<<t, s>>}
    /\ \/ script' = script
       \/ script' = [script EXCEPT !.exposed = IF script.step = "idle" THEN {} ELSE @ \cup {s}]

LEMMA ServicesWrite ==
    ASSUME NEW s \in Spans, Services(s)
    PROVE  Written(s)
<1> USE DEF accounts, ingestion, worker, flight, data
<1>1. CASE VerifyApiKey(s) \/ Diagnose(s)
  BY <1>1 DEF VerifyApiKey, Diagnose, Expose, Written
<1>2. CASE Upload(s) \/ Add(s) \/ Ingested(s)
  BY <1>2 DEF Upload, Add, Ingested, Written
<1>3. CASE PopSpan(s) \/ FetchSpan(s) \/ GiveUp(s) \/ AnalysisFails(s) \/ FlushTrace(s)
  BY <1>3 DEF PopSpan, FetchSpan, GiveUp, AnalysisFails, FlushTrace, Written
<1>4. CASE WriteScores(s) \/ Analysed(s) \/ TraceFlushed(s) \/ Diagnosed(s)
  BY <1>4 DEF WriteScores, Analysed, TraceFlushed, Diagnosed, Written
<1>5. QED BY <1>1, <1>2, <1>3, <1>4 DEF Services, Ingest, Work

\* A service moves its span from one place to another, and no other span.
LEMMA ServicesFlight ==
    ASSUME TypeOK, NEW s \in Spans, Services(s)
    PROVE  /\ handler' \in [Spans -> {"new", "accepted", "uploaded", "added", "done"}]
           /\ buffered' \subseteq Spans /\ queue' \subseteq Spans /\ diagnosing' \subseteq Spans
           /\ popped' \subseteq Spans /\ analysing' \subseteq Spans
           /\ traced' \subseteq Spans /\ flushing' \subseteq Spans
           /\ \A r \in Spans \ {s} : Idle(r) => Idle(r)'
<1> USE DEF accounts, ingestion, worker, flight, TypeOK, Idle
<1>1. CASE Ingest(s)
  BY <1>1 DEF Ingest, VerifyApiKey, Upload, Add, Ingested
<1>2. CASE PopSpan(s) \/ FetchSpan(s) \/ GiveUp(s)
  BY <1>2 DEF PopSpan, FetchSpan, GiveUp
<1>3. CASE WriteScores(s) \/ Analysed(s) \/ AnalysisFails(s)
  BY <1>3 DEF WriteScores, Analysed, AnalysisFails
<1>4. CASE FlushTrace(s) \/ TraceFlushed(s)
  BY <1>4 DEF FlushTrace, TraceFlushed
<1>5. CASE Diagnose(s) \/ Diagnosed(s)
  BY <1>5 DEF Diagnose, Diagnosed
<1>6. QED BY <1>1, <1>2, <1>3, <1>4, <1>5 DEF Services, Work

LEMMA TypeOKStep == TypeOK /\ [Next]_vars => TypeOK'
<1> SUFFICES ASSUME TypeOK, [Next]_vars PROVE TypeOK'
  OBVIOUS
<1> USE TenantAssumption, SpansAssumption
<1>1. CASE \E c \in Clients : CheckEmail(c) \/ InsertUser(c) \/ Registered(c)
  <2>1. PICK c \in Clients : CheckEmail(c) \/ InsertUser(c) \/ Registered(c)
    BY <1>1
  <2>2. pg' \in {pg, pg \cup Account(c)}
    BY <2>1 DEF CheckEmail, InsertUser, Registered, data
  <2>3. Account(c) \subseteq AccountTables \X Clients
    BY DEF Account
  <2>4. registration' \in [Clients -> {"new", "checked", "inserted", "registered", "409", "500"}]
    BY <2>1 DEF TypeOK, CheckEmail, InsertUser, Registered
  <2>5. UNCHANGED <<signedIn, flight, rows, payloads, mutation, script>>
    BY <2>1 DEF CheckEmail, InsertUser, Registered, data
  <2>6. QED BY <2>2, <2>3, <2>4, <2>5 DEF TypeOK, flight, ingestion, worker
<1>2. CASE Login
  BY <1>2 DEF TypeOK, Login, flight, ingestion, worker, data
<1>3. CASE \E s \in Spans : Services(s)
  <2>1. PICK s \in Spans : Services(s)
    BY <1>3
  <2>2. \/ pg' = pg
        \/ \E t \in {"span_scores", "diagnoses", "flags"} : pg' = pg \cup {<<t, s>>}
    BY <2>1, ServicesWrite DEF Written
  <2>3. /\ UNCHANGED <<registration, rows, mutation>>
        /\ payloads' \in {payloads, payloads \cup {s}}
        /\ signedIn' = signedIn
        /\ \/ script' = script
           \/ script' = [script EXCEPT !.exposed = IF script.step = "idle" THEN {} ELSE @ \cup {s}]
    BY <2>1, ServicesWrite DEF Written
  <2>4. /\ handler' \in [Spans -> {"new", "accepted", "uploaded", "added", "done"}]
        /\ buffered' \subseteq Spans /\ queue' \subseteq Spans /\ diagnosing' \subseteq Spans
        /\ popped' \subseteq Spans /\ analysing' \subseteq Spans
        /\ traced' \subseteq Spans /\ flushing' \subseteq Spans
    BY <2>1, ServicesFlight
  <2>6. pg' \subseteq (AccountTables \X Clients) \cup ({"span_scores", "diagnoses", "flags"} \X Spans)
    BY <2>2 DEF TypeOK
  <2>7. QED BY <2>2, <2>3, <2>4, <2>6 DEF TypeOK, NotRunning
<1>4. CASE Flush \/ Mutate
  BY <1>4 DEF TypeOK, Flush, Mutate, accounts, flight, ingestion, worker
<1>5. CASE Start
  BY <1>5, TablesFacts DEF TypeOK, Start, NotRunning, accounts, flight, ingestion, worker, data
<1>6. CASE DeleteClickhouse
  BY <1>6 DEF TypeOK, DeleteClickhouse, Running, accounts, flight, ingestion, worker, NotRunning
<1>7. CASE DeleteTable
  BY <1>7, TablesFacts DEF TypeOK, DeleteTable, Doomed, Running, accounts, flight, ingestion, worker, data, NotRunning
<1>8. CASE Commit
  BY <1>8 DEF TypeOK, Commit, Running, accounts, flight, ingestion, worker, NotRunning
<1>9. CASE ListPage
  BY <1>9 DEF TypeOK, ListPage, Page, Behind, Running, accounts, flight, ingestion, worker, data, NotRunning
<1>10. CASE DeleteObjects
  BY <1>10 DEF TypeOK, DeleteObjects, Running, accounts, flight, ingestion, worker, NotRunning
<1>11. CASE Fail
  BY <1>11 DEF TypeOK, Fail, accounts, flight, ingestion, worker, data, NotRunning
<1>12. CASE UNCHANGED vars
  BY <1>12 DEF TypeOK, vars, accounts, flight, ingestion, worker, data
<1>13. QED
  BY <1>1, <1>2, <1>3, <1>4, <1>5, <1>6, <1>7, <1>8, <1>9, <1>10, <1>11, <1>12, NextCases
-----------------------------------------------------------------------------
\* What a service writes is named by a span: no account row comes or goes.
LEMMA ServicesKeepAccounts ==
    ASSUME TypeOK, [Next]_vars,
           \/ \E s \in Spans : Services(s)
           \/ Login \/ Flush \/ Mutate \/ UNCHANGED vars
    PROVE  /\ UNCHANGED registration
           /\ script'.step = script.step /\ script'.table = script.table
           /\ script'.deleted = script.deleted
           /\ pg \subseteq pg'
           /\ \A t \in AccountTables, c \in Clients : <<t, c>> \in pg' => <<t, c>> \in pg
<1>1. CASE Login \/ Flush \/ Mutate \/ UNCHANGED vars
  BY <1>1 DEF Login, Flush, Mutate, vars, accounts, flight, ingestion, worker, data
<1>2. CASE \E s \in Spans : Services(s)
  <2>1. PICK s \in Spans : Services(s)
    BY <1>2
  <2>2. Written(s)
    BY <2>1, ServicesWrite
  <2>3. /\ script'.step = script.step /\ script'.table = script.table
        /\ script'.deleted = script.deleted
    BY <2>2 DEF Written, TypeOK, NotRunning
  <2>4. /\ pg \subseteq pg'
        /\ \A t \in AccountTables, c \in Clients : <<t, c>> \in pg' => <<t, c>> \in pg
    BY <2>2 DEF Written, AccountTables
  <2>5. QED BY <2>2, <2>3, <2>4 DEF Written
<1>3. QED BY <1>1, <1>2

LEMMA RegistrationInvStep == AccountInv /\ [Next]_vars => RegistrationInv'
<1> SUFFICES ASSUME AccountInv, [Next]_vars PROVE RegistrationInv'
  OBVIOUS
<1>0. TypeOK /\ RegistrationInv /\ TransactionInv
  BY DEF AccountInv
<1>1. \A c \in Clients : <<"users", c>> \in pg => registration[c] = "registered"
  BY <1>0 DEF RegistrationInv, Account, AccountTables
<1>2. CASE \E c \in Clients : CheckEmail(c)
  <2>1. PICK c \in Clients : CheckEmail(c)
    BY <1>2
  <2>2. UNCHANGED pg /\ registration[c] = "new"
    BY <2>1 DEF CheckEmail, data
  <2>3. \A d \in Clients \ {c} : registration'[d] = registration[d]
    BY <2>1, <1>0 DEF CheckEmail, TypeOK
  <2>4. CASE registration'[c] = "checked"
    BY <1>0, <2>2, <2>3, <2>4 DEF RegistrationInv, Holds, Account
  <2>5. CASE registration'[c] = "409"
    <3>1. HasUser(EmailOf[c])
      BY <1>0, <2>1, <2>5 DEF CheckEmail, TypeOK
    <3>2. PICK d \in Clients : EmailOf[d] = EmailOf[c] /\ registration[d] = "registered"
      BY <1>1, <3>1 DEF HasUser
    <3>3. d # c /\ registration'[d] = "registered"
      BY <2>2, <2>3, <3>2
    <3>4. QED BY <1>0, <2>2, <2>3, <2>5, <3>2, <3>3 DEF RegistrationInv, Holds, Account
  <2>6. QED BY <1>0, <2>1, <2>4, <2>5 DEF CheckEmail, TypeOK
<1>3. CASE \E c \in Clients : InsertUser(c)
  <2>1. PICK c \in Clients : InsertUser(c)
    BY <1>3
  <2>2. UNCHANGED pg /\ registration[c] = "checked" /\ ~Contended(c)
    BY <2>1 DEF InsertUser, data
  <2>3. \A d \in Clients \ {c} : registration'[d] = registration[d]
    BY <2>1, <1>0 DEF InsertUser, TypeOK
  <2>4. CASE HasUser(EmailOf[c])
    <3>1. registration'[c] = "500"
      BY <1>0, <2>1, <2>4 DEF InsertUser, TypeOK
    <3>2. PICK d \in Clients : EmailOf[d] = EmailOf[c] /\ registration[d] = "registered"
      BY <1>1, <2>4 DEF HasUser
    <3>3. d # c /\ registration'[d] = "registered"
      BY <2>2, <2>3, <3>2
    <3>4. QED BY <1>0, <2>2, <2>3, <3>1, <3>2, <3>3 DEF RegistrationInv, Holds, Account
  <2>5. CASE ~HasUser(EmailOf[c])
    <3>1. registration'[c] = "inserted"
      BY <1>0, <2>1, <2>5 DEF InsertUser, TypeOK
    <3>2. \A d \in Clients : EmailOf[d] = EmailOf[c] => ~Holds(d)
      BY <2>2, <2>5 DEF HasUser, Contended, Holds
    <3>3. QED BY <1>0, <2>2, <2>3, <3>1, <3>2 DEF RegistrationInv, Holds, Account
  <2>6. QED BY <2>4, <2>5
<1>4. CASE \E c \in Clients : Registered(c)
  <2>1. PICK c \in Clients : Registered(c)
    BY <1>4
  <2>2. registration[c] = "inserted" /\ pg' = pg \cup Account(c) /\ registration'[c] = "registered"
    BY <2>1, <1>0 DEF Registered, TypeOK
  <2>3. \A d \in Clients \ {c} : registration'[d] = registration[d]
    BY <2>1, <1>0 DEF Registered, TypeOK
  <2>4. \A d \in Clients \ {c} : Account(d) \cap Account(c) = {}
    BY DEF Account
  <2>5. \A d \in Clients : Holds(d)' => Holds(d)
    BY <2>2, <2>3, <2>4 DEF Holds, Account, AccountTables
  <2>6. QED BY <1>0, <2>2, <2>3, <2>4, <2>5 DEF RegistrationInv
<1>5. CASE Start \/ DeleteClickhouse \/ DeleteTable \/ Commit \/ ListPage \/ DeleteObjects \/ Fail
  <2>1. UNCHANGED registration /\ pg' \subseteq pg
    BY <1>5 DEF Start, DeleteClickhouse, DeleteTable, Commit, ListPage, DeleteObjects, Fail, accounts, data
  <2>2. QED BY <1>0, <2>1 DEF RegistrationInv, Holds
<1>6. CASE \/ \E s \in Spans : Services(s)
           \/ Login \/ Flush \/ Mutate \/ UNCHANGED vars
  <2>1. /\ UNCHANGED registration
        /\ \A t \in AccountTables, c \in Clients : <<t, c>> \in pg' => <<t, c>> \in pg
    BY <1>0, <1>6, ServicesKeepAccounts
  <2>2. QED BY <1>0, <2>1 DEF RegistrationInv, Holds, Account, AccountTables
<1>7. QED BY <1>2, <1>3, <1>4, <1>5, <1>6, NextCases

\* The rows of an account by name.
LEMMA AccountRows == ASSUME NEW c PROVE Account(c) = {<<"api_keys", c>>, <<"users", c>>, <<"tenants", c>>}
BY DEF Account, AccountTables

LEMMA TransactionInvStep == AccountInv /\ [Next]_vars => TransactionInv'
<1> SUFFICES ASSUME AccountInv, [Next]_vars PROVE TransactionInv'
  OBVIOUS
<1>0. TypeOK /\ RegistrationInv /\ TransactionInv /\ Tenant \in Clients
  BY TenantAssumption DEF AccountInv
<1>1. CASE \E c \in Clients : CheckEmail(c) \/ InsertUser(c) \/ Registered(c)
  <2>1. PICK c \in Clients : CheckEmail(c) \/ InsertUser(c) \/ Registered(c)
    BY <1>1
  <2>2. UNCHANGED script /\ pg' \in {pg, pg \cup Account(c)}
    BY <2>1 DEF CheckEmail, InsertUser, Registered, data
  <2>3. registration[Tenant] = "registered" => registration'[Tenant] = "registered" /\ c # Tenant
    BY <1>0, <2>1 DEF CheckEmail, InsertUser, Registered, TypeOK
  <2>4. script.step # "idle" => \A i \in {5, 6, 7} : <<Tables[i], Tenant>> \in pg' => <<Tables[i], Tenant>> \in pg
    BY <1>0, <2>2, <2>3 DEF TransactionInv, Account
  <2>5. QED BY <1>0, <2>2, <2>3, <2>4 DEF TransactionInv
<1>2. CASE Start
  BY <1>0, <1>2, TablesFacts DEF Start, TransactionInv, NotRunning, accounts
<1>3. CASE DeleteClickhouse
  <2>1. /\ script'.step = "postgres" /\ script'.table = script.table
        /\ script'.deleted = script.deleted /\ script.step = "counted"
        /\ UNCHANGED <<registration, pg>> /\ script.table = 1
    BY <1>0, <1>3 DEF DeleteClickhouse, Running, TypeOK, NotRunning, accounts, TransactionInv
  <2>2. QED BY <1>0, <2>1 DEF TransactionInv
<1>4. CASE DeleteTable
  <2>1. /\ script.step = "postgres" /\ script'.step = "postgres" /\ script'.table = script.table + 1
        /\ script'.deleted = script.deleted \cup Doomed
        /\ UNCHANGED <<registration, pg>>
    BY <1>0, <1>4 DEF DeleteTable, Running, TypeOK, NotRunning, accounts, data
  <2>2. \A c \in Clients \ {Tenant} : Doomed \cap Account(c) = {}
    BY <1>0, SpansAssumption DEF Doomed, IsOf, Account
  <2>3. \A i \in {5, 6, 7} : i = script.table /\ <<Tables[i], Tenant>> \in pg => <<Tables[i], Tenant>> \in Doomed
    BY DEF Doomed, IsOf
  <2>4. \A i \in {5, 6, 7} : i < script'.table => i < script.table \/ i = script.table
    BY <1>0, <2>1, TablesFacts DEF TypeOK
  <2>5. \A c \in Clients \ {Tenant} : script'.deleted \cap Account(c) = {}
    BY <1>0, <2>1, <2>2 DEF TransactionInv
  <2>6. ASSUME NEW i \in {5, 6, 7}, i < script'.table, <<Tables[i], Tenant>> \in pg'
        PROVE  <<Tables[i], Tenant>> \in script'.deleted
    BY <1>0, <2>1, <2>3, <2>4, <2>6 DEF TransactionInv
  <2>7. registration'[Tenant] = "registered"
    BY <1>0, <2>1 DEF TransactionInv
  <2>8. QED BY <2>1, <2>5, <2>6, <2>7 DEF TransactionInv
<1>5. CASE Commit \/ ListPage \/ DeleteObjects \/ Fail
  <2>1. /\ script'.step \notin {"idle", "counted", "postgres"} /\ script'.deleted = {} /\ script.step # "idle"
        /\ UNCHANGED registration
    BY <1>0, <1>5 DEF Commit, ListPage, DeleteObjects, Fail, Running, TypeOK, NotRunning, accounts, TransactionInv
  <2>2. QED BY <1>0, <2>1 DEF TransactionInv
<1>6. CASE \/ \E s \in Spans : Services(s)
           \/ Login \/ Flush \/ Mutate \/ UNCHANGED vars
  BY <1>0, <1>6, ServicesKeepAccounts, TablesFacts DEF TransactionInv, AccountTables
<1>7. QED BY <1>1, <1>2, <1>3, <1>4, <1>5, <1>6, NextCases

LEMMA AccountsAreWholeStep == AccountInv /\ [Next]_vars => AccountsAreWhole'
<1> SUFFICES ASSUME AccountInv, [Next]_vars PROVE AccountsAreWhole'
  OBVIOUS
<1>0. TypeOK /\ RegistrationInv /\ TransactionInv /\ AccountsAreWhole
  BY DEF AccountInv
<1>1. CASE \E c \in Clients : CheckEmail(c) \/ InsertUser(c)
  BY <1>0, <1>1 DEF CheckEmail, InsertUser, data, AccountsAreWhole
<1>2. CASE \E c \in Clients : Registered(c)
  <2>1. PICK c \in Clients : pg' = pg \cup Account(c)
    BY <1>2 DEF Registered
  <2>2. \A d \in Clients \ {c} : Account(d) \cap Account(c) = {}
    BY DEF Account
  <2>3. QED BY <1>0, <2>1, <2>2 DEF AccountsAreWhole
<1>3. CASE Commit
  <2>1. pg' = pg \ script.deleted /\ script.step = "postgres" /\ script.table = 8
    BY <1>0, <1>3, TablesFacts DEF Commit, Running, TypeOK
  <2>2. \A i \in {5, 6, 7} : <<Tables[i], Tenant>> \notin pg'
    BY <1>0, <2>1 DEF TransactionInv
  <2>3. Account(Tenant) \cap pg' = {}
    BY <2>2, AccountRows, TablesFacts
  <2>4. \A c \in Clients \ {Tenant} : Account(c) \cap script.deleted = {}
    BY <1>0 DEF TransactionInv
  <2>5. QED BY <1>0, <2>1, <2>3, <2>4 DEF AccountsAreWhole
<1>4. CASE Start \/ DeleteClickhouse \/ DeleteTable \/ ListPage \/ DeleteObjects \/ Fail
  BY <1>0, <1>4 DEF Start, DeleteClickhouse, DeleteTable, ListPage, DeleteObjects, Fail, data, AccountsAreWhole
<1>5. CASE \/ \E s \in Spans : Services(s)
           \/ Login \/ Flush \/ Mutate \/ UNCHANGED vars
  BY <1>0, <1>5, ServicesKeepAccounts DEF AccountsAreWhole, Account
<1>6. QED BY <1>1, <1>2, <1>3, <1>4, <1>5, NextCases

\* Every invariant of the accounts holds in every state: no half account, one
\* owner to an email.
LEMMA AccountInvInductive == Spec => []AccountInv
<1>1. Init => AccountInv
  <2> SUFFICES ASSUME Init PROVE AccountInv
    OBVIOUS
  <2>1. TypeOK
    <3>1. /\ DOMAIN script = DOMAIN NotRunning
          /\ script.step = "idle" /\ script.table = 1 /\ script.deleted = {}
          /\ script.listed = {} /\ script.page = {} /\ script.exposed = {}
      BY DEF Init, NotRunning
    <3>2. registration \in [Clients -> {"new", "checked", "inserted", "registered", "409", "500"}]
          /\ handler \in [Spans -> {"new", "accepted", "uploaded", "added", "done"}]
      BY DEF Init
    <3>3. signedIn \in BOOLEAN
      BY DEF Init
    <3>4. pg = {} /\ rows = {} /\ payloads = {} /\ mutation = {}
          /\ buffered = {} /\ queue = {} /\ diagnosing = {}
          /\ popped = {} /\ analysing = {} /\ traced = {} /\ flushing = {}
      BY DEF Init
    <3>5. QED BY <3>1, <3>2, <3>3, <3>4, TablesFacts DEF TypeOK
  <2>2. \A c \in Clients : registration[c] = "new" /\ Account(c) \cap pg = {}
    BY DEF Init
  <2>3. RegistrationInv /\ AccountsAreWhole
    BY <2>2 DEF Init, RegistrationInv, AccountsAreWhole, Holds
  <2>4. TransactionInv
    BY DEF Init, TransactionInv, NotRunning
  <2>5. QED BY <2>1, <2>3, <2>4 DEF AccountInv
<1>2. AccountInv /\ [Next]_vars => AccountInv'
  BY TypeOKStep, RegistrationInvStep, TransactionInvStep, AccountsAreWholeStep DEF AccountInv
<1>3. QED BY <1>1, <1>2, PTL DEF Spec

\* TypeOK holds in every state.
THEOREM SpecTypeOK == Spec => []TypeOK
<1>1. AccountInv => TypeOK
  BY DEF AccountInv
<1>2. QED BY <1>1, AccountInvInductive, PTL

\* No tenant without its user and its key, no key that outlives its tenant,
\* wherever a registration or a run of the script stops.
THEOREM SpecAccountsAreWhole == Spec => []AccountsAreWhole
<1>1. AccountInv => AccountsAreWhole
  BY DEF AccountInv
<1>2. QED BY <1>1, AccountInvInductive, PTL

\* One user to an email; who is turned away is turned away for somebody who
\* did register.
THEOREM SpecEmailHasOneOwner == Spec => []EmailHasOneOwner
<1>1. AccountInv => EmailHasOneOwner
  BY DEF AccountInv, RegistrationInv, EmailHasOneOwner, Holds
<1>2. QED BY <1>1, AccountInvInductive, PTL
-----------------------------------------------------------------------------
\* A page is empty only if nothing lies behind the page before, and what lies
\* behind that and is not on the page lies behind the page.
LEMMA PageFacts ==
    ASSUME TypeOK, NEW page \in SUBSET Spans
    PROVE  /\ Page(page) \subseteq Behind(page)
           /\ Page(page) = {} => Behind(page) = {}
           /\ \A s \in Behind(page) \ Page(page) : \A p \in Page(page) : s > p
<1> DEFINE B == Behind(page)
           Before(s) == {r \in B : r < s}
<1>1. B \subseteq Nat /\ IsFiniteSet(B)
  <2>1. B \in SUBSET Spans
    BY DEF TypeOK, Behind
  <2>2. QED BY <2>1, SpansAssumption, FS_Subset
<1>2. \A s \in B : Before(s) \in SUBSET B
  OBVIOUS
<1>3. \A s \in B : IsFiniteSet(Before(s)) /\ Cardinality(Before(s)) \in Nat
  BY <1>1, <1>2, FS_Subset, FS_CardinalityType
<1>4. B # {} => Page(page) # {}
  <2> SUFFICES ASSUME B # {} PROVE Page(page) # {}
    OBVIOUS
  <2>1. PICK m \in B : \A r \in B : m <= r
    <3>1. \E m \in B : \A r \in B : ~(<<r, m>> \in OpToRel(<, Nat))
      BY <1>1, NatLessThanWellFounded, WFMin
    <3>2. PICK m \in B : \A r \in B : ~(<<r, m>> \in OpToRel(<, Nat))
      BY <3>1
    <3>3. \A r \in B : ~(r < m)
      <4>1. \A r, n \in Nat : r < n => <<r, n>> \in OpToRel(<, Nat)
        BY Zenon DEF OpToRel
      <4>2. QED BY <1>1, <3>2, <4>1, Zenon
    <3>5. \A r \in B : m <= r
      BY <1>1, <3>3
    <3>4. QED BY <3>5
  <2>2. Before(m) = {}
    BY <1>1, <2>1
  <2>3. Cardinality(Before(m)) < PageSize
    BY <2>2, FS_EmptySet, PageAssumption
  <2>4. QED BY <2>3 DEF Page
<1>5. ASSUME NEW s \in B \ Page(page), NEW p \in Page(page) PROVE s > p
  <2>1. SUFFICES ASSUME ~(s > p) PROVE FALSE
    OBVIOUS
  <2>2. p \in B /\ Cardinality(Before(p)) < PageSize
    BY DEF Page
  <2>3. Before(s) \in SUBSET Before(p)
    BY <1>1, <2>1, <2>2
  <2>4. Cardinality(Before(s)) <= Cardinality(Before(p))
    BY <1>3, <2>2, <2>3, FS_Subset
  <2>5. Cardinality(Before(s)) < PageSize
    <3>1. Cardinality(Before(s)) \in Nat /\ Cardinality(Before(p)) \in Nat
      BY <1>3, <2>2
    <3>2. \A i, j, n \in Nat : i <= j /\ j < n => i < n
      OBVIOUS
    <3> HIDE DEF Before
    <3>3. QED BY <2>2, <2>4, <3>1, <3>2, PageAssumption
  <2>6. QED BY <2>5 DEF Page
<1>6. QED BY <1>4, <1>5 DEF Page

\* A service that touches a span during a run exposes it, or works on one that
\* was exposed before.
LEMMA ServicesExpose ==
    ASSUME TypeOK, ExposureInv, script.step # "idle", NEW s \in Spans,
           Services(s)
    PROVE  /\ s \in script'.exposed
           /\ script.exposed \subseteq script'.exposed
           /\ script'.step = script.step /\ script'.table = script.table
           /\ script'.deleted = script.deleted /\ script'.listed = script.listed
           /\ script'.page = script.page
<1>1. CASE VerifyApiKey(s) \/ Diagnose(s)
  <2>1. script' = [script EXCEPT !.exposed = script.exposed \cup {s}]
    BY <1>1 DEF VerifyApiKey, Diagnose, Expose, TypeOK, NotRunning
  <2>2. QED BY <2>1 DEF TypeOK, NotRunning
<1>2. CASE ~(VerifyApiKey(s) \/ Diagnose(s))
  <2>1. ~Idle(s)
    BY <1>2 DEF Services, Ingest, Upload, Add, Ingested, Work, PopSpan, FetchSpan, GiveUp, WriteScores,
                Analysed, AnalysisFails, FlushTrace, TraceFlushed, Diagnosed, Idle
  <2>2. s \in script.exposed
    BY <2>1 DEF ExposureInv
  <2>3. script' = script \/ script' = [script EXCEPT !.exposed = script.exposed \cup {s}]
    BY ServicesWrite DEF Written
  <2>4. QED BY <2>2, <2>3 DEF TypeOK, NotRunning
<1>3. QED BY <1>1, <1>2

LEMMA StoresInvServices ==
    ASSUME TypeOK, StoresInv, NEW s \in Spans,
           Services(s)
    PROVE  StoresInv'
<1>1. CASE script.step = "idle"
  <2>1. script'.step = "idle"
    BY <1>1, ServicesWrite DEF TypeOK, Written, NotRunning
  <2>2. QED BY <2>1 DEF StoresInv, ExposureInv, RowsInv, PgInv, PayloadsInv
<1>2. CASE script.step # "idle"
  <2>1. ExposureInv /\ RowsInv /\ PgInv /\ PayloadsInv
    BY DEF StoresInv
  <2>2. /\ s \in script'.exposed
        /\ script.exposed \subseteq script'.exposed
        /\ script'.step = script.step /\ script'.table = script.table
        /\ script'.deleted = script.deleted /\ script'.listed = script.listed
        /\ script'.page = script.page
    BY <1>2, <2>1, ServicesExpose
  <2>10. /\ UNCHANGED <<rows, mutation>> /\ payloads' \subseteq payloads \cup {s}
         /\ \A x \in pg' : x \in pg \/ x[2] = s
    BY ServicesWrite DEF Written
  <2>11. \A r \in Spans \ {s} : Idle(r) => Idle(r)'
    BY ServicesFlight
  <2>3. ExposureInv'
    BY <2>1, <2>2, <2>11 DEF ExposureInv
  <2>4. RowsInv'
    BY <2>1, <2>2, <2>10 DEF RowsInv
  <2>5. \A i \in 1 .. 7, r \in Spans \ script'.exposed :
            <<Tables[i], r>> \in pg' => <<Tables[i], r>> \in pg /\ r \in Spans \ script.exposed
    BY <2>2, <2>10
  <2>6. PgInv'
    BY <2>1, <2>2, <2>5 DEF PgInv
  <2>7. payloads' \ script'.exposed \subseteq payloads \ script.exposed
    BY <2>2, <2>10
  <2>8. PayloadsInv'
    BY <2>1, <2>2, <2>7 DEF PayloadsInv
  <2>9. QED BY <2>3, <2>4, <2>6, <2>8 DEF StoresInv
<1>3. QED BY <1>1, <1>2

\* What the script and the background mutation do to the stores.
LEMMA StoresInvScript ==
    ASSUME TypeOK, TransactionInv, StoresInv,
           \/ Start \/ DeleteClickhouse \/ DeleteTable \/ Commit
           \/ ListPage \/ DeleteObjects \/ Fail
    PROVE  StoresInv'
<1>0. ExposureInv /\ RowsInv /\ PgInv /\ PayloadsInv
  BY DEF StoresInv
<1>1. CASE Start
  <2>1. /\ script'.step = "counted" /\ script'.page = {}
        /\ script'.exposed = {s \in Spans : InFlight(s)} /\ UNCHANGED flight
    BY <1>1 DEF Start, NotRunning
  <2>2. ExposureInv'
    BY <2>1 DEF ExposureInv, Idle, InFlight, flight, ingestion, worker, TypeOK
  <2>3. QED BY <2>1, <2>2 DEF StoresInv, RowsInv, PgInv, PayloadsInv
<1>2. CASE DeleteClickhouse
  <2>1. /\ script.step = "counted" /\ script'.step = "postgres" /\ script'.table = script.table
        /\ script'.deleted = script.deleted /\ script'.exposed = script.exposed
        /\ script'.page = script.page
        /\ mutation' = mutation \cup rows /\ UNCHANGED <<flight, pg, rows, payloads>>
    BY <1>2 DEF DeleteClickhouse, Running, TypeOK, NotRunning
  <2>2. ExposureInv'
    BY <1>0, <2>1 DEF ExposureInv, Idle, flight, ingestion, worker
  <2>3. script'.table = 1
    BY <2>1 DEF TransactionInv
  <2>4. PgInv'
    BY <2>1, <2>3 DEF PgInv
  <2>5. QED BY <1>0, <2>1, <2>2, <2>4 DEF StoresInv, RowsInv, PayloadsInv
<1>3. CASE DeleteTable
  <2>1. /\ script.step = "postgres" /\ script'.step = "postgres" /\ script'.table = script.table + 1
        /\ script'.deleted = script.deleted \cup Doomed /\ script'.exposed = script.exposed
        /\ script'.page = script.page
        /\ UNCHANGED <<flight, data>>
    BY <1>3 DEF DeleteTable, Running, TypeOK, NotRunning
  <2>2. ExposureInv'
    BY <1>0, <2>1 DEF ExposureInv, Idle, flight, ingestion, worker
  <2>3. ASSUME NEW i \in 1 .. 7, NEW s \in Spans \ script'.exposed,
               i < script'.table, <<Tables[i], s>> \in pg'
        PROVE  <<Tables[i], s>> \in script'.deleted
    <3>1. CASE i = script.table
      BY <2>1, <2>3, <3>1 DEF Doomed, IsOf, data
    <3>2. CASE i < script.table
      BY <1>0, <2>1, <2>3, <3>2 DEF PgInv, data
    <3>3. QED BY <2>1, <2>3, <3>1, <3>2, TablesFacts DEF TypeOK
  <2>4. PgInv'
    BY <2>1, <2>3 DEF PgInv
  <2>5. QED BY <1>0, <2>1, <2>2, <2>4 DEF StoresInv, RowsInv, PayloadsInv, data
<1>4. CASE Commit
  <2>1. /\ script.step = "postgres" /\ script'.step = "s3" /\ script.table = 8
        /\ script'.exposed = script.exposed /\ script'.page = script.page
        /\ pg' = pg \ script.deleted /\ UNCHANGED <<flight, rows, payloads, mutation>>
    BY <1>4, TablesFacts DEF Commit, Running, TypeOK, NotRunning
  <2>2. ExposureInv'
    BY <1>0, <2>1 DEF ExposureInv, Idle, flight, ingestion, worker
  <2>3. ASSUME NEW i \in 1 .. 7, NEW s \in Spans \ script'.exposed
        PROVE  <<Tables[i], s>> \notin pg'
    BY <1>0, <2>1 DEF PgInv
  <2>4. PgInv'
    BY <2>1, <2>3 DEF PgInv
  <2>5. QED BY <1>0, <2>1, <2>2, <2>4 DEF StoresInv, RowsInv, PayloadsInv
<1>5. CASE ListPage
  <2>1. /\ script.step = "s3" /\ script'.exposed = script.exposed
        /\ \/ Page(script.page) = {} /\ script'.step = "complete"
           \/ script'.step = "listed" /\ script'.listed = Page(script.page)
        /\ UNCHANGED <<flight, data>>
    BY <1>5 DEF ListPage, Running, TypeOK, NotRunning
  <2>2. ExposureInv'
    BY <1>0, <2>1 DEF ExposureInv, Idle, flight, ingestion, worker
  <2>3. RowsInv' /\ PgInv'
    BY <1>0, <2>1 DEF RowsInv, PgInv, data
  <2>4. payloads \ script.exposed \subseteq Behind(script.page)
    BY <1>0, <2>1 DEF PayloadsInv, Behind
  <2>5. /\ Page(script.page) = {} => Behind(script.page) = {}
        /\ \A s \in Behind(script.page) \ Page(script.page) : \A p \in Page(script.page) : s > p
    <3>1. script.page \in SUBSET Spans
      BY DEF TypeOK
    <3>2. QED BY <3>1, PageFacts
  <2>6. PayloadsInv'
    BY <2>1, <2>4, <2>5 DEF PayloadsInv, data
  <2>7. QED BY <2>2, <2>3, <2>6 DEF StoresInv
<1>6. CASE DeleteObjects
  <2>1. /\ script.step = "listed" /\ script'.step = "s3" /\ script'.exposed = script.exposed
        /\ script'.page = script.listed /\ payloads' = payloads \ script.listed
        /\ UNCHANGED <<flight, pg, rows, mutation>>
    BY <1>6 DEF DeleteObjects, Running, TypeOK, NotRunning
  <2>2. ExposureInv'
    BY <1>0, <2>1 DEF ExposureInv, Idle, flight, ingestion, worker
  <2>3. RowsInv' /\ PgInv'
    BY <1>0, <2>1 DEF RowsInv, PgInv
  <2>4. PayloadsInv'
    BY <1>0, <2>1 DEF PayloadsInv
  <2>5. QED BY <2>2, <2>3, <2>4 DEF StoresInv
<1>7. CASE Fail
  <2>1. /\ script.step # "idle" /\ script'.step = "failed" /\ script'.exposed = script.exposed
        /\ UNCHANGED flight
    BY <1>7 DEF Fail, TypeOK, NotRunning
  <2>2. ExposureInv'
    BY <1>0, <2>1 DEF ExposureInv, Idle, flight, ingestion, worker
  <2>3. QED BY <2>1, <2>2 DEF StoresInv, RowsInv, PgInv, PayloadsInv
<1>8. QED BY <1>1, <1>2, <1>3, <1>4, <1>5, <1>6, <1>7

LEMMA StoresInvOthers ==
    ASSUME TypeOK, StoresInv,
           \/ \E c \in Clients : CheckEmail(c) \/ InsertUser(c) \/ Registered(c)
           \/ Login \/ Flush \/ Mutate \/ UNCHANGED vars
    PROVE  StoresInv'
<1>0. ExposureInv /\ RowsInv /\ PgInv /\ PayloadsInv
  BY DEF StoresInv
<1>1. CASE \E c \in Clients : CheckEmail(c) \/ InsertUser(c) \/ Registered(c)
  <2>1. PICK c \in Clients : CheckEmail(c) \/ InsertUser(c) \/ Registered(c)
    BY <1>1
  <2>2. pg' \in {pg, pg \cup Account(c)} /\ UNCHANGED <<flight, rows, payloads, mutation, script>>
    BY <2>1 DEF CheckEmail, InsertUser, Registered, data
  <2>3. \A i \in 1 .. 7, s \in Spans : <<Tables[i], s>> \in pg' => <<Tables[i], s>> \in pg
    BY <2>2, SpansAssumption DEF Account
  <2>4. PgInv'
    BY <1>0, <2>2, <2>3 DEF PgInv
  <2>5. QED
    BY <1>0, <2>2, <2>4 DEF StoresInv, ExposureInv, RowsInv, PayloadsInv, Idle, flight, ingestion, worker
<1>2. CASE Flush
  <2>1. PICK batch \in SUBSET buffered :
            /\ rows' \in {rows, rows \cup batch} /\ buffered' = buffered \ batch
            /\ UNCHANGED <<handler, queue, worker, diagnosing, pg, payloads, mutation, script>>
    BY <1>2 DEF Flush
  <2>2. script.step # "idle" => batch \subseteq script.exposed
    BY <1>0 DEF ExposureInv, Idle, TypeOK
  <2>3. ExposureInv'
    BY <1>0, <2>1 DEF ExposureInv, Idle, worker
  <2>4. RowsInv'
    BY <1>0, <2>1, <2>2 DEF RowsInv
  <2>5. QED BY <1>0, <2>1, <2>3, <2>4 DEF StoresInv, PgInv, PayloadsInv
<1>3. CASE Mutate
  <2>1. /\ rows' = rows \ mutation /\ mutation' = {}
        /\ UNCHANGED <<flight, pg, payloads, script>>
    BY <1>3 DEF Mutate
  <2>2. RowsInv'
    BY <1>0, <2>1 DEF RowsInv
  <2>3. QED BY <1>0, <2>1, <2>2 DEF StoresInv, ExposureInv, PgInv, PayloadsInv, Idle, flight, ingestion, worker
<1>4. CASE Login \/ UNCHANGED vars
  BY <1>0, <1>4 DEF Login, vars, flight, ingestion, worker, data, StoresInv, ExposureInv, RowsInv, PgInv, PayloadsInv, Idle
<1>5. QED BY <1>1, <1>2, <1>3, <1>4

LEMMA IInvInductive == Spec => []IInv
<1>1. Init => StoresInv
  BY DEF Init, StoresInv, ExposureInv, RowsInv, PgInv, PayloadsInv, NotRunning
<1>2. AccountInv /\ StoresInv /\ [Next]_vars => StoresInv'
  <2> SUFFICES ASSUME AccountInv, StoresInv, [Next]_vars PROVE StoresInv'
    OBVIOUS
  <2>1. TypeOK /\ TransactionInv
    BY DEF AccountInv
  <2>2. QED BY <2>1, NextCases, StoresInvServices, StoresInvScript, StoresInvOthers
<1>3. Spec => []StoresInv
  BY <1>1, <1>2, AccountInvInductive, PTL DEF Spec
<1>4. QED BY <1>3, AccountInvInductive, PTL DEF IInv

\* When the script has said that the deletion is complete, and the mutation is
\* through, whatever is left in any of the three stores is of spans that were
\* in flight while it ran, however many runs failed before and at what.
THEOREM SpecLeftoverWasInFlight == Spec => []LeftoverWasInFlight
<1>1. IInv => LeftoverWasInFlight
  <2> SUFFICES ASSUME IInv, script.step = "complete", mutation = {}
               PROVE  Leftovers \subseteq script.exposed
    BY DEF LeftoverWasInFlight
  <2>1. TypeOK /\ RowsInv /\ PgInv /\ PayloadsInv
    BY DEF IInv, AccountInv, StoresInv
  <2>2. rows \subseteq script.exposed /\ payloads \subseteq script.exposed
    BY <2>1 DEF RowsInv, PayloadsInv
  <2>3. ASSUME NEW s \in Spans, NEW i \in 1 .. Len(Tables), <<Tables[i], s>> \in pg
        PROVE  s \in script.exposed
    BY <2>1, <2>3, TablesFacts DEF PgInv
  <2>4. QED BY <2>2, <2>3 DEF Leftovers
<1>2. QED BY <1>1, IInvInductive, PTL
=============================================================================
