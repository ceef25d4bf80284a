---------------------------- MODULE SpanListing ----------------------------
(***************************************************************************)
(* The dashboard's span list: GET /spans of the Presenter                  *)
(* (presenter/routers/spans.py) under the page that calls it               *)
(* (view/src/app/spans/page.tsx), with the request wrapper that renews an  *)
(* expired session (view/src/lib/api.ts) and the sign-in page.             *)
(*                                                                         *)
(* Rows reach ClickHouse and flags reach PostgreSQL at any time, also      *)
(* with a time_begin older than what is listed already.  The page keeps    *)
(* any number of requests in flight, cancels none, and takes the answers   *)
(* in the order in which they arrive.                                      *)
(***************************************************************************)
EXTENDS Integers, SequencesExt

CONSTANTS Spans,          \* the spans of the tenant
          Begin,          \* time_begin of each span; spans may share one
          Agent,          \* agent_name of each span
          Filters,        \* records [flag, agent, range]: what the FilterBar can set
          Late,           \* bound: the spans stored after the page was opened
          Flaggable,      \* bound: the spans the worker flags
          DefaultFilter,  \* the filters of a page opened without a query string
          Limit,          \* rows of a page (50 in page.tsx)
          Now,            \* the clock when the page is opened
          MaxNow,         \* bound: the clock is not followed beyond
          MaxRequests,    \* bound: requests sent, by the user and by renewed sessions
          LastExpiring    \* bound: later session tokens do not run out

AnyAgent == "any"
NoCursor == 0
NoToken  == 0

ASSUME BeginAssumption == Begin \in [Spans -> Nat \ {0}]
ASSUME FiltersAssumption == DefaultFilter \in Filters /\ \A f \in Filters : f.range \in Nat
ASSUME LimitAssumption == Limit \in Nat \ {0}
ASSUME ClockAssumption == Now \in Nat /\ MaxNow \in Nat

VARIABLES stored,    \* ClickHouse: the spans whose row is there
          flagged,   \* PostgreSQL: the spans with a flag of the chosen type
          clock,
          expired,   \* session tokens up to this number have expired
          issued,    \* number of the last session token issued
          cookie,    \* the browser holds a refresh token not refused yet
          page,      \* the state of SpansPage; without a token: of the sign-in page
          requests   \* what the page has sent, in the order of sending
vars == <<stored, flagged, clock, expired, issued, cookie, page, requests>>

Done == [kind |-> "none", state |-> "done"]

\* A mounted page before its first answer.  From base on the fields are
\* history: the list request whose rows are shown and its filters, the newest
\* one answered so far, the rows it could have shown, where the latest time
\* window starts, whether the flag filter cut a page short, and whether the
\* rows of one list were appended to those of another.
Mounted(mount, token) ==
    [mount |-> mount, token |-> token, filter |-> DefaultFilter, rows |-> <<>>,
     cursor |-> NoCursor, loading |-> TRUE, loadingMore |-> FALSE,
     base |-> 0, of |-> DefaultFilter, newest |-> 0, known |-> {}, from |-> 0,
     cut |-> FALSE, spliced |-> FALSE]

\* fetchSpans and handleLoadMore at time t, with the parameters of page p.
Request(kind, p, t) ==
    [kind |-> kind, state |-> "sent", mount |-> p.mount, token |-> p.token,
     retried |-> FALSE, filter |-> p.filter, from |-> t - p.filter.range,
     cursor |-> IF kind = "more" THEN p.cursor ELSE NoCursor,
     base |-> IF kind = "more" THEN p.base ELSE Len(requests) + 1,
     rows |-> <<>>, next |-> NoCursor, known |-> {}, cut |-> FALSE]

SignedOut == [Mounted(0, NoToken) EXCEPT !.loading = FALSE]

Init == /\ stored = Spans \ Late
        /\ flagged = {}
        /\ clock = Now
        /\ expired = 0 /\ issued = 0 /\ cookie = FALSE
        /\ page = SignedOut
        /\ requests = <<>>

\* The user stops early enough for every request to be refreshed once.
UserActs == LET open == {i \in DOMAIN requests : requests[i].state = "sent" /\ requests[i].token <= LastExpiring}
            IN  Len(requests) + Cardinality(open) + (IF issued <= LastExpiring THEN 1 ELSE 0) < MaxRequests

Fetch(p, t) == Append(requests, Request("list", p, t))
-----------------------------------------------------------------------------
\* The rest of the system: the batcher stores a row, the worker flags a span,
\* tokens run out.  A time_begin is the client's: it may be ahead of the clock.

Store(s) == /\ s \notin stored
            /\ stored' = stored \cup {s}
            /\ UNCHANGED <<flagged, clock, expired, issued, cookie, page, requests>>

Flag(s) == /\ s \in (stored \cap Flaggable) \ flagged
           /\ flagged' = flagged \cup {s}
           /\ UNCHANGED <<stored, clock, expired, issued, cookie, page, requests>>

Expire == /\ expired < issued /\ issued <= LastExpiring
          /\ expired' = issued
          /\ UNCHANGED <<stored, flagged, clock, issued, cookie, page, requests>>
-----------------------------------------------------------------------------
\* The page.

\* Signing in stores the refresh token in the cookie and the session token in
\* the auth store; the sign-in page leaves for /spans, which mounts and loads.
SignIn == /\ page.token = NoToken /\ UserActs
          /\ issued' = issued + 1
          /\ cookie' = TRUE
          /\ page' = Mounted(page.mount + 1, issued + 1)
          /\ requests' = Fetch(page', clock)
          /\ UNCHANGED <<stored, flagged, clock, expired>>

\* The clock is read when a request is made; the user lets any time pass before.
Later == clock' \in clock .. MaxNow

\* Mutant: the effect does not depend on the filters.
ChangeFilterQuietly(f) ==
    /\ page.token # NoToken /\ f # page.filter /\ UserActs
    /\ Later
    /\ page' = [page EXCEPT !.filter = f]
    /\ UNCHANGED <<stored, flagged, expired, issued, cookie, requests>>

\* A new filter runs the page's effect, hence fetchSpans.
ChangeFilter(f) ==
    /\ page.token # NoToken /\ f # page.filter /\ UserActs
    /\ Later
    /\ page' = [page EXCEPT !.filter = f, !.loading = TRUE]
    /\ requests' = Fetch(page', clock')
    /\ UNCHANGED <<stored, flagged, expired, issued, cookie>>

\* The button is there with a cursor and no skeleton, disabled while loading more.
LoadMore == /\ page.token # NoToken /\ page.cursor # NoCursor
            /\ ~page.loading /\ ~page.loadingMore /\ UserActs
            /\ Later
            /\ page' = [page EXCEPT !.loadingMore = TRUE]
            /\ requests' = Append(requests, Request("more", page, clock'))
            /\ UNCHANGED <<stored, flagged, expired, issued, cookie>>

\* The auth store gets a token: the page's effect runs and loads the list once
\* more; from the sign-in page the browser returns to a newly mounted /spans.
WithToken(t) ==
    IF page.token = NoToken THEN Mounted(page.mount + 1, t)
    ELSE [page EXCEPT !.token = t, !.loading = TRUE]

\* The auth store loses its token: the effect leaves for /login.
WithoutToken == IF page.token = NoToken THEN page
                ELSE [SignedOut EXCEPT !.mount = page.mount + 1]

\* Mutant: handleLoadMore without its finally.
FailedKeepsLoading(i) ==
    IF requests[i].mount = page.mount /\ requests[i].kind = "list"
    THEN [page EXCEPT !.loading = FALSE, !.newest = Max({@, i})] ELSE page

\* catch and finally of fetchSpans and handleLoadMore, on a page still mounted:
\* an error is shown above the rows that were there.
Failed(i) == LET r == requests[i]
             IN  IF r.mount # page.mount THEN page
                 ELSE IF r.kind = "list" THEN [page EXCEPT !.loading = FALSE, !.newest = Max({@, i})]
                 ELSE [page EXCEPT !.loadingMore = FALSE]
-----------------------------------------------------------------------------
\* A request on its way.

Accepted(r) == r.token > expired

\* Mutant: the cursor's own time is not excluded.
MatchesCursorToo(s, r) == /\ r.filter.agent \in {AnyAgent, Agent[s]}
                          /\ r.from <= Begin[s] /\ Begin[s] <= r.from + r.filter.range
                          /\ r.cursor # NoCursor => Begin[s] <= r.cursor

Matches(s, r) == /\ r.filter.agent \in {AnyAgent, Agent[s]}
                 /\ r.from <= Begin[s] /\ Begin[s] <= r.from + r.filter.range
                 /\ r.cursor # NoCursor => Begin[s] < r.cursor

\* ORDER BY time_begin DESC LIMIT: rows of equal time come in any order.
Pages(S) == {q \in SeqOf(S, Limit) :
                /\ \A i, j \in 1 .. Len(q) : i < j => Begin[q[i]] >= Begin[q[j]] /\ q[i] # q[j]
                /\ Len(q) < Limit => ToSet(q) = S
                /\ \A s \in S \ ToSet(q) : Begin[s] <= Begin[Last(q)]}

\* A flag_type filter keeps the rows with such a flag, after the LIMIT and in
\* their order: the set of the one sequence of rows that are kept.
Kept(q, r) == {k \in SeqOf(ToSet(q), Limit) :
                 /\ ToSet(k) = {s \in ToSet(q) : r.filter.flag => s \in flagged}
                 /\ \A i, j \in 1 .. Len(k) : i < j =>
                        \E m, n \in 1 .. Len(q) : m < n /\ q[m] = k[i] /\ q[n] = k[j]}

\* Mutant: a cursor only if there was more than a page.
NextCursorPastPage(q) == IF Len(q) > Limit THEN Begin[Last(q)] ELSE NoCursor

\* The cursor is the last row's time_begin, if the page is full.
NextCursor(q) == IF Len(q) = Limit THEN Begin[Last(q)] ELSE NoCursor

\* verify_session_token, the ClickHouse query and the flags query.  Flags only
\* grow, so one found by the second query could have been there at the first.
ListSpans(i) ==
    LET r == requests[i]
        S == {s \in stored : Matches(s, r)}
    IN  /\ r.state = "sent" /\ Accepted(r)
        /\ \E q \in Pages(S) : \E k \in Kept(q, r) :
              requests' = [requests EXCEPT
                  ![i] = [r EXCEPT !.state = "answered", !.token = NoToken, !.rows = k,
                          !.next = NextCursor(k), !.cut = Len(q) = Limit /\ k # q,
                          !.known = IF r.filter.flag THEN S \cap flagged ELSE S]]
        /\ UNCHANGED <<stored, flagged, clock, expired, issued, cookie, page>>

\* A fetch of the wrapper raises, be it the first, that of the refresh or the
\* second try, or a query raises and the answer is 500: shown as an error.
QueryFails(i) == /\ requests[i].state = "sent"
                 /\ page' = Failed(i)
                 /\ requests' = [requests EXCEPT ![i] = Done]
                 /\ UNCHANGED <<stored, flagged, clock, expired, issued, cookie>>

\* 401: the wrapper calls /api/auth/refresh.
Refused(r) == r.state = "sent" /\ ~Accepted(r) /\ ~r.retried

\* The refresh answers: a new token, or the page's own when it was issued in
\* the same second.  The request is sent once more with it, and the store's
\* new token makes the page load its list.
Refresh(i) ==
    /\ Refused(requests[i]) /\ cookie
    /\ LET Again(t) == [requests EXCEPT ![i].token = t, ![i].retried = TRUE]
       IN  \/ /\ page.token > expired
              /\ requests' = Again(page.token)
              /\ UNCHANGED <<issued, page>>
           \/ /\ issued' = issued + 1
              /\ page' = WithToken(issued + 1)
              /\ requests' = Append(Again(issued + 1), Request("list", page', clock))
    /\ UNCHANGED <<stored, flagged, clock, expired, cookie>>

\* The refresh is answered with an error: the cookie has run out by now, or the
\* Presenter did not answer well and the cookie is as good as before, which
\* the route reports alike.  The wrapper drops the session token either way.
RefreshFails(i) == /\ Refused(requests[i])
                   /\ cookie' \in {cookie, FALSE}
                   /\ page' = WithoutToken
                   /\ requests' = [requests EXCEPT ![i] = Done]
                   /\ UNCHANGED <<stored, flagged, clock, expired, issued>>

\* The second try is refused.  Only fetchSpans leaves the page on this 401,
\* handleLoadMore shows an error.
RefusedAgain(i) == LET r == requests[i]
                   IN  /\ r.state = "sent" /\ ~Accepted(r) /\ r.retried
                       /\ page' = IF r.kind = "list" THEN WithoutToken ELSE Failed(i)
                       /\ requests' = [requests EXCEPT ![i] = Done]
                       /\ UNCHANGED <<stored, flagged, clock, expired, issued, cookie>>

\* The answer of a list replaces the rows; that of Load more is appended to
\* whatever rows there are.
ShowList(i, r) ==
    [page EXCEPT !.rows = r.rows, !.cursor = r.next, !.loading = FALSE,
                 !.base = i, !.of = r.filter, !.known = r.known, !.from = r.from,
                 !.newest = Max({@, i}), !.cut = r.cut, !.spliced = FALSE]
ShowMore(r) ==
    [page EXCEPT !.rows = @ \o r.rows, !.cursor = r.next, !.loadingMore = FALSE,
                 !.from = r.from, !.cut = @ \/ r.cut,
                 !.spliced = @ \/ r.base # page.base \/ r.filter # page.of]

Deliver(i) == LET r == requests[i]
              IN  /\ r.state = "answered"
                  /\ page' = IF r.mount # page.mount THEN page
                             ELSE IF r.kind = "list" THEN ShowList(i, r) ELSE ShowMore(r)
                  /\ requests' = [requests EXCEPT ![i] = Done]
                  /\ UNCHANGED <<stored, flagged, clock, expired, issued, cookie>>
-----------------------------------------------------------------------------
Answer(i) == ListSpans(i) \/ QueryFails(i) \/ Refresh(i) \/ RefreshFails(i)
               \/ RefusedAgain(i) \/ Deliver(i)

User == SignIn \/ LoadMore \/ \E f \in Filters : ChangeFilter(f)

Environment == Expire \/ \E s \in Spans : Store(s) \/ Flag(s)

Next == User \/ Environment \/ \E i \in 1 .. Len(requests) : Answer(i)

\* The Presenter answers and the browser runs its promises; nothing is
\* assumed of the user, of the writers or of time.
Spec == Init /\ [][Next]_vars /\ \A i \in 1 .. MaxRequests : WF_vars(i \in DOMAIN requests /\ Answer(i))
-----------------------------------------------------------------------------
\* The rows are those of one list: pages taken one after the other from the
\* cursor of the page before.
OneList == page.base # 0 /\ ~page.spliced

Shown == ToSet(page.rows)

\* A list that was paged from one request is in descending order of time_begin
\* and shows no span twice, whatever was stored meanwhile (spans.py:185).
RowsInOrder ==
    OneList => \A i, j \in 1 .. Len(page.rows) :
                 i < j => /\ page.rows[i] # page.rows[j]
                          /\ Begin[page.rows[i]] >= Begin[page.rows[j]]

\* A span that was there when the list was asked for, and matched, is shown,
\* or is still to come with "Load more", or is missing for one of the three
\* reasons the code has: it shares its time_begin with a row shown, the flag
\* filter cut a page short, or the time window has moved past it.
MissingSpanHasCause ==
    OneList => \A s \in page.known :
        \/ s \in Shown
        \/ page.cursor # NoCursor /\ Begin[s] < page.cursor
        \/ \E t \in Shown : Begin[t] = Begin[s]
        \/ page.cut
        \/ Begin[s] < page.from

Quiet == \A i \in DOMAIN requests : requests[i] = Done \/ requests[i].mount # page.mount

\* When every answer is in, the page shows the list of its filters, unless the
\* request for it failed or was answered before an older one (page.tsx:47).
SettledListIsCurrent ==
    page.token # NoToken /\ Quiet =>
        page.of = page.filter \/ page.base < page.newest

\* No skeleton and no "Loading..." stays: with a session that has run out the
\* page gets a new token or leaves for the sign-in page (api.ts:13).
LoadingEnds == (page.loading \/ page.loadingMore) ~> (~page.loading /\ ~page.loadingMore)
=============================================================================
