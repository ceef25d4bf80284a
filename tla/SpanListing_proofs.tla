------------------------- MODULE SpanListing_proofs -------------------------
(***************************************************************************)
(* A settled page shows the list of its filters, for any spans, filters,   *)
(* page size and number of requests, whatever the writers do and whenever  *)
(* sessions run out (IInv).  The rows of one list are in order and none is *)
(* missing without a cause (Listing): a request for more rows continues    *)
(* where the rows shown end, and at most one is open at a time.            *)
(***************************************************************************)
EXTENDS SpanListing, SequenceTheorems, TLAPS

PageFields == {"mount", "token", "filter", "rows", "cursor", "loading", "loadingMore", "base",
               "of", "newest", "known", "from", "cut", "spliced"}
RequestFields == {"kind", "state", "mount", "token", "retried", "filter", "from", "cursor",
                  "base", "rows", "next", "known", "cut"}

IsSeq(q) == Len(q) \in Nat /\ q = [i \in 1 .. Len(q) |-> q[i]]

\* A request is over, or has all its fields.
RequestInv(r) == \/ r = Done
                 \/ DOMAIN r = RequestFields /\ r.state \in {"sent", "answered"} /\ r.kind \in {"list", "more"}

PageInv(p) == DOMAIN p = PageFields /\ p.base \in Nat /\ p.newest \in Nat

\* An open request for a list of the page that is mounted.
Asks(r, p) == r # Done /\ r.kind = "list" /\ r.mount = p.mount

\* The k-th request is the last one for a list of the page.  It has the filters
\* of the page and is open, or has been answered; then the rows are its own, or
\* those of an older list that came later or before it failed.
LastList(q, p, k) ==
    /\ p.base <= k
    /\ \A i \in 1 .. Len(q) : i > k => ~Asks(q[i], p)
    /\ \/ Asks(q[k], p) /\ q[k].filter = p.filter /\ p.base < k
       \/ q[k] = Done /\ p.newest >= k /\ (p.base = k => p.of = p.filter)

ListInv(q, p) == p.token # NoToken => \E k \in 1 .. Len(q) : LastList(q, p, k)

SeqInv(q) == IsSeq(q) /\ \A i \in 1 .. Len(q) : RequestInv(q[i])

IInv == /\ SeqInv(requests) /\ PageInv(page)
        /\ ListInv(requests, page)
-----------------------------------------------------------------------------
LEMMA NextCases ==
    ASSUME [Next]_vars
    PROVE  \/ SignIn \/ LoadMore \/ \E f \in Filters : ChangeFilter(f)
           \/ \E i \in 1 .. Len(requests) : \/ ListSpans(i) \/ QueryFails(i) \/ Refresh(i)
                                            \/ RefreshFails(i) \/ RefusedAgain(i) \/ Deliver(i)
           \/ UNCHANGED <<page, requests>>
BY DEF Next, User, Environment, Answer, Expire, Store, Flag, vars

\* A function on 1 .. n is a sequence of length n.
LEMMA SeqFacts ==
    ASSUME NEW n \in Nat, NEW f, f = [i \in 1 .. n |-> f[i]]
    PROVE  Len(f) = n /\ IsSeq(f)
<1> DEFINE S == {f[i] : i \in 1 .. n}
<1>1. f \in [1 .. n -> S]
  OBVIOUS
<1>2. f \in Seq(S)
  BY <1>1
<1>3. Len(f) = n
  BY <1>1, <1>2, LenProperties
<1>4. QED BY <1>3 DEF IsSeq

LEMMA AppendFacts ==
    ASSUME NEW q, SeqInv(q), NEW r, RequestInv(r)
    PROVE  /\ SeqInv(Append(q, r)) /\ Len(Append(q, r)) = Len(q) + 1 /\ Len(q) \in Nat
           /\ Append(q, r)[Len(q) + 1] = r
           /\ \A i \in 1 .. Len(q) : Append(q, r)[i] = q[i]
<1> DEFINE S == {q[i] : i \in 1 .. Len(q)} \cup {r}
<1>1. Len(q) \in Nat /\ q \in [1 .. Len(q) -> S] /\ r \in S
  BY DEF SeqInv, IsSeq
<1>2. q \in Seq(S)
  BY <1>1
<1>3. /\ Append(q, r) \in Seq(S) /\ Len(Append(q, r)) = Len(q) + 1
      /\ Append(q, r)[Len(q) + 1] = r
      /\ \A i \in 1 .. Len(q) : Append(q, r)[i] = q[i]
  BY <1>1, <1>2, AppendProperties
<1>4. IsSeq(Append(q, r))
  <2>1. Append(q, r) \in [1 .. Len(Append(q, r)) -> S] /\ Len(Append(q, r)) \in Nat
    BY <1>3, LenProperties
  <2>2. QED BY <2>1 DEF IsSeq
<1>5. \A i \in 1 .. Len(q) + 1 : i \in 1 .. Len(q) \/ i = Len(q) + 1
  BY <1>1
<1>6. \A i \in 1 .. Len(q) + 1 : RequestInv(Append(q, r)[i])
  BY <1>3, <1>5 DEF SeqInv
<1>7. QED BY <1>1, <1>3, <1>4, <1>6 DEF SeqInv

LEMMA UpdateFacts ==
    ASSUME NEW q, SeqInv(q), NEW i \in 1 .. Len(q), NEW r, RequestInv(r)
    PROVE  /\ SeqInv([q EXCEPT ![i] = r]) /\ Len([q EXCEPT ![i] = r]) = Len(q) /\ Len(q) \in Nat
           /\ [q EXCEPT ![i] = r][i] = r
           /\ \A j \in 1 .. Len(q) : j # i => [q EXCEPT ![i] = r][j] = q[j]
<1> DEFINE u == [q EXCEPT ![i] = r]
<1>1. Len(q) \in Nat /\ DOMAIN q = 1 .. Len(q)
  BY DEF SeqInv, IsSeq
<1>2. /\ u = [j \in 1 .. Len(q) |-> u[j]] /\ u[i] = r
      /\ \A j \in 1 .. Len(q) : j # i => u[j] = q[j]
  BY <1>1
<1>3. Len(u) = Len(q) /\ IsSeq(u)
  BY <1>1, <1>2, SeqFacts
<1>4. \A j \in 1 .. Len(q) : RequestInv(u[j])
  BY <1>2 DEF SeqInv
<1>5. QED BY <1>1, <1>2, <1>3, <1>4 DEF SeqInv

LEMMA MaxOfTwo == ASSUME NEW m \in Nat, NEW n \in Nat
                  PROVE  Max({m, n}) \in Nat /\ Max({m, n}) >= m /\ Max({m, n}) >= n
<1>1. \E x \in {m, n} : \A y \in {m, n} : x >= y
  OBVIOUS
<1>2. Max({m, n}) \in {m, n} /\ \A y \in {m, n} : Max({m, n}) >= y
  BY <1>1 DEF Max
<1>3. QED BY <1>2

\* A new request is open and asks for what the page has set.
LEMMA NewRequest ==
    ASSUME NEW kind \in {"list", "more"}, NEW p, NEW t
    PROVE  /\ RequestInv(Request(kind, p, t)) /\ Request(kind, p, t) # Done
           /\ Request(kind, p, t).kind = kind /\ Request(kind, p, t).mount = p.mount
           /\ Request(kind, p, t).filter = p.filter
BY DEF RequestInv, Request, RequestFields, Done

LEMMA DoneFacts == RequestInv(Done) /\ \A p : ~Asks(Done, p)
BY DEF RequestInv, Asks

\* A list that has just been asked for is the last one.
LEMMA ListAppended ==
    ASSUME NEW q, SeqInv(q), NEW p, p.base \in Nat, p.base <= Len(q), NEW t
    PROVE  /\ SeqInv(Append(q, Request("list", p, t)))
           /\ ListInv(Append(q, Request("list", p, t)), p)
<1> DEFINE r == Request("list", p, t)
           u == Append(q, r)
<1>1. RequestInv(r) /\ r # Done /\ r.kind = "list" /\ r.mount = p.mount /\ r.filter = p.filter
  BY NewRequest
<1> HIDE DEF r
<1>2. /\ SeqInv(u) /\ Len(u) = Len(q) + 1 /\ Len(q) \in Nat /\ u[Len(q) + 1] = r
  BY <1>1, AppendFacts
<1>3. LastList(u, p, Len(q) + 1)
  BY <1>1, <1>2 DEF LastList, Asks
<1>4. Len(q) + 1 \in 1 .. Len(u)
  BY <1>2
<1>5. QED BY <1>2, <1>3, <1>4 DEF ListInv, r

\* A request that is not for a list changes nothing about the last one.
LEMMA MoreAppended ==
    ASSUME NEW q, SeqInv(q), NEW p, ListInv(q, p), NEW r, RequestInv(r), r.kind = "more", r # Done
    PROVE  SeqInv(Append(q, r)) /\ ListInv(Append(q, r), p)
<1>1. /\ SeqInv(Append(q, r)) /\ Len(Append(q, r)) = Len(q) + 1 /\ Len(q) \in Nat
      /\ Append(q, r)[Len(q) + 1] = r
      /\ \A i \in 1 .. Len(q) : Append(q, r)[i] = q[i]
  BY AppendFacts
<1>2. \A i \in 1 .. Len(q) + 1 : i \in 1 .. Len(q) \/ i = Len(q) + 1
  BY <1>1
<1>3. ASSUME p.token # NoToken
      PROVE  \E k \in 1 .. Len(Append(q, r)) : LastList(Append(q, r), p, k)
  <2>1. PICK k \in 1 .. Len(q) : LastList(q, p, k)
    BY <1>3 DEF ListInv
  <2>2. LastList(Append(q, r), p, k)
    BY <1>1, <1>2, <2>1 DEF LastList, Asks
  <2>3. k \in 1 .. Len(Append(q, r))
    BY <1>1
  <2>4. QED BY <2>2, <2>3
<1>4. QED BY <1>1, <1>3 DEF ListInv

\* A request that is answered or sent again stays what it was.
LEMMA RequestUpdated ==
    ASSUME NEW q, SeqInv(q), NEW p, ListInv(q, p), NEW i \in 1 .. Len(q), q[i] # Done,
           NEW r, RequestInv(r), r # Done, r.kind = q[i].kind, r.mount = q[i].mount, r.filter = q[i].filter
    PROVE  SeqInv([q EXCEPT ![i] = r]) /\ ListInv([q EXCEPT ![i] = r], p)
<1> DEFINE u == [q EXCEPT ![i] = r]
<1>1. /\ SeqInv(u) /\ Len(u) = Len(q) /\ u[i] = r
      /\ \A j \in 1 .. Len(q) : j # i => u[j] = q[j]
  BY UpdateFacts
<1> HIDE DEF u
<1>2. ASSUME NEW k \in 1 .. Len(q), LastList(q, p, k) PROVE LastList(u, p, k)
  BY <1>1, <1>2 DEF LastList, Asks
<1>3. QED BY <1>1, <1>2 DEF ListInv, u

\* An answer arrives or a request fails: the rows are those of before or, if it
\* was for a list of this page, its own.
LEMMA RequestOver ==
    ASSUME NEW q, SeqInv(q), NEW p, PageInv(p), ListInv(q, p), NEW i \in 1 .. Len(q), q[i] # Done,
           NEW n, PageInv(n),
           n.token = p.token, n.mount = p.mount, n.filter = p.filter, n.newest >= p.newest,
           Asks(q[i], p) => n.newest >= i,
           \/ n.base = p.base /\ n.of = p.of
           \/ Asks(q[i], p) /\ n.base = i /\ n.of = q[i].filter
    PROVE  SeqInv([q EXCEPT ![i] = Done]) /\ ListInv([q EXCEPT ![i] = Done], n)
<1> DEFINE u == [q EXCEPT ![i] = Done]
<1>1. /\ SeqInv(u) /\ Len(u) = Len(q) /\ Len(q) \in Nat /\ u[i] = Done
      /\ \A j \in 1 .. Len(q) : j # i => u[j] = q[j]
  BY UpdateFacts, DoneFacts
<1> HIDE DEF u
<1>2. ASSUME NEW k \in 1 .. Len(q), LastList(q, p, k) PROVE LastList(u, n, k)
  <2>1. \A j \in 1 .. Len(q) : j > k => ~Asks(u[j], n)
    BY <1>1, <1>2, DoneFacts DEF LastList, Asks
  <2>2. p.base \in Nat /\ p.newest \in Nat /\ n.base \in Nat /\ n.newest \in Nat
    BY DEF PageInv
  <2>3. Asks(q[i], p) => i <= k
    BY <1>1, <1>2 DEF LastList
  <2>4. n.base <= k
    BY <1>2, <2>3 DEF LastList
  <2>5. CASE i = k
    <3>1. Asks(q[k], p) /\ q[k].filter = p.filter /\ p.base < k
      BY <1>2, <2>5 DEF LastList
    <3>2. u[k] = Done /\ n.newest >= k /\ (n.base = k => n.of = n.filter)
      BY <1>1, <2>2, <2>5, <3>1
    <3>3. QED BY <1>1, <2>1, <2>4, <3>2 DEF LastList
  <2>6. CASE i # k
    <3>1. u[k] = q[k]
      BY <1>1, <2>6
    <3>2. n.base = k => n.base = p.base /\ n.of = p.of
      BY <2>6
    <3>3. CASE Asks(q[k], p) /\ q[k].filter = p.filter /\ p.base < k
      <4>1. n.base < k
        BY <1>1, <2>2, <2>4, <3>2, <3>3
      <4>2. Asks(u[k], n) /\ u[k].filter = n.filter
        BY <3>1, <3>3 DEF Asks
      <4>3. QED BY <1>1, <2>1, <2>4, <4>1, <4>2 DEF LastList
    <3>4. CASE q[k] = Done /\ p.newest >= k /\ (p.base = k => p.of = p.filter)
      <4>1. n.newest >= k
        BY <1>1, <2>2, <3>4
      <4>2. QED BY <1>1, <2>1, <2>4, <3>1, <3>2, <3>4, <4>1 DEF LastList
    <3>5. QED BY <1>2, <3>3, <3>4 DEF LastList
  <2>7. QED BY <2>5, <2>6
<1>3. QED BY <1>1, <1>2 DEF ListInv, u
-----------------------------------------------------------------------------
LEMMA SignInStep == IInv /\ SignIn => IInv'
<1> SUFFICES ASSUME IInv, SignIn PROVE IInv'
  OBVIOUS
<1>1. page' = Mounted(page.mount + 1, issued + 1) /\ requests' = Append(requests, Request("list", page', clock))
  BY DEF SignIn, Fetch
<1>2. PageInv(page') /\ page'.base = 0
  BY <1>1 DEF Mounted, PageInv, PageFields
<1>3. SeqInv(requests) /\ Len(requests) \in Nat
  BY DEF IInv, SeqInv, IsSeq
<1>4. SeqInv(requests') /\ ListInv(requests', page')
  BY <1>1, <1>2, <1>3, ListAppended
<1>5. QED BY <1>2, <1>4 DEF IInv

\* The last list of a page is one of the requests, and no list shown is newer.
LEMMA BaseFacts ==
    ASSUME IInv, page.token # NoToken
    PROVE  page.base \in Nat /\ page.base <= Len(requests) /\ Len(requests) \in Nat
<1>1. Len(requests) \in Nat /\ page.base \in Nat
  BY DEF IInv, SeqInv, IsSeq, PageInv
<1>2. PICK k \in 1 .. Len(requests) : page.base <= k
  BY DEF IInv, ListInv, LastList
<1>3. QED BY <1>1, <1>2

LEMMA ChangeFilterStep == \A f \in Filters : IInv /\ ChangeFilter(f) => IInv'
<1> SUFFICES ASSUME NEW f \in Filters, IInv, ChangeFilter(f) PROVE IInv'
  OBVIOUS
<1>1. /\ page' = [page EXCEPT !.filter = f, !.loading = TRUE]
      /\ requests' = Append(requests, Request("list", page', clock'))
  BY DEF ChangeFilter, Fetch
<1>2. PageInv(page) /\ SeqInv(requests)
  BY DEF IInv
<1>3. PageInv(page') /\ page'.base = page.base
  BY <1>1, <1>2 DEF PageInv, PageFields
<1>4. page.base \in Nat /\ page.base <= Len(requests)
  BY BaseFacts DEF ChangeFilter
<1>5. SeqInv(requests') /\ ListInv(requests', page')
  BY <1>1, <1>2, <1>3, <1>4, ListAppended
<1>6. QED BY <1>3, <1>5 DEF IInv

LEMMA LoadMoreStep == IInv /\ LoadMore => IInv'
<1> SUFFICES ASSUME IInv, LoadMore PROVE IInv'
  OBVIOUS
<1>1. /\ page' = [page EXCEPT !.loadingMore = TRUE]
      /\ requests' = Append(requests, Request("more", page, clock'))
  BY DEF LoadMore
<1>2. PageInv(page) /\ SeqInv(requests) /\ ListInv(requests, page)
  BY DEF IInv
<1>3. /\ PageInv(page') /\ page'.base = page.base /\ page'.token = page.token /\ page'.mount = page.mount
      /\ page'.filter = page.filter /\ page'.of = page.of /\ page'.newest = page.newest
  BY <1>1, <1>2 DEF PageInv, PageFields
<1>4. ListInv(requests, page')
  BY <1>2, <1>3 DEF ListInv, LastList, Asks
<1>5. SeqInv(requests') /\ ListInv(requests', page')
  <2> DEFINE r == Request("more", page, clock')
  <2>1. RequestInv(r) /\ r.kind = "more" /\ r # Done
    BY NewRequest
  <2> HIDE DEF r
  <2>2. requests' = Append(requests, r)
    BY <1>1 DEF r
  <2>3. QED BY <1>2, <1>4, <2>1, <2>2, MoreAppended
<1>6. QED BY <1>3, <1>5 DEF IInv

\* A request on its way has all its fields.
LEMMA OpenFacts ==
    ASSUME IInv, NEW i \in 1 .. Len(requests), requests[i].state # "done"
    PROVE  requests[i] # Done /\ DOMAIN requests[i] = RequestFields /\ requests[i].kind \in {"list", "more"}
BY DEF IInv, SeqInv, RequestInv, Done

LEMMA ListSpansStep == \A i \in 1 .. Len(requests) : IInv /\ ListSpans(i) => IInv'
<1> SUFFICES ASSUME NEW i \in 1 .. Len(requests), IInv, ListSpans(i) PROVE IInv'
  OBVIOUS
<1>1. UNCHANGED page /\ requests[i].state = "sent"
  BY DEF ListSpans
<1>2. PICK a, b, c, d :
         requests' = [requests EXCEPT ![i] = [requests[i] EXCEPT !.state = "answered", !.token = NoToken,
                                                 !.rows = a, !.next = b, !.cut = c, !.known = d]]
  <2> DEFINE S == {s \in stored : Matches(s, requests[i])}
  <2>1. PICK q \in Pages(S) : \E k \in Kept(q, requests[i]) :
            requests' = [requests EXCEPT
                ![i] = [requests[i] EXCEPT !.state = "answered", !.token = NoToken, !.rows = k,
                            !.next = NextCursor(k), !.cut = Len(q) = Limit /\ k # q,
                            !.known = IF requests[i].filter.flag THEN S \cap flagged ELSE S]]
    BY DEF ListSpans
  <2>2. PICK k \in Kept(q, requests[i]) :
            requests' = [requests EXCEPT
                ![i] = [requests[i] EXCEPT !.state = "answered", !.token = NoToken, !.rows = k,
                            !.next = NextCursor(k), !.cut = Len(q) = Limit /\ k # q,
                            !.known = IF requests[i].filter.flag THEN S \cap flagged ELSE S]]
    BY <2>1
  <2>3. QED BY <2>2, Zenon
<1> DEFINE r == [requests[i] EXCEPT !.state = "answered", !.token = NoToken,
                                    !.rows = a, !.next = b, !.cut = c, !.known = d]
<1>3. requests[i] # Done /\ DOMAIN requests[i] = RequestFields /\ requests[i].kind \in {"list", "more"}
  BY <1>1, OpenFacts
<1>4. /\ RequestInv(r) /\ r # Done /\ r.kind = requests[i].kind /\ r.mount = requests[i].mount
      /\ r.filter = requests[i].filter
  BY <1>3 DEF RequestInv, RequestFields, Done
<1>5. SeqInv(requests') /\ ListInv(requests', page)
  BY <1>2, <1>3, <1>4, RequestUpdated DEF IInv
<1>6. QED BY <1>1, <1>5 DEF IInv

\* The page after an error: nothing but its flags and newest has changed.
LEMMA FailedFacts ==
    ASSUME IInv, NEW i \in 1 .. Len(requests), requests[i].state # "done"
    PROVE  /\ PageInv(Failed(i)) /\ Failed(i).token = page.token /\ Failed(i).mount = page.mount
           /\ Failed(i).filter = page.filter /\ Failed(i).newest >= page.newest
           /\ Failed(i).base = page.base /\ Failed(i).of = page.of
           /\ Asks(requests[i], page) => Failed(i).newest >= i
<1>1. PageInv(page) /\ page.newest \in Nat /\ i \in Nat
  BY DEF IInv, PageInv, SeqInv, IsSeq
<1>2. Max({page.newest, i}) \in Nat /\ Max({page.newest, i}) >= page.newest /\ Max({page.newest, i}) >= i
  BY <1>1, MaxOfTwo
<1>3. CASE requests[i].mount # page.mount
  BY <1>1, <1>3 DEF Failed, Asks
<1>4. CASE requests[i].mount = page.mount /\ requests[i].kind = "list"
  BY <1>1, <1>2, <1>4 DEF Failed, PageInv, PageFields
<1>5. CASE requests[i].mount = page.mount /\ requests[i].kind # "list"
  BY <1>1, <1>5 DEF Failed, Asks, PageInv, PageFields
<1>6. QED BY <1>3, <1>4, <1>5

LEMMA FailedStep ==
    ASSUME IInv, NEW i \in 1 .. Len(requests), requests[i].state # "done",
           page' = Failed(i), requests' = [requests EXCEPT ![i] = Done]
    PROVE  IInv'
<1>1. SeqInv(requests) /\ PageInv(page) /\ ListInv(requests, page) /\ requests[i] # Done
  BY OpenFacts DEF IInv
<1> DEFINE n == Failed(i)
<1>2. /\ PageInv(n) /\ n.token = page.token /\ n.mount = page.mount /\ n.filter = page.filter
      /\ n.newest >= page.newest /\ n.base = page.base /\ n.of = page.of
      /\ Asks(requests[i], page) => n.newest >= i
  BY FailedFacts
<1> HIDE DEF n
<1>3. SeqInv([requests EXCEPT ![i] = Done]) /\ ListInv([requests EXCEPT ![i] = Done], n)
  BY <1>1, <1>2, RequestOver
<1>4. QED BY <1>2, <1>3 DEF IInv, n

\* A page that is left for the sign-in page has no token, hence no list.
LEMMA SignedOutStep ==
    ASSUME IInv, NEW i \in 1 .. Len(requests), page' = WithoutToken, requests' = [requests EXCEPT ![i] = Done]
    PROVE  IInv'
<1>1. PageInv(page') /\ page'.token = NoToken
  BY DEF IInv, WithoutToken, SignedOut, Mounted, PageInv, PageFields
<1>2. SeqInv(requests')
  BY UpdateFacts, DoneFacts DEF IInv
<1>3. QED BY <1>1, <1>2 DEF IInv, ListInv

LEMMA DeliverStep == \A i \in 1 .. Len(requests) : IInv /\ Deliver(i) => IInv'
<1> SUFFICES ASSUME NEW i \in 1 .. Len(requests), IInv, Deliver(i) PROVE IInv'
  OBVIOUS
<1> DEFINE r == requests[i]
<1>1. /\ r.state = "answered" /\ requests' = [requests EXCEPT ![i] = Done]
      /\ page' = IF r.mount # page.mount THEN page ELSE IF r.kind = "list" THEN ShowList(i, r) ELSE ShowMore(r)
  BY DEF Deliver
<1>2. SeqInv(requests) /\ PageInv(page) /\ ListInv(requests, page) /\ r # Done /\ page.newest \in Nat /\ i \in Nat
  BY <1>1, OpenFacts DEF IInv, PageInv, SeqInv, IsSeq
<1>3. Max({page.newest, i}) \in Nat /\ Max({page.newest, i}) >= page.newest /\ Max({page.newest, i}) >= i
  BY <1>2, MaxOfTwo
<1>4. /\ PageInv(page') /\ page'.token = page.token /\ page'.mount = page.mount /\ page'.filter = page.filter
      /\ page'.newest >= page.newest
      /\ Asks(r, page) => page'.newest >= i
      /\ \/ page'.base = page.base /\ page'.of = page.of
         \/ Asks(r, page) /\ page'.base = i /\ page'.of = r.filter
  <2>1. CASE r.mount # page.mount
    BY <1>1, <1>2, <2>1 DEF Asks
  <2>2. CASE r.mount = page.mount /\ r.kind = "list"
    <3>1. page' = ShowList(i, r)
      BY <1>1, <2>2
    <3>2. /\ DOMAIN page' = PageFields /\ page'.token = page.token /\ page'.mount = page.mount
          /\ page'.filter = page.filter /\ page'.newest = Max({page.newest, i})
          /\ page'.base = i /\ page'.of = r.filter
      BY <1>2, <3>1 DEF ShowList, PageInv, PageFields
    <3>3. QED BY <1>2, <1>3, <2>2, <3>2 DEF PageInv, Asks
  <2>3. CASE r.mount = page.mount /\ r.kind # "list"
    <3>1. page' = ShowMore(r)
      BY <1>1, <2>3
    <3>2. /\ DOMAIN page' = PageFields /\ page'.token = page.token /\ page'.mount = page.mount
          /\ page'.filter = page.filter /\ page'.newest = page.newest
          /\ page'.base = page.base /\ page'.of = page.of
      BY <1>2, <3>1 DEF ShowMore, PageInv, PageFields
    <3>3. QED BY <1>2, <2>3, <3>2 DEF PageInv, Asks
  <2>4. QED BY <2>1, <2>2, <2>3
<1>5. SeqInv(requests') /\ ListInv(requests', page')
  BY <1>1, <1>2, <1>4, RequestOver
<1>6. QED BY <1>4, <1>5 DEF IInv

LEMMA RefreshStep == \A i \in 1 .. Len(requests) : IInv /\ Refresh(i) => IInv'
<1> SUFFICES ASSUME NEW i \in 1 .. Len(requests), IInv, Refresh(i) PROVE IInv'
  OBVIOUS
<1> DEFINE Again(t) == [requests EXCEPT ![i].token = t, ![i].retried = TRUE]
           R(t) == [requests[i] EXCEPT !.token = t, !.retried = TRUE]
<1>1. requests[i] # Done /\ DOMAIN requests[i] = RequestFields /\ requests[i].kind \in {"list", "more"}
      /\ requests[i].state = "sent"
  BY OpenFacts DEF Refresh, Refused
<1>2. SeqInv(requests) /\ PageInv(page) /\ ListInv(requests, page) /\ DOMAIN requests = 1 .. Len(requests)
  BY DEF IInv, SeqInv, IsSeq
<1>3. \A t : Again(t) = [requests EXCEPT ![i] = R(t)]
  BY <1>2
<1>4. \A t : /\ RequestInv(R(t)) /\ R(t) # Done /\ R(t).kind = requests[i].kind
             /\ R(t).mount = requests[i].mount /\ R(t).filter = requests[i].filter
  BY <1>1 DEF RequestInv, RequestFields, Done
<1> HIDE DEF R
<1>5. ASSUME NEW t
      PROVE  SeqInv(Again(t)) /\ ListInv(Again(t), page) /\ Len(Again(t)) = Len(requests)
  <2>1. Again(t) = [requests EXCEPT ![i] = R(t)]
    BY <1>3
  <2> HIDE DEF Again
  <2>2. /\ RequestInv(R(t)) /\ R(t) # Done /\ R(t).kind = requests[i].kind
        /\ R(t).mount = requests[i].mount /\ R(t).filter = requests[i].filter
    BY <1>4
  <2>3. SeqInv([requests EXCEPT ![i] = R(t)]) /\ ListInv([requests EXCEPT ![i] = R(t)], page)
    BY <1>1, <1>2, <2>2, RequestUpdated
  <2>4. Len([requests EXCEPT ![i] = R(t)]) = Len(requests)
    BY <1>2, <2>2, UpdateFacts
  <2>5. QED BY <2>1, <2>3, <2>4
<1> HIDE DEF Again
<1>6. CASE requests' = Again(page.token) /\ UNCHANGED <<issued, page>>
  BY <1>2, <1>5, <1>6 DEF IInv
<1>7. CASE page' = WithToken(issued + 1) /\ requests' = Append(Again(issued + 1), Request("list", page', clock))
  <2>1. PageInv(page') /\ page'.base \in Nat /\ page'.base <= Len(requests)
    <3>1. CASE page.token = NoToken
      <4>1. PageInv(page') /\ page'.base = 0
        BY <1>7, <3>1 DEF WithToken, Mounted, PageInv, PageFields
      <4>2. Len(requests) \in Nat
        BY <1>2 DEF SeqInv, IsSeq
      <4>3. QED BY <4>1, <4>2
    <3>2. CASE page.token # NoToken
      <4>1. PageInv(page') /\ page'.base = page.base
        BY <1>2, <1>7, <3>2 DEF WithToken, PageInv, PageFields
      <4>2. QED BY <3>2, <4>1, BaseFacts
    <3>3. QED BY <3>1, <3>2
  <2>2. SeqInv(requests') /\ ListInv(requests', page')
    BY <1>5, <1>7, <2>1, ListAppended
  <2>3. QED BY <2>1, <2>2 DEF IInv
<1>8. QED BY <1>6, <1>7 DEF Refresh, Again

LEMMA SpecIInv == Spec => []IInv
<1>1. Init => IInv
  <2> SUFFICES ASSUME Init PROVE IInv
    OBVIOUS
  <2>1. requests = <<>> /\ page = SignedOut
    BY DEF Init
  <2>2. SeqInv(requests)
    BY <2>1 DEF SeqInv, IsSeq
  <2>3. PageInv(page) /\ page.token = NoToken
    BY <2>1 DEF SignedOut, Mounted, PageInv, PageFields
  <2>4. QED BY <2>2, <2>3 DEF IInv, ListInv
<1>2. IInv /\ [Next]_vars => IInv'
  <2> SUFFICES ASSUME IInv, [Next]_vars PROVE IInv'
    OBVIOUS
  <2>1. CASE UNCHANGED <<page, requests>>
    BY <2>1 DEF IInv
  <2>2. ASSUME NEW i \in 1 .. Len(requests), QueryFails(i) PROVE IInv'
    BY <2>2, FailedStep DEF QueryFails
  <2>3. ASSUME NEW i \in 1 .. Len(requests), RefreshFails(i) PROVE IInv'
    BY <2>3, SignedOutStep DEF RefreshFails
  <2>4. ASSUME NEW i \in 1 .. Len(requests), RefusedAgain(i) PROVE IInv'
    <3>1. /\ requests[i].state # "done" /\ requests' = [requests EXCEPT ![i] = Done]
          /\ page' = WithoutToken \/ page' = Failed(i)
      BY <2>4 DEF RefusedAgain
    <3>2. QED BY <3>1, FailedStep, SignedOutStep
  <2>5. QED BY NextCases, SignInStep, LoadMoreStep, ChangeFilterStep, ListSpansStep, RefreshStep,
               DeliverStep, <2>1, <2>2, <2>3, <2>4
<1>3. QED BY <1>1, <1>2, PTL DEF Spec

\* When every answer is in, the page shows the list of its filters, unless the
\* request for it failed or was answered before an older one (page.tsx:47).
THEOREM SpecSettledListIsCurrent == Spec => []SettledListIsCurrent
<1>1. IInv => SettledListIsCurrent
  <2> SUFFICES ASSUME IInv, page.token # NoToken, Quiet
               PROVE  page.of = page.filter \/ page.base < page.newest
    BY DEF SettledListIsCurrent
  <2>1. PICK k \in 1 .. Len(requests) : LastList(requests, page, k)
    BY DEF IInv, ListInv
  <2>2. Len(requests) \in Nat /\ DOMAIN requests = 1 .. Len(requests) /\ page.base \in Nat /\ page.newest \in Nat
    BY DEF IInv, SeqInv, IsSeq, PageInv
  <2>3. ~Asks(requests[k], page)
    BY <2>2 DEF Quiet, Asks
  <2>4. page.base <= k /\ page.newest >= k /\ (page.base = k => page.of = page.filter)
    BY <2>1, <2>3 DEF LastList
  <2>5. QED BY <2>2, <2>4
<1>2. QED BY <1>1, SpecIInv, PTL
-----------------------------------------------------------------------------
\* Rows, cursors and what is known about the spans of a list.

\* Rows in descending order of time_begin, none twice.
InOrder(rows) == \A i, j \in 1 .. Len(rows) :
                     i < j => rows[i] # rows[j] /\ Begin[rows[i]] >= Begin[rows[j]]

\* The rows of a page or an answer, and the cursor that continues them.
RowsInv(rows, cursor) ==
    /\ rows \in Seq(Spans) /\ InOrder(rows) /\ cursor \in Nat
    /\ cursor # NoCursor => Len(rows) # 0 /\ \A i \in 1 .. Len(rows) : cursor <= Begin[rows[i]]

\* Why a span that matched is not looked for any further.
Found(s, rows, cursor, cut) ==
    \/ \E i \in 1 .. Len(rows) : Begin[rows[i]] = Begin[s]
    \/ cursor # NoCursor /\ Begin[s] < cursor
    \/ cut

\* Spans that match filter f, all begun by time t.
KnownInv(K, f, t, st, fl) ==
    /\ K \subseteq st /\ st \subseteq Spans /\ (f.flag => K \subseteq fl)
    /\ \A s \in K : f.agent \in {AnyAgent, Agent[s]} /\ Begin[s] <= t

OpenInv(r, p, t) == /\ r.mount \in Nat /\ r.mount <= p.mount
                    /\ r.filter \in Filters /\ r.from \in Int /\ r.from + r.filter.range <= t
                    /\ r.cursor \in Nat

AnswerInv(r, st, fl) ==
    r.state = "answered" =>
        /\ RowsInv(r.rows, r.next)
        /\ r.cursor # NoCursor => \A i \in 1 .. Len(r.rows) : Begin[r.rows[i]] < r.cursor
        /\ KnownInv(r.known, r.filter, r.from + r.filter.range, st, fl)
        /\ \A s \in r.known : Found(s, r.rows, r.next, r.cut)

RequestsInv(q, p, st, fl, t) ==
    \A i \in 1 .. Len(q) : q[i] # Done => OpenInv(q[i], p, t) /\ AnswerInv(q[i], st, fl)

\* An open request for more rows of the page that is mounted, and one that
\* continues the list it shows.
AsksMore(r, p) == r # Done /\ r.kind = "more" /\ r.mount = p.mount
Continues(r, p) == AsksMore(r, p) /\ r.base = p.base /\ ~p.spliced

\* Such a request starts where the rows shown end, and finds every span known
\* to the list that is below them and still in the window.
ContinuesInv(r, p) ==
    /\ r.cursor = p.cursor
    /\ \A s \in p.known : Begin[s] <= r.from + r.filter.range
    /\ r.filter = p.of =>
         /\ p.from <= r.from
         /\ r.state = "answered" =>
              \A s \in p.known : r.from <= Begin[s] /\ Begin[s] < r.cursor => s \in r.known

\* The button is disabled while one is open; the list it continues has arrived.
MoreInv(q, p) ==
    \A i \in 1 .. Len(q) :
        /\ q[i] # Done /\ q[i].kind = "more" =>
             q[i].cursor # NoCursor /\ q[i].base \in 1 .. Len(q) /\ q[q[i].base] = Done
        /\ AsksMore(q[i], p) => /\ p.loadingMore /\ p.base # 0
                                /\ \A j \in 1 .. Len(q) : AsksMore(q[j], p) => i = j
        /\ Continues(q[i], p) => ContinuesInv(q[i], p)

ShownInv(q, p, st, fl, t) ==
    /\ p.mount \in Nat /\ p.filter \in Filters /\ p.of \in Filters /\ p.from \in Int
    /\ p.rows \in Seq(Spans) /\ p.cursor \in Nat
    /\ p.base # 0 => p.base \in 1 .. Len(q) /\ q[p.base] = Done
    /\ p.cursor # NoCursor => p.base # 0
    /\ KnownInv(p.known, p.of, t, st, fl)
    /\ p.base # 0 /\ ~p.spliced =>
         /\ RowsInv(p.rows, p.cursor)
         /\ p.from + p.of.range <= t
         /\ \A s \in p.known : Begin[s] < p.from \/ Found(s, p.rows, p.cursor, p.cut)

ListingInv(q, p, st, fl, t) ==
    /\ t \in Nat
    /\ RequestsInv(q, p, st, fl, t) /\ MoreInv(q, p) /\ ShownInv(q, p, st, fl, t)

\* The page shows the same list, if any.
SameList(n, p) == /\ n.mount = p.mount /\ n.rows = p.rows /\ n.cursor = p.cursor /\ n.base = p.base
                  /\ n.of = p.of /\ n.known = p.known /\ n.from = p.from /\ n.cut = p.cut
                  /\ n.spliced = p.spliced /\ n.filter \in Filters

\* A page without a list.
Blank(n) == n.base = 0 /\ n.rows = <<>> /\ n.cursor = NoCursor /\ n.known = {} /\ n.from = 0
            /\ n.filter = DefaultFilter /\ n.of = DefaultFilter /\ n.mount \in Nat
-----------------------------------------------------------------------------
\* Rows and flags are added, time passes.
LEMMA ListingGrows ==
    ASSUME NEW q, NEW p, NEW st, NEW fl, NEW t, ListingInv(q, p, st, fl, t),
           NEW st2, NEW fl2, NEW t2 \in Nat, st \subseteq st2, st2 \subseteq Spans, fl \subseteq fl2, t <= t2
    PROVE  ListingInv(q, p, st2, fl2, t2)
<1>1. t \in Nat /\ \A f \in Filters : f.range \in Nat
  BY FiltersAssumption DEF ListingInv
<1>2. Begin \in [Spans -> Nat \ {0}]
  BY BeginAssumption
<1>3. ASSUME NEW K, NEW f, KnownInv(K, f, t, st, fl) PROVE KnownInv(K, f, t2, st2, fl2)
  BY <1>1, <1>2, <1>3 DEF KnownInv
<1>4. ASSUME NEW K, NEW f, NEW u, KnownInv(K, f, u, st, fl) PROVE KnownInv(K, f, u, st2, fl2)
  BY <1>4 DEF KnownInv
<1>5. RequestsInv(q, p, st2, fl2, t2)
  <2> SUFFICES ASSUME NEW i \in 1 .. Len(q), q[i] # Done
               PROVE  OpenInv(q[i], p, t2) /\ AnswerInv(q[i], st2, fl2)
    BY DEF RequestsInv
  <2>1. OpenInv(q[i], p, t) /\ AnswerInv(q[i], st, fl)
    BY DEF ListingInv, RequestsInv
  <2>2. OpenInv(q[i], p, t2)
    BY <1>1, <2>1 DEF OpenInv
  <2>3. AnswerInv(q[i], st2, fl2)
    BY <1>4, <2>1 DEF AnswerInv
  <2>4. QED BY <2>2, <2>3
<1>6. ShownInv(q, p, st2, fl2, t2)
  <2>1. ShownInv(q, p, st, fl, t)
    BY DEF ListingInv
  <2>2. KnownInv(p.known, p.of, t2, st2, fl2)
    BY <1>3, <2>1 DEF ShownInv
  <2>3. p.base # 0 /\ ~p.spliced => p.from + p.of.range <= t2
    BY <1>1, <2>1 DEF ShownInv
  <2>4. QED BY <2>1, <2>2, <2>3 DEF ShownInv
<1>7. QED BY <1>5, <1>6 DEF ListingInv

\* A list is asked for: a request that is neither answered nor for more rows.
LEMMA ListAsked ==
    ASSUME NEW q, SeqInv(q), NEW p, NEW st, NEW fl, NEW t, ListingInv(q, p, st, fl, t),
           NEW n, SameList(n, p), n.loadingMore = p.loadingMore
    PROVE  ListingInv(Append(q, Request("list", n, t)), n, st, fl, t)
<1> DEFINE r == Request("list", n, t)
           u == Append(q, r)
<1>1. /\ RequestInv(r) /\ r.kind = "list" /\ r.state = "sent" /\ r.mount = n.mount
      /\ r.filter = n.filter /\ r.from = t - n.filter.range /\ r.cursor = NoCursor /\ r # Done
  BY DEF RequestInv, Request, RequestFields, Done
<1> HIDE DEF r
<1>2. /\ Len(u) = Len(q) + 1 /\ Len(q) \in Nat /\ u[Len(q) + 1] = r
      /\ \A i \in 1 .. Len(q) : u[i] = q[i]
  BY <1>1, AppendFacts
<1> HIDE DEF u
<1>3. \A i \in 1 .. Len(u) : i \in 1 .. Len(q) \/ i = Len(q) + 1
  BY <1>2
<1>4. RequestsInv(u, n, st, fl, t)
  <2>1. t \in Nat /\ n.mount \in Nat /\ n.filter \in Filters /\ n.filter.range \in Nat
    BY FiltersAssumption DEF ListingInv, ShownInv, SameList
  <2>2. OpenInv(r, n, t) /\ AnswerInv(r, st, fl)
    BY <1>1, <2>1 DEF OpenInv, AnswerInv, NoCursor
  <2>3. QED BY <1>2, <1>3, <2>2 DEF RequestsInv, ListingInv, OpenInv, SameList
<1>5. MoreInv(u, n)
  <2>1. \A i \in 1 .. Len(u) : u[i] # Done /\ u[i].kind = "more" => i \in 1 .. Len(q) /\ u[i] = q[i]
    BY <1>1, <1>2, <1>3
  <2>2. \A i \in 1 .. Len(u) : AsksMore(u[i], n) => i \in 1 .. Len(q) /\ u[i] = q[i] /\ AsksMore(q[i], p)
    BY <2>1 DEF AsksMore, SameList
  <2>3. \A i \in 1 .. Len(u) : Continues(u[i], n) => Continues(q[i], p)
    BY <2>1, <2>2 DEF Continues, SameList
  <2> SUFFICES ASSUME NEW i \in 1 .. Len(u)
               PROVE  /\ u[i] # Done /\ u[i].kind = "more" =>
                           u[i].cursor # NoCursor /\ u[i].base \in 1 .. Len(u) /\ u[u[i].base] = Done
                      /\ AsksMore(u[i], n) =>
                           n.loadingMore /\ n.base # 0 /\ \A j \in 1 .. Len(u) : AsksMore(u[j], n) => i = j
                      /\ Continues(u[i], n) => ContinuesInv(u[i], n)
    BY DEF MoreInv
  <2>4. u[i] # Done /\ u[i].kind = "more" =>
            u[i].cursor # NoCursor /\ u[i].base \in 1 .. Len(u) /\ u[u[i].base] = Done
    <3> SUFFICES ASSUME u[i] # Done, u[i].kind = "more"
                 PROVE  u[i].cursor # NoCursor /\ u[i].base \in 1 .. Len(u) /\ u[u[i].base] = Done
      OBVIOUS
    <3>1. q[i].cursor # NoCursor /\ q[i].base \in 1 .. Len(q) /\ q[q[i].base] = Done /\ u[i] = q[i]
      BY <2>1 DEF ListingInv, MoreInv
    <3>2. QED BY <1>2, <3>1
  <2>5. AsksMore(u[i], n) => n.loadingMore /\ n.base # 0 /\ \A j \in 1 .. Len(u) : AsksMore(u[j], n) => i = j
    BY <2>2 DEF ListingInv, MoreInv, SameList
  <2>6. Continues(u[i], n) => ContinuesInv(u[i], n)
    <3>1. Continues(u[i], n) => u[i] = q[i] /\ ContinuesInv(q[i], p)
      BY <2>2, <2>3 DEF ListingInv, MoreInv, Continues
    <3>2. QED BY <3>1 DEF ContinuesInv, SameList
  <2>7. QED BY <2>4, <2>5, <2>6
<1>6. ShownInv(u, n, st, fl, t)
  <2>1. ShownInv(q, p, st, fl, t)
    BY DEF ListingInv
  <2>2. n.base # 0 => n.base \in 1 .. Len(u) /\ u[n.base] = Done
    BY <1>2, <2>1 DEF ShownInv, SameList
  <2>3. QED BY <2>1, <2>2 DEF ShownInv, SameList
<1>7. QED BY <1>4, <1>5, <1>6 DEF ListingInv, u, r

\* The request for more rows: it continues the list the page shows.
LEMMA MoreAsked ==
    ASSUME NEW q, SeqInv(q), NEW p, NEW st, NEW fl, NEW t, ListingInv(q, p, st, fl, t),
           NEW n, SameList(n, p), n.loadingMore, ~p.loadingMore, p.cursor # NoCursor
    PROVE  ListingInv(Append(q, Request("more", p, t)), n, st, fl, t)
<1> DEFINE r == Request("more", p, t)
           u == Append(q, r)
<1>1. /\ RequestInv(r) /\ r.kind = "more" /\ r.state = "sent" /\ r.mount = p.mount
      /\ r.filter = p.filter /\ r.from = t - p.filter.range /\ r.cursor = p.cursor /\ r # Done
      /\ r.base = p.base
  BY DEF RequestInv, Request, RequestFields, Done
<1> HIDE DEF r
<1>2. /\ Len(u) = Len(q) + 1 /\ Len(q) \in Nat /\ u[Len(q) + 1] = r
      /\ \A i \in 1 .. Len(q) : u[i] = q[i]
  BY <1>1, AppendFacts
<1> HIDE DEF u
<1>3. \A i \in 1 .. Len(u) : i \in 1 .. Len(q) \/ i = Len(q) + 1
  BY <1>2
<1>4. /\ ShownInv(q, p, st, fl, t) /\ MoreInv(q, p) /\ RequestsInv(q, p, st, fl, t) /\ t \in Nat
      /\ p.filter.range \in Nat /\ p.of.range \in Nat
  BY FiltersAssumption DEF ListingInv, ShownInv
<1>5. p.base \in 1 .. Len(q) /\ q[p.base] = Done
  BY <1>4 DEF ShownInv
<1>6. \A i \in 1 .. Len(q) : ~AsksMore(q[i], p)
  BY <1>4 DEF MoreInv
<1>7. RequestsInv(u, n, st, fl, t)
  <2>1. OpenInv(r, n, t) /\ AnswerInv(r, st, fl)
    BY <1>1, <1>4 DEF OpenInv, AnswerInv, ShownInv, SameList
  <2>2. QED BY <1>2, <1>3, <1>4, <2>1 DEF RequestsInv, OpenInv, SameList
<1>8. ~n.spliced => ContinuesInv(r, n)
  <2>1. r.from + r.filter.range = t
    BY <1>1, <1>4
  <2>2. \A s \in n.known : Begin[s] <= t
    BY <1>4 DEF ShownInv, KnownInv, SameList
  <2>3. ~p.spliced /\ r.filter = p.of => p.from <= r.from
    BY <1>1, <1>4, <1>5 DEF ShownInv
  <2>4. QED BY <1>1, <2>1, <2>2, <2>3 DEF ContinuesInv, SameList
<1>9. MoreInv(u, n)
  <2>1. \A i \in 1 .. Len(u) : AsksMore(u[i], n) => i = Len(q) + 1
    BY <1>2, <1>3, <1>6 DEF AsksMore, SameList
  <2>2. \A i \in 1 .. Len(u) : Continues(u[i], n) => ContinuesInv(u[i], n)
    BY <1>2, <1>8, <2>1 DEF Continues
  <2>3. \A i \in 1 .. Len(u) : u[i] # Done /\ u[i].kind = "more" =>
            u[i].cursor # NoCursor /\ u[i].base \in 1 .. Len(u) /\ u[u[i].base] = Done
    <3>1. \A i \in 1 .. Len(q) : u[i] # Done /\ u[i].kind = "more" =>
              u[i].cursor # NoCursor /\ u[i].base \in 1 .. Len(q) /\ u[u[i].base] = Done
      BY <1>2, <1>4 DEF MoreInv
    <3>2. r.cursor # NoCursor /\ r.base \in 1 .. Len(q) /\ u[r.base] = Done
      BY <1>1, <1>2, <1>5
    <3>3. QED BY <1>2, <1>3, <3>1, <3>2
  <2>4. n.base # 0
    BY <1>2, <1>5 DEF SameList
  <2>5. QED BY <2>1, <2>2, <2>3, <2>4 DEF MoreInv
<1>10. ShownInv(u, n, st, fl, t)
  <2>1. n.base \in 1 .. Len(u) /\ u[n.base] = Done
    BY <1>2, <1>5 DEF SameList
  <2>2. QED BY <1>4, <2>1 DEF ShownInv, SameList
<1>11. QED BY <1>4, <1>7, <1>9, <1>10 DEF ListingInv, u, r

\* A request is sent again or answered.
LEMMA RequestProceeds ==
    ASSUME NEW q, SeqInv(q), NEW p, NEW st, NEW fl, NEW t, ListingInv(q, p, st, fl, t),
           NEW i \in 1 .. Len(q), q[i] # Done, NEW r, RequestInv(r), r # Done,
           r.kind = q[i].kind, r.mount = q[i].mount, r.filter = q[i].filter, r.from = q[i].from,
           r.base = q[i].base, r.cursor = q[i].cursor,
           AnswerInv(r, st, fl), Continues(r, p) => ContinuesInv(r, p)
    PROVE  ListingInv([q EXCEPT ![i] = r], p, st, fl, t)
<1> DEFINE u == [q EXCEPT ![i] = r]
<1>1. /\ Len(u) = Len(q) /\ Len(q) \in Nat /\ u[i] = r
      /\ \A j \in 1 .. Len(q) : j # i => u[j] = q[j]
  BY UpdateFacts
<1> HIDE DEF u
<1>2. ShownInv(q, p, st, fl, t) /\ MoreInv(q, p) /\ RequestsInv(q, p, st, fl, t) /\ t \in Nat
  BY DEF ListingInv
<1>3. RequestsInv(u, p, st, fl, t)
  BY <1>1, <1>2 DEF RequestsInv, OpenInv
<1>4. \A j \in 1 .. Len(q) : q[j] = Done => u[j] = Done
  BY <1>1
<1>5. ShownInv(u, p, st, fl, t)
  BY <1>1, <1>2, <1>4 DEF ShownInv
<1>6. MoreInv(u, p)
  <2>1. \A j \in 1 .. Len(q) : AsksMore(u[j], p) <=> AsksMore(q[j], p)
    BY <1>1 DEF AsksMore
  <2>2. \A j \in 1 .. Len(q) : u[j] # Done /\ u[j].kind = "more" =>
            u[j].cursor # NoCursor /\ u[j].base \in 1 .. Len(q) /\ u[u[j].base] = Done
    <3>1. \A j \in 1 .. Len(q) : u[j] # Done /\ u[j].kind = "more" =>
              u[j].cursor # NoCursor /\ u[j].base \in 1 .. Len(q) /\ q[u[j].base] = Done
      BY <1>1, <1>2 DEF MoreInv
    <3>2. QED BY <1>4, <3>1
  <2>3. \A j \in 1 .. Len(q) : Continues(u[j], p) => ContinuesInv(u[j], p)
    BY <1>1, <1>2 DEF MoreInv
  <2>4. QED BY <1>1, <1>2, <2>1, <2>2, <2>3 DEF MoreInv
<1>7. QED BY <1>2, <1>3, <1>5, <1>6 DEF ListingInv, u

\* A request is over and has not changed the list; the button is enabled again
\* only by the request for more rows.
LEMMA RequestEnds ==
    ASSUME NEW q, SeqInv(q), NEW p, NEW st, NEW fl, NEW t, ListingInv(q, p, st, fl, t),
           NEW i \in 1 .. Len(q), NEW n, SameList(n, p),
           n.loadingMore = p.loadingMore \/ AsksMore(q[i], p)
    PROVE  ListingInv([q EXCEPT ![i] = Done], n, st, fl, t)
<1> DEFINE u == [q EXCEPT ![i] = Done]
<1>1. /\ Len(u) = Len(q) /\ Len(q) \in Nat /\ u[i] = Done
      /\ \A j \in 1 .. Len(q) : j # i => u[j] = q[j]
  BY UpdateFacts, DoneFacts
<1> HIDE DEF u
<1>2. ShownInv(q, p, st, fl, t) /\ MoreInv(q, p) /\ RequestsInv(q, p, st, fl, t) /\ t \in Nat
  BY DEF ListingInv
<1>3. RequestsInv(u, n, st, fl, t)
  BY <1>1, <1>2 DEF RequestsInv, OpenInv, SameList
<1>4. \A j \in 1 .. Len(q) : q[j] = Done => u[j] = Done
  BY <1>1
<1>5. ShownInv(u, n, st, fl, t)
  BY <1>1, <1>2, <1>4 DEF ShownInv, SameList
<1>6. MoreInv(u, n)
  <2>1. \A j \in 1 .. Len(q) : u[j] # Done => u[j] = q[j] /\ j # i
    BY <1>1
  <2>2. \A j \in 1 .. Len(q) : AsksMore(u[j], n) => AsksMore(q[j], p) /\ j # i
    BY <2>1 DEF AsksMore, SameList
  <2>3. \A j \in 1 .. Len(q) : u[j] # Done /\ u[j].kind = "more" =>
            u[j].cursor # NoCursor /\ u[j].base \in 1 .. Len(q) /\ u[u[j].base] = Done
    BY <1>2, <1>4, <2>1 DEF MoreInv
  <2>4. \A j \in 1 .. Len(q) : Continues(u[j], n) => ContinuesInv(u[j], n)
    BY <1>2, <2>1, <2>2 DEF MoreInv, Continues, ContinuesInv, SameList, AsksMore
  <2>5. \A j \in 1 .. Len(q) : AsksMore(u[j], n) => n.loadingMore /\ n.base # 0
    BY <1>2, <2>2 DEF MoreInv, SameList
  <2>6. \A j, k \in 1 .. Len(q) : AsksMore(u[j], n) /\ AsksMore(u[k], n) => j = k
    BY <1>2, <2>2 DEF MoreInv
  <2>7. QED BY <1>1, <2>3, <2>4, <2>5, <2>6 DEF MoreInv
<1>7. QED BY <1>2, <1>3, <1>5, <1>6 DEF ListingInv, u

\* A page is mounted: what is still under way was asked for by an older one.
LEMMA PageMounted ==
    ASSUME NEW q, NEW p, NEW st, NEW fl, NEW t, ListingInv(q, p, st, fl, t),
           NEW n, Blank(n), n.mount > p.mount
    PROVE  ListingInv(q, n, st, fl, t)
<1>1. ShownInv(q, p, st, fl, t) /\ MoreInv(q, p) /\ RequestsInv(q, p, st, fl, t) /\ t \in Nat
  BY DEF ListingInv
<1>2. \A i \in 1 .. Len(q) : q[i] # Done => q[i].mount < n.mount
  BY <1>1 DEF RequestsInv, OpenInv, ShownInv, Blank
<1>3. RequestsInv(q, n, st, fl, t)
  BY <1>1, <1>2 DEF RequestsInv, OpenInv, Blank
<1>4. \A i \in 1 .. Len(q) : ~AsksMore(q[i], n)
  BY <1>1, <1>2 DEF AsksMore, Blank, RequestsInv, OpenInv
<1>5. MoreInv(q, n)
  BY <1>1, <1>4 DEF MoreInv, Continues
<1>6. ShownInv(q, n, st, fl, t)
  BY <1>1, FiltersAssumption DEF ShownInv, Blank, KnownInv, NoCursor
<1>7. QED BY <1>1, <1>3, <1>5, <1>6 DEF ListingInv
\* What a query answers: rows that match, in order, and a cursor below which the
\* spans begin that are not among them, unless the flag filter cut the page.
LEMMA AnswerFacts ==
    ASSUME NEW r, r.cursor \in Nat, stored \subseteq Spans,
           NEW S, S \subseteq stored, NEW q \in Pages(S), NEW k \in Kept(q, r),
           NEW K, \A s \in K : s \in S /\ (r.filter.flag => s \in flagged)
    PROVE  /\ RowsInv(k, NextCursor(k))
           /\ \A i \in 1 .. Len(k) : k[i] \in S
           /\ \A s \in K : Found(s, k, NextCursor(k), Len(q) = Limit /\ k # q)
<1>1. Begin \in [Spans -> Nat \ {0}] /\ S \subseteq Spans /\ Limit \in Nat \ {0}
  BY BeginAssumption, LimitAssumption
<1>2. q \in Seq(S) /\ Len(q) \in Nat /\ DOMAIN q = 1 .. Len(q) /\ \A i \in 1 .. Len(q) : q[i] \in S
  <2>1. PICK m \in 0 .. Limit : q \in [1 .. m -> S]
    BY DEF Pages, SeqOf
  <2>2. q \in Seq(S)
    BY <2>1
  <2>3. QED BY <2>2, LenProperties
<1>3. k \in Seq(ToSet(q)) /\ Len(k) \in Nat /\ DOMAIN k = 1 .. Len(k)
  <2>1. PICK m \in 0 .. Limit : k \in [1 .. m -> ToSet(q)]
    BY DEF Kept, SeqOf
  <2>2. k \in Seq(ToSet(q))
    BY <2>1
  <2>3. QED BY <2>2, LenProperties
<1>4. ToSet(k) = {s \in ToSet(q) : r.filter.flag => s \in flagged} /\ ToSet(q) \subseteq S
  <2>1. ToSet(q) \subseteq S
    BY <1>2 DEF ToSet
  <2>2. QED BY <2>1 DEF Kept
<1>5. \A i \in 1 .. Len(k) : k[i] \in ToSet(k) /\ k[i] \in S
  <2>1. \A i \in 1 .. Len(k) : k[i] \in ToSet(k)
    BY <1>3 DEF ToSet
  <2>2. QED BY <1>4, <2>1
<1>6. k \in Seq(Spans)
  <2>1. ToSet(q) \subseteq Spans
    BY <1>1, <1>4
  <2>2. QED BY <1>3, <2>1, SeqMonotonic
<1>7. InOrder(k)
  <2>1. \A m, n \in 1 .. Len(q) : m < n => Begin[q[m]] >= Begin[q[n]] /\ q[m] # q[n]
    BY DEF Pages
  <2>2. \A i, j \in 1 .. Len(k) : i < j => \E m, n \in 1 .. Len(q) : m < n /\ q[m] = k[i] /\ q[n] = k[j]
    BY DEF Kept
  <2>3. QED BY <2>1, <2>2 DEF InOrder
<1>8. /\ NextCursor(k) \in Nat
      /\ NextCursor(k) # NoCursor =>
            Len(k) # 0 /\ \A i \in 1 .. Len(k) : NextCursor(k) <= Begin[k[i]]
  <2>1. CASE Len(k) = Limit
    <3>1. Len(k) \in 1 .. Len(k) /\ NextCursor(k) = Begin[k[Len(k)]]
      BY <1>1, <1>3, <2>1 DEF NextCursor, Last
    <3>2. \A i \in 1 .. Len(k) : i = Len(k) \/ i < Len(k)
      <4>1. \A m \in Nat : \A i \in 1 .. m : i = m \/ i < m
        OBVIOUS
      <4>2. QED BY <1>3, <4>1
    <3>3. Begin[k[Len(k)]] \in Nat /\ \A i \in 1 .. Len(k) : Begin[k[i]] \in Nat
      BY <1>1, <1>5, <3>1
    <3>4. \A i \in 1 .. Len(k) : Begin[k[Len(k)]] <= Begin[k[i]]
      BY <1>7, <3>1, <3>2, <3>3 DEF InOrder
    <3>5. QED BY <1>1, <2>1, <3>1, <3>3, <3>4
  <2>2. CASE Len(k) # Limit
    BY <2>2 DEF NextCursor, NoCursor
  <2>3. QED BY <2>1, <2>2
<1>9. ASSUME NEW s \in K PROVE Found(s, k, NextCursor(k), Len(q) = Limit /\ k # q)
  <2>1. s \in S /\ (r.filter.flag => s \in flagged)
    OBVIOUS
  <2>2. CASE s \in ToSet(q)
    <3>1. s \in ToSet(k)
      BY <1>4, <2>1, <2>2
    <3>2. QED BY <1>3, <3>1 DEF Found, ToSet
  <2>3. CASE s \notin ToSet(q)
    <3>1. Len(q) \in 0 .. Limit
      <4>1. PICK m \in 0 .. Limit : q \in [1 .. m -> S]
        BY DEF Pages, SeqOf
      <4>2. Len(q) = m
        <5>1. q = [j \in 1 .. m |-> q[j]] /\ m \in Nat
          BY <1>1, <4>1
        <5>2. QED BY <5>1, SeqFacts
      <4>3. QED BY <4>2
    <3>2. Len(q) = Limit
      BY <1>1, <2>1, <2>3, <3>1 DEF Pages
    <3>3. Begin[s] <= Begin[q[Limit]]
      BY <2>1, <2>3, <3>2 DEF Pages, Last
    <3>4. CASE k = q
      <4>1. NextCursor(k) = Begin[k[Limit]] /\ Limit \in 1 .. Len(k)
        BY <1>1, <3>2, <3>4 DEF NextCursor, Last
      <4>2. Begin[s] \in Nat /\ Begin[k[Limit]] \in Nat \ {0}
        BY <1>1, <1>5, <2>1, <4>1
      <4>3. Begin[s] < Begin[k[Limit]] \/ Begin[k[Limit]] = Begin[s]
        BY <3>3, <3>4, <4>2
      <4>4. QED BY <4>1, <4>2, <4>3 DEF Found, NoCursor
    <3>5. CASE k # q
      BY <3>2, <3>5 DEF Found
    <3>6. QED BY <3>4, <3>5
  <2>4. QED BY <2>2, <2>3
<1>10. QED BY <1>5, <1>6, <1>7, <1>8, <1>9 DEF RowsInv

\* The answer of a list takes the place of the rows.
LEMMA ListShown ==
    ASSUME NEW q, SeqInv(q), NEW p, NEW st, NEW fl, NEW t, ListingInv(q, p, st, fl, t),
           NEW i \in 1 .. Len(q), q[i] # Done, q[i].state = "answered", q[i].mount = p.mount,
           NEW n, n.mount = p.mount, n.filter = p.filter, n.rows = q[i].rows, n.cursor = q[i].next,
           n.base = i, n.of = q[i].filter, n.known = q[i].known, n.from = q[i].from,
           n.cut = q[i].cut, n.loadingMore = p.loadingMore
    PROVE  ListingInv([q EXCEPT ![i] = Done], n, st, fl, t)
<1> DEFINE u == [q EXCEPT ![i] = Done]
           r == q[i]
<1>1. /\ Len(u) = Len(q) /\ Len(q) \in Nat /\ u[i] = Done
      /\ \A j \in 1 .. Len(q) : j # i => u[j] = q[j]
  BY UpdateFacts, DoneFacts
<1> HIDE DEF u
<1>2. ShownInv(q, p, st, fl, t) /\ MoreInv(q, p) /\ RequestsInv(q, p, st, fl, t) /\ t \in Nat
  BY DEF ListingInv
<1>3. OpenInv(r, p, t) /\ AnswerInv(r, st, fl) /\ r.filter.range \in Nat
  BY <1>2, FiltersAssumption DEF RequestsInv, OpenInv
<1>4. RequestsInv(u, n, st, fl, t)
  BY <1>1, <1>2 DEF RequestsInv, OpenInv
<1>5. \A j \in 1 .. Len(q) : u[j] # Done => u[j] = q[j] /\ j # i
  BY <1>1
<1>6. MoreInv(u, n)
  <2>1. \A j \in 1 .. Len(q) : AsksMore(u[j], n) => AsksMore(q[j], p)
    BY <1>5 DEF AsksMore
  <2>2. \A j \in 1 .. Len(q) : u[j] # Done /\ u[j].kind = "more" =>
            /\ u[j].cursor # NoCursor /\ u[j].base \in 1 .. Len(q) /\ q[u[j].base] = Done
            /\ u[j].base # i /\ u[u[j].base] = Done
    <3>1. \A j \in 1 .. Len(q) : u[j] # Done /\ u[j].kind = "more" =>
              u[j].cursor # NoCursor /\ u[j].base \in 1 .. Len(q) /\ q[u[j].base] = Done
      BY <1>2, <1>5 DEF MoreInv
    <3>2. QED BY <1>1, <3>1
  <2>3. \A j \in 1 .. Len(q) : ~Continues(u[j], n)
    BY <2>2 DEF Continues, AsksMore
  <2>4. QED BY <1>1, <1>2, <2>1, <2>2, <2>3 DEF MoreInv
<1>7. ShownInv(u, n, st, fl, t)
  <2>1. RowsInv(n.rows, n.cursor) /\ \A s \in n.known : Found(s, n.rows, n.cursor, n.cut)
    BY <1>3 DEF AnswerInv
  <2>2. n.from + n.of.range <= t /\ n.from \in Int /\ n.of \in Filters /\ n.mount \in Nat /\ n.filter \in Filters
    BY <1>2, <1>3 DEF OpenInv, ShownInv
  <2>3. KnownInv(n.known, n.of, t, st, fl)
    <3>1. KnownInv(n.known, n.of, r.from + r.filter.range, st, fl) /\ r.from + r.filter.range <= t
      BY <1>3 DEF AnswerInv, OpenInv
    <3>2. r.from + r.filter.range \in Int
      BY <1>3 DEF OpenInv
    <3>3. \A s \in n.known : Begin[s] \in Nat
      BY <3>1, BeginAssumption DEF KnownInv
    <3>4. QED BY <1>2, <3>1, <3>2, <3>3 DEF KnownInv
  <2>4. n.base \in 1 .. Len(u) /\ u[n.base] = Done /\ n.base # 0
    BY <1>1
  <2>5. n.rows \in Seq(Spans) /\ n.cursor \in Nat
    BY <2>1 DEF RowsInv
  <2>6. QED BY <2>1, <2>2, <2>3, <2>4, <2>5 DEF ShownInv
<1>8. QED BY <1>2, <1>4, <1>6, <1>7 DEF ListingInv, u

\* The answer of a request for more is appended.
Joined(c, a, b) ==
    /\ \A j \in 1 .. Len(a) : j \in 1 .. Len(c) /\ c[j] = a[j]
    /\ \A j \in 1 .. Len(b) : Len(a) + j \in 1 .. Len(c) /\ c[Len(a) + j] = b[j]
    /\ \A j \in 1 .. Len(c) : j \in 1 .. Len(a) \/ \E k \in 1 .. Len(b) : j = Len(a) + k

LEMMA ConcatJoins ==
    ASSUME NEW S, NEW a \in Seq(S), NEW b \in Seq(S)
    PROVE  /\ a \o b \in Seq(S) /\ Joined(a \o b, a, b)
           /\ Len(a) \in Nat /\ Len(b) \in Nat /\ Len(a \o b) = Len(a) + Len(b)
<1> DEFINE c == a \o b
<1>1. /\ c \in Seq(S) /\ Len(c) = Len(a) + Len(b)
      /\ \A j \in 1 .. Len(a) + Len(b) : c[j] = IF j <= Len(a) THEN a[j] ELSE b[j - Len(a)]
  BY ConcatProperties
<1>2. Len(a) \in Nat /\ Len(b) \in Nat
  BY LenProperties
<1> DEFINE m == Len(a)
           n == Len(b)
<1> HIDE DEF c, m, n
<1>3. /\ m \in Nat /\ n \in Nat /\ Len(c) = m + n
      /\ \A j \in 1 .. m + n : c[j] = IF j <= m THEN a[j] ELSE b[j - m]
  BY <1>1, <1>2 DEF m, n
<1>4. Joined(c, a, b)
  <2>1. \A j \in 1 .. m : j \in 1 .. m + n /\ c[j] = a[j]
    BY <1>3
  <2>2. \A j \in 1 .. n : m + j \in 1 .. m + n /\ c[m + j] = b[j]
    <3>1. \A j \in 1 .. n : m + j \in 1 .. m + n /\ ~(m + j <= m) /\ (m + j) - m = j
      BY <1>3
    <3>2. QED BY <1>3, <3>1
  <2>3. ASSUME NEW j \in 1 .. m + n, j \notin 1 .. m PROVE \E k \in 1 .. n : j = m + k
    <3>1. j - m \in 1 .. n /\ j = m + (j - m)
      BY <1>3, <2>3
    <3>2. QED BY <3>1
  <2>4. QED BY <1>3, <2>1, <2>2, <2>3 DEF Joined, m, n
<1>5. QED BY <1>1, <1>2, <1>4 DEF c

LEMMA MoreInOrder ==
    ASSUME NEW a, InOrder(a), NEW b, InOrder(b), NEW c, Joined(c, a, b),
           Len(a) \in Nat, Len(b) \in Nat, Len(c) = Len(a) + Len(b), NEW x \in Nat,
           \A j \in 1 .. Len(a) : Begin[a[j]] \in Nat /\ Begin[a[j]] >= x,
           \A j \in 1 .. Len(b) : Begin[b[j]] \in Nat /\ Begin[b[j]] < x
    PROVE  InOrder(c)
<1> SUFFICES ASSUME NEW j \in 1 .. Len(c), NEW k \in 1 .. Len(c), j < k
             PROVE  c[j] # c[k] /\ Begin[c[j]] >= Begin[c[k]]
  BY DEF InOrder
<1>1. CASE j \in 1 .. Len(a) /\ k \in 1 .. Len(a)
  BY <1>1 DEF Joined, InOrder
<1>2. ASSUME j \in 1 .. Len(a), NEW l \in 1 .. Len(b), k = Len(a) + l
      PROVE  c[j] # c[k] /\ Begin[c[j]] >= Begin[c[k]]
  <2>1. c[j] = a[j] /\ c[k] = b[l]
    BY <1>2 DEF Joined
  <2>2. Begin[a[j]] > Begin[b[l]] /\ Begin[a[j]] \in Nat /\ Begin[b[l]] \in Nat
    BY <1>2
  <2>3. QED BY <2>1, <2>2
<1>3. ASSUME NEW m \in 1 .. Len(b), j = Len(a) + m, NEW l \in 1 .. Len(b), k = Len(a) + l
      PROVE  c[j] # c[k] /\ Begin[c[j]] >= Begin[c[k]]
  <2>1. c[j] = b[m] /\ c[k] = b[l]
    BY <1>3 DEF Joined
  <2>2. m < l
    BY <1>3
  <2>3. QED BY <2>1, <2>2 DEF InOrder
<1>4. ~(j \notin 1 .. Len(a) /\ k \in 1 .. Len(a))
  OBVIOUS
<1>5. (j \in 1 .. Len(a) \/ \E l \in 1 .. Len(b) : j = Len(a) + l) /\ (k \in 1 .. Len(a) \/ \E l \in 1 .. Len(b) : k = Len(a) + l)
  BY DEF Joined
<1>6. QED BY <1>1, <1>2, <1>3, <1>4, <1>5

LEMMA MoreShown ==
    ASSUME NEW q, SeqInv(q), NEW p, NEW st, NEW fl, NEW t, ListingInv(q, p, st, fl, t),
           NEW i \in 1 .. Len(q), AsksMore(q[i], p), q[i].state = "answered",
           NEW n, n.mount = p.mount, n.filter = p.filter, n.rows = p.rows \o q[i].rows,
           n.cursor = q[i].next, n.base = p.base, n.of = p.of, n.known = p.known,
           n.from = q[i].from, n.cut = (p.cut \/ q[i].cut),
           n.spliced = (p.spliced \/ q[i].base # p.base \/ q[i].filter # p.of)
    PROVE  ListingInv([q EXCEPT ![i] = Done], n, st, fl, t)
<1> DEFINE u == [q EXCEPT ![i] = Done]
           r == q[i]
<1>1. /\ Len(u) = Len(q) /\ Len(q) \in Nat /\ u[i] = Done
      /\ \A j \in 1 .. Len(q) : j # i => u[j] = q[j]
  BY UpdateFacts, DoneFacts
<1> HIDE DEF u
<1>2. ShownInv(q, p, st, fl, t) /\ MoreInv(q, p) /\ RequestsInv(q, p, st, fl, t) /\ t \in Nat
  BY DEF ListingInv
<1>3. OpenInv(r, p, t) /\ AnswerInv(r, st, fl) /\ r.filter.range \in Nat /\ r # Done /\ r.kind = "more"
  BY <1>2, FiltersAssumption DEF RequestsInv, OpenInv, AsksMore
<1>4. RequestsInv(u, n, st, fl, t)
  BY <1>1, <1>2 DEF RequestsInv, OpenInv
<1>5. \A j \in 1 .. Len(q) : q[j] = Done => u[j] = Done
  BY <1>1
<1>6. MoreInv(u, n)
  <2>1. \A j \in 1 .. Len(q) : u[j] # Done => u[j] = q[j] /\ j # i
    BY <1>1
  <2>2. \A j \in 1 .. Len(q) : ~AsksMore(u[j], n)
    BY <1>2, <2>1 DEF AsksMore, MoreInv
  <2>3. \A j \in 1 .. Len(q) : u[j] # Done /\ u[j].kind = "more" =>
            u[j].cursor # NoCursor /\ u[j].base \in 1 .. Len(q) /\ u[u[j].base] = Done
    BY <1>2, <1>5, <2>1 DEF MoreInv
  <2>4. QED BY <1>1, <2>2, <2>3 DEF MoreInv, Continues
<1>7. /\ p.rows \in Seq(Spans) /\ r.rows \in Seq(Spans) /\ RowsInv(r.rows, r.next) /\ r.next \in Nat
      /\ p.base # 0
  BY <1>2, <1>3 DEF ShownInv, AnswerInv, RowsInv, MoreInv
<1> DEFINE a == p.rows
           b == r.rows
           c == n.rows
<1>8. /\ c \in Seq(Spans) /\ Joined(c, a, b)
      /\ Len(a) \in Nat /\ Len(b) \in Nat /\ Len(c) = Len(a) + Len(b)
  BY <1>7, ConcatJoins
<1>8a. (\A j \in 1 .. Len(a) : a[j] \in Spans) /\ (\A j \in 1 .. Len(b) : b[j] \in Spans)
  BY <1>7, ElementOfSeq
<1> HIDE DEF a, b, c
<1>9. ASSUME n.base # 0, ~n.spliced
      PROVE  /\ RowsInv(c, n.cursor)
             /\ n.from + n.of.range <= t
             /\ \A s \in n.known : Begin[s] < n.from \/ Found(s, c, n.cursor, n.cut)
  <2>1. r.base = p.base /\ r.filter = p.of /\ ~p.spliced /\ p.base # 0
    BY <1>9
  <2>2. ContinuesInv(r, p) /\ r.cursor = p.cursor /\ r.cursor # NoCursor
    BY <1>2, <1>3, <2>1 DEF MoreInv, Continues, ContinuesInv
  <2>3. Begin \in [Spans -> Nat \ {0}]
    BY BeginAssumption
  <2>4. \A j \in 1 .. Len(a) : Begin[a[j]] \in Nat /\ Begin[a[j]] >= r.cursor
    <3>1. \A j \in 1 .. Len(a) : r.cursor <= Begin[a[j]]
      BY <1>2, <2>1, <2>2 DEF ShownInv, RowsInv, a
    <3>2. \A j \in 1 .. Len(a) : Begin[a[j]] \in Nat
      BY <1>8a, <2>3
    <3>3. QED BY <3>1, <3>2
  <2>5. \A j \in 1 .. Len(b) : Begin[b[j]] \in Nat /\ Begin[b[j]] < r.cursor
    <3>1. \A j \in 1 .. Len(b) : Begin[b[j]] < r.cursor
      BY <1>3, <2>2 DEF AnswerInv, b
    <3>2. \A j \in 1 .. Len(b) : Begin[b[j]] \in Nat
      BY <1>8a, <2>3
    <3>3. QED BY <3>1, <3>2
  <2>6. r.cursor \in Nat
    BY <1>3 DEF OpenInv
  <2>7. InOrder(a) /\ InOrder(b)
    BY <1>2, <1>7, <2>1 DEF ShownInv, RowsInv, a, b
  <2>8. InOrder(c)
    BY <1>8, <2>4, <2>5, <2>6, <2>7, MoreInOrder
  <2>9. n.cursor # NoCursor => Len(c) # 0 /\ \A j \in 1 .. Len(c) : n.cursor <= Begin[c[j]]
    <3> SUFFICES ASSUME r.next # NoCursor
                 PROVE  Len(c) # 0 /\ \A j \in 1 .. Len(c) : r.next <= Begin[c[j]]
      OBVIOUS
    <3>1. Len(b) # 0 /\ \A k \in 1 .. Len(b) : r.next <= Begin[b[k]]
      BY <1>7 DEF RowsInv, b
    <3>2. 1 \in 1 .. Len(b) /\ Len(c) # 0
      BY <1>8, <3>1
    <3>3. r.next <= r.cursor
      BY <1>7, <2>5, <2>6, <3>1, <3>2
    <3>4. \A j \in 1 .. Len(a) : r.next <= Begin[a[j]]
      BY <1>7, <2>4, <2>6, <3>3
    <3>5. ASSUME NEW j \in 1 .. Len(c) PROVE r.next <= Begin[c[j]]
      <4>1. CASE j \in 1 .. Len(a)
        BY <1>8, <3>4, <4>1 DEF Joined
      <4>2. ASSUME NEW k \in 1 .. Len(b), j = Len(a) + k PROVE r.next <= Begin[c[j]]
        <5>1. c[j] = b[k]
          BY <1>8, <4>2 DEF Joined
        <5>2. QED BY <3>1, <5>1
      <4>3. QED BY <1>8, <4>1, <4>2 DEF Joined
    <3>6. QED BY <3>2, <3>5
  <2>10. RowsInv(c, n.cursor)
    BY <1>7, <1>8, <2>8, <2>9 DEF RowsInv
  <2>11. n.from + n.of.range <= t
    BY <1>3, <2>1 DEF OpenInv
  <2>12. ASSUME NEW s \in p.known, ~(Begin[s] < r.from)
         PROVE  Found(s, c, n.cursor, n.cut)
    <3>1. Begin[s] \in Nat /\ r.from \in Int /\ p.from \in Int /\ p.from <= r.from
      BY <1>2, <1>3, <2>1, <2>2, <2>3 DEF ShownInv, KnownInv, OpenInv, ContinuesInv
    <3>2. Found(s, a, p.cursor, p.cut)
      BY <1>2, <2>1, <2>12, <3>1 DEF ShownInv, a
    <3>3. CASE \E j \in 1 .. Len(a) : Begin[a[j]] = Begin[s]
      <4>1. PICK j \in 1 .. Len(a) : Begin[a[j]] = Begin[s]
        BY <3>3
      <4>2. j \in 1 .. Len(c) /\ c[j] = a[j]
        BY <1>8 DEF Joined
      <4>3. QED BY <4>1, <4>2 DEF Found
    <3>4. CASE p.cursor # NoCursor /\ Begin[s] < p.cursor
      <4>1. s \in r.known
        BY <2>1, <2>2, <2>12, <3>1, <3>4 DEF ContinuesInv
      <4>2. Found(s, b, r.next, r.cut)
        BY <1>3, <4>1 DEF AnswerInv, b
      <4>3. CASE \E j \in 1 .. Len(b) : Begin[b[j]] = Begin[s]
        <5>1. PICK j \in 1 .. Len(b) : Begin[b[j]] = Begin[s]
          BY <4>3
        <5>2. Len(a) + j \in 1 .. Len(c) /\ c[Len(a) + j] = b[j]
          BY <1>8 DEF Joined
        <5>3. QED BY <5>1, <5>2 DEF Found
      <4>4. QED BY <4>2, <4>3 DEF Found
    <3>5. QED BY <3>2, <3>3, <3>4 DEF Found
  <2>13. QED BY <2>10, <2>11, <2>12
<1>10. ShownInv(u, n, st, fl, t)
  <2>1. n.mount \in Nat /\ n.filter \in Filters /\ n.of \in Filters /\ n.from \in Int
    BY <1>2, <1>3 DEF ShownInv, OpenInv
  <2>2. n.base # 0 => n.base \in 1 .. Len(u) /\ u[n.base] = Done
    BY <1>1, <1>2 DEF ShownInv
  <2>3. KnownInv(n.known, n.of, t, st, fl)
    BY <1>2 DEF ShownInv
  <2>4. n.rows \in Seq(Spans) /\ n.cursor \in Nat /\ n.base # 0
    BY <1>7, <1>8 DEF c
  <2>5. QED BY <1>9, <2>1, <2>2, <2>3, <2>4 DEF ShownInv, c
<1>11. QED BY <1>2, <1>4, <1>6, <1>10 DEF ListingInv, u
-----------------------------------------------------------------------------
Listing == ListingInv(requests, page, stored, flagged, clock)

\* The page of IInv has all its fields.
LEMMA PageDomain == IInv => DOMAIN page = PageFields
BY DEF IInv, PageInv

LEMMA TimePasses ==
    ASSUME Listing, clock' \in Nat, clock <= clock', stored \subseteq stored', stored' \subseteq Spans,
           flagged \subseteq flagged'
    PROVE  ListingInv(requests, page, stored', flagged', clock')
BY ListingGrows DEF Listing

\* The writers and the clock.
LEMMA LaterFacts ==
    ASSUME Listing, Later, UNCHANGED <<stored, flagged>>
    PROVE  ListingInv(requests, page, stored', flagged', clock')
<1>1. clock \in Nat /\ stored \subseteq Spans
  BY DEF Listing, ListingInv, ShownInv, KnownInv
<1>2. clock' \in Nat /\ clock <= clock'
  BY <1>1, ClockAssumption DEF Later
<1>3. QED BY <1>1, <1>2, TimePasses

LEMMA StoreListing == \A s \in Spans : Listing /\ (Store(s) \/ Flag(s)) => Listing'
<1> SUFFICES ASSUME NEW s \in Spans, Listing, Store(s) \/ Flag(s) PROVE Listing'
  OBVIOUS
<1>1. clock \in Nat /\ stored \subseteq Spans
  BY DEF Listing, ListingInv, ShownInv, KnownInv
<1>2. /\ clock' = clock /\ page' = page /\ requests' = requests
      /\ stored \subseteq stored' /\ stored' \subseteq Spans /\ flagged \subseteq flagged'
  BY <1>1 DEF Store, Flag
<1>3. QED BY <1>1, <1>2, TimePasses DEF Listing

LEMMA SignInListing == IInv /\ Listing /\ SignIn => Listing'
<1> SUFFICES ASSUME IInv, Listing, SignIn PROVE Listing'
  OBVIOUS
<1>1. /\ page' = Mounted(page.mount + 1, issued + 1)
      /\ requests' = Append(requests, Request("list", page', clock))
      /\ UNCHANGED <<stored, flagged, clock>>
  BY DEF SignIn, Fetch
<1>2. page.mount \in Nat /\ SeqInv(requests)
  BY DEF Listing, ListingInv, ShownInv, IInv
<1>3. Blank(page') /\ page'.mount > page.mount
  BY <1>1, <1>2 DEF Mounted, Blank
<1>4. ListingInv(requests, page', stored, flagged, clock)
  BY <1>3, PageMounted DEF Listing
<1>5. SameList(page', page')
  BY <1>3, FiltersAssumption DEF SameList, Blank
<1>6. ListingInv(requests', page', stored, flagged, clock)
  BY <1>1, <1>2, <1>4, <1>5, ListAsked
<1>7. QED BY <1>1, <1>6 DEF Listing

LEMMA ChangeFilterListing == \A f \in Filters : IInv /\ Listing /\ ChangeFilter(f) => Listing'
<1> SUFFICES ASSUME NEW f \in Filters, IInv, Listing, ChangeFilter(f) PROVE Listing'
  OBVIOUS
<1>1. /\ page' = [page EXCEPT !.filter = f, !.loading = TRUE]
      /\ requests' = Append(requests, Request("list", page', clock'))
      /\ UNCHANGED <<stored, flagged>> /\ Later
  BY DEF ChangeFilter, Fetch
<1>2. SameList(page', page) /\ page'.loadingMore = page.loadingMore
  BY <1>1, PageDomain DEF SameList, PageFields
<1>3. ListingInv(requests, page, stored', flagged', clock') /\ SeqInv(requests)
  BY <1>1, LaterFacts DEF IInv
<1>4. QED BY <1>1, <1>2, <1>3, ListAsked DEF Listing

LEMMA LoadMoreListing == IInv /\ Listing /\ LoadMore => Listing'
<1> SUFFICES ASSUME IInv, Listing, LoadMore PROVE Listing'
  OBVIOUS
<1>1. /\ page' = [page EXCEPT !.loadingMore = TRUE]
      /\ requests' = Append(requests, Request("more", page, clock'))
      /\ UNCHANGED <<stored, flagged>> /\ Later
      /\ page.cursor # NoCursor /\ ~page.loadingMore
  BY DEF LoadMore
<1>2. page.filter \in Filters
  BY DEF Listing, ListingInv, ShownInv
<1>3. SameList(page', page) /\ page'.loadingMore
  BY <1>1, <1>2, PageDomain DEF SameList, PageFields
<1>4. ListingInv(requests, page, stored', flagged', clock') /\ SeqInv(requests)
  BY <1>1, LaterFacts DEF IInv
<1>5. QED BY <1>1, <1>3, <1>4, MoreAsked DEF Listing

LEMMA ListSpansListing == \A i \in 1 .. Len(requests) : IInv /\ Listing /\ ListSpans(i) => Listing'
<1> SUFFICES ASSUME NEW i \in 1 .. Len(requests), IInv, Listing, ListSpans(i) PROVE Listing'
  OBVIOUS
<1> DEFINE r == requests[i]
           S == {s \in stored : Matches(s, r)}
           K == IF r.filter.flag THEN S \cap flagged ELSE S
           With(q, k) == [r EXCEPT !.state = "answered", !.token = NoToken, !.rows = k,
                                   !.next = NextCursor(k), !.cut = Len(q) = Limit /\ k # q, !.known = K]
<1>1. PICK q \in Pages(S) : \E k \in Kept(q, r) : requests' = [requests EXCEPT ![i] = With(q, k)]
  BY DEF ListSpans
<1>2. PICK k \in Kept(q, r) : requests' = [requests EXCEPT ![i] = With(q, k)]
  BY <1>1
<1>3. r # Done /\ DOMAIN r = RequestFields /\ r.kind \in {"list", "more"}
  BY OpenFacts DEF ListSpans
<1> DEFINE n == With(q, k)
<1>4. /\ DOMAIN n = RequestFields /\ n.state = "answered" /\ n.kind = r.kind /\ n.mount = r.mount
      /\ n.filter = r.filter /\ n.from = r.from /\ n.base = r.base /\ n.cursor = r.cursor
      /\ n.rows = k /\ n.next = NextCursor(k) /\ n.cut = (Len(q) = Limit /\ k # q) /\ n.known = K
  BY <1>3 DEF RequestFields
<1>5. RequestInv(n) /\ n # Done
  BY <1>3, <1>4 DEF RequestInv, Done
<1> HIDE DEF n
<1>6. /\ OpenInv(r, page, clock) /\ ShownInv(requests, page, stored, flagged, clock)
      /\ MoreInv(requests, page) /\ stored \subseteq Spans
  BY <1>3 DEF Listing, ListingInv, RequestsInv, ShownInv, KnownInv
<1>7. /\ RowsInv(k, NextCursor(k))
      /\ \A j \in 1 .. Len(k) : k[j] \in S
      /\ \A s \in K : Found(s, k, NextCursor(k), Len(q) = Limit /\ k # q)
  <2>1. r.cursor \in Nat /\ S \subseteq stored /\ \A s \in K : s \in S /\ (r.filter.flag => s \in flagged)
    BY <1>6 DEF OpenInv
  <2> HIDE DEF S, K
  <2>2. q \in Pages(S) /\ k \in Kept(q, r)
    BY <1>1, <1>2
  <2>3. QED BY <1>6, <2>1, <2>2, AnswerFacts
<1>8. AnswerInv(n, stored, flagged)
  <2>1. \A j \in 1 .. Len(k) : r.cursor # NoCursor => Begin[k[j]] < r.cursor
    BY <1>7 DEF Matches
  <2>2. KnownInv(K, r.filter, r.from + r.filter.range, stored, flagged)
    BY <1>6 DEF KnownInv, Matches
  <2>3. QED BY <1>4, <1>7, <2>1, <2>2 DEF AnswerInv
<1>9. Continues(n, page) => ContinuesInv(n, page)
  <2> SUFFICES ASSUME Continues(n, page) PROVE ContinuesInv(n, page)
    OBVIOUS
  <2>1. ContinuesInv(r, page)
    BY <1>3, <1>4, <1>6 DEF Continues, AsksMore, MoreInv
  <2>2. ASSUME r.filter = page.of, NEW s \in page.known, r.from <= Begin[s], Begin[s] < r.cursor
        PROVE  s \in K
    <3>1. /\ s \in stored /\ (r.filter.flag => s \in flagged) /\ r.filter.agent \in {AnyAgent, Agent[s]}
          /\ Begin[s] <= r.from + r.filter.range
      BY <1>6, <2>1, <2>2 DEF ShownInv, KnownInv, ContinuesInv
    <3>2. s \in S
      BY <2>2, <3>1 DEF Matches
    <3>3. QED BY <3>1, <3>2
  <2> HIDE DEF K
  <2>3. QED BY <1>4, <2>1, <2>2 DEF ContinuesInv
<1>10. ListingInv([requests EXCEPT ![i] = n], page, stored, flagged, clock)
  BY <1>3, <1>4, <1>5, <1>8, <1>9, RequestProceeds DEF Listing, IInv
<1>11. UNCHANGED <<stored, flagged, clock, page>> /\ requests' = [requests EXCEPT ![i] = n]
  BY <1>2 DEF ListSpans, n
<1>12. QED BY <1>10, <1>11 DEF Listing

LEMMA FailedListing ==
    ASSUME IInv, Listing, NEW i \in 1 .. Len(requests), requests[i].state # "done",
           page' = Failed(i), requests' = [requests EXCEPT ![i] = Done],
           UNCHANGED <<stored, flagged, clock>>
    PROVE  Listing'
<1>1. page.filter \in Filters /\ DOMAIN page = PageFields
  BY PageDomain DEF Listing, ListingInv, ShownInv
<1>2. requests[i] # Done /\ requests[i].kind \in {"list", "more"}
  BY OpenFacts
<1>3. SameList(page', page) /\ (page'.loadingMore = page.loadingMore \/ AsksMore(requests[i], page))
  BY <1>1, <1>2 DEF Failed, SameList, PageFields, AsksMore
<1>4. QED BY <1>3, RequestEnds DEF Listing, IInv

LEMMA SignedOutListing ==
    ASSUME IInv, Listing, NEW i \in 1 .. Len(requests),
           page' = WithoutToken, requests' = [requests EXCEPT ![i] = Done],
           UNCHANGED <<stored, flagged, clock>>
    PROVE  Listing'
<1>1. page.filter \in Filters /\ page.mount \in Nat
  BY DEF Listing, ListingInv, ShownInv
<1>2. SameList(page, page)
  BY <1>1 DEF SameList
<1>3. ListingInv(requests', page, stored', flagged', clock')
  BY <1>2, RequestEnds DEF Listing, IInv
<1>4. CASE page.token = NoToken
  BY <1>3, <1>4 DEF Listing, WithoutToken
<1>5. CASE page.token # NoToken
  <2>1. Blank(page') /\ page'.mount > page.mount
    BY <1>1, <1>5 DEF WithoutToken, SignedOut, Mounted, Blank
  <2>2. QED BY <1>3, <2>1, PageMounted DEF Listing
<1>6. QED BY <1>4, <1>5

LEMMA RefreshListing == \A i \in 1 .. Len(requests) : IInv /\ Listing /\ Refresh(i) => Listing'
<1> SUFFICES ASSUME NEW i \in 1 .. Len(requests), IInv, Listing, Refresh(i) PROVE Listing'
  OBVIOUS
<1> DEFINE Again(t) == [requests EXCEPT ![i].token = t, ![i].retried = TRUE]
           R(t) == [requests[i] EXCEPT !.token = t, !.retried = TRUE]
<1>1. requests[i] # Done /\ DOMAIN requests[i] = RequestFields /\ requests[i].kind \in {"list", "more"}
      /\ requests[i].state = "sent"
  BY OpenFacts DEF Refresh, Refused
<1>2. SeqInv(requests) /\ DOMAIN requests = 1 .. Len(requests) /\ MoreInv(requests, page)
  BY DEF IInv, SeqInv, IsSeq, Listing, ListingInv
<1>3. \A t : Again(t) = [requests EXCEPT ![i] = R(t)]
  BY <1>2
<1>4. \A t : /\ RequestInv(R(t)) /\ R(t) # Done /\ R(t).kind = requests[i].kind
             /\ R(t).mount = requests[i].mount /\ R(t).filter = requests[i].filter
             /\ R(t).from = requests[i].from /\ R(t).base = requests[i].base
             /\ R(t).cursor = requests[i].cursor /\ R(t).state = "sent"
  BY <1>1 DEF RequestInv, RequestFields, Done
<1> HIDE DEF R
<1>5. \A t : AnswerInv(R(t), stored, flagged) /\ (Continues(R(t), page) => ContinuesInv(R(t), page))
  <2>1. Continues(requests[i], page) => ContinuesInv(requests[i], page)
    BY <1>2 DEF MoreInv
  <2>2. QED BY <1>1, <1>4, <2>1 DEF AnswerInv, Continues, AsksMore, ContinuesInv
<1>6. ASSUME NEW t
      PROVE  SeqInv(Again(t)) /\ ListingInv(Again(t), page, stored, flagged, clock)
  <2>1. Again(t) = [requests EXCEPT ![i] = R(t)]
    BY <1>3
  <2> HIDE DEF Again
  <2> DEFINE r == R(t)
  <2>2. /\ RequestInv(r) /\ r # Done /\ r.kind = requests[i].kind
        /\ r.mount = requests[i].mount /\ r.filter = requests[i].filter /\ r.from = requests[i].from
        /\ r.base = requests[i].base /\ r.cursor = requests[i].cursor
        /\ AnswerInv(r, stored, flagged) /\ (Continues(r, page) => ContinuesInv(r, page))
    BY <1>4, <1>5
  <2> HIDE DEF r
  <2>3. ListingInv([requests EXCEPT ![i] = r], page, stored, flagged, clock)
    BY <1>1, <1>2, <2>2, RequestProceeds DEF Listing
  <2>4. SeqInv([requests EXCEPT ![i] = r])
    BY <1>2, <2>2, UpdateFacts
  <2>5. QED BY <2>1, <2>3, <2>4 DEF r
<1> HIDE DEF Again
<1>7. UNCHANGED <<stored, flagged, clock>> /\ page.filter \in Filters /\ page.mount \in Nat
  BY DEF Refresh, Listing, ListingInv, ShownInv
<1>8. CASE requests' = Again(page.token) /\ UNCHANGED <<issued, page>>
  BY <1>6, <1>7, <1>8 DEF Listing
<1>9. CASE page' = WithToken(issued + 1) /\ requests' = Append(Again(issued + 1), Request("list", page', clock))
  <2> DEFINE q == Again(issued + 1)
  <2>1. SeqInv(q) /\ ListingInv(q, page, stored, flagged, clock)
    BY <1>6
  <2>2. requests' = Append(q, Request("list", page', clock))
    BY <1>9
  <2> HIDE DEF q
  <2>3. CASE page.token = NoToken
    <3>1. Blank(page') /\ page'.mount > page.mount
      BY <1>7, <1>9, <2>3 DEF WithToken, Mounted, Blank
    <3>2. ListingInv(q, page', stored, flagged, clock)
      BY <2>1, <3>1, PageMounted
    <3>3. SameList(page', page')
      BY <3>1, FiltersAssumption DEF SameList, Blank
    <3>4. ListingInv(requests', page', stored, flagged, clock)
      BY <2>1, <2>2, <3>2, <3>3, ListAsked
    <3>5. QED BY <1>7, <3>4 DEF Listing
  <2>4. CASE page.token # NoToken
    <3>1. SameList(page', page) /\ page'.loadingMore = page.loadingMore
      BY <1>7, <1>9, <2>4, PageDomain DEF WithToken, SameList, PageFields
    <3>2. ListingInv(requests', page', stored, flagged, clock)
      BY <2>1, <2>2, <3>1, ListAsked
    <3>3. QED BY <1>7, <3>2 DEF Listing
  <2>5. QED BY <2>3, <2>4
<1>10. QED BY <1>8, <1>9 DEF Refresh, Again

LEMMA DeliverListing == \A i \in 1 .. Len(requests) : IInv /\ Listing /\ Deliver(i) => Listing'
<1> SUFFICES ASSUME NEW i \in 1 .. Len(requests), IInv, Listing, Deliver(i) PROVE Listing'
  OBVIOUS
<1> DEFINE r == requests[i]
<1>1. /\ r.state = "answered" /\ requests' = [requests EXCEPT ![i] = Done]
      /\ page' = IF r.mount # page.mount THEN page ELSE IF r.kind = "list" THEN ShowList(i, r) ELSE ShowMore(r)
      /\ UNCHANGED <<stored, flagged, clock>>
  BY DEF Deliver
<1>2. /\ r # Done /\ r.kind \in {"list", "more"} /\ page.filter \in Filters /\ DOMAIN page = PageFields
      /\ SeqInv(requests)
  BY <1>1, OpenFacts, PageDomain DEF Listing, ListingInv, ShownInv, IInv
<1>3. CASE r.mount # page.mount
  <2>1. SameList(page, page) /\ page' = page
    BY <1>1, <1>2, <1>3 DEF SameList
  <2>2. QED BY <1>1, <1>2, <2>1, RequestEnds DEF Listing
<1>4. CASE r.mount = page.mount /\ r.kind = "list"
  <2>1. page' = ShowList(i, r)
    BY <1>1, <1>4
  <2>2. /\ page'.mount = page.mount /\ page'.filter = page.filter /\ page'.rows = r.rows
        /\ page'.cursor = r.next /\ page'.base = i /\ page'.of = r.filter /\ page'.known = r.known
        /\ page'.from = r.from /\ page'.cut = r.cut /\ page'.loadingMore = page.loadingMore
    BY <1>2, <2>1 DEF ShowList, PageFields
  <2>3. QED BY <1>1, <1>2, <1>4, <2>2, ListShown DEF Listing
<1>5. CASE r.mount = page.mount /\ r.kind = "more"
  <2>1. page' = ShowMore(r)
    BY <1>1, <1>5
  <2>2. /\ page'.mount = page.mount /\ page'.filter = page.filter /\ page'.rows = page.rows \o r.rows
        /\ page'.cursor = r.next /\ page'.base = page.base /\ page'.of = page.of
        /\ page'.known = page.known /\ page'.from = r.from /\ page'.cut = (page.cut \/ r.cut)
        /\ page'.spliced = (page.spliced \/ r.base # page.base \/ r.filter # page.of)
    BY <1>2, <2>1 DEF ShowMore, PageFields
  <2>3. AsksMore(r, page)
    BY <1>2, <1>5 DEF AsksMore
  <2>4. QED BY <1>1, <1>2, <2>2, <2>3, MoreShown DEF Listing
<1>6. QED BY <1>2, <1>3, <1>4, <1>5

LEMMA SpecListing == Spec => []Listing
<1>1. Init => Listing
  <2> SUFFICES ASSUME Init PROVE Listing
    OBVIOUS
  <2>1. page = SignedOut /\ requests = <<>> /\ stored \subseteq Spans /\ clock \in Nat
    BY ClockAssumption DEF Init
  <2>2. Blank(page) /\ page.mount = 0
    BY <2>1 DEF SignedOut, Mounted, Blank
  <2>3. ShownInv(requests, page, stored, flagged, clock)
    BY <2>1, <2>2, FiltersAssumption DEF ShownInv, Blank, KnownInv, NoCursor
  <2>4. RequestsInv(requests, page, stored, flagged, clock) /\ MoreInv(requests, page)
    BY <2>1 DEF RequestsInv, MoreInv
  <2>5. QED BY <2>1, <2>3, <2>4 DEF Listing, ListingInv
<1>2. IInv /\ Listing /\ [Next]_vars => Listing'
  <2> SUFFICES ASSUME IInv, Listing, [Next]_vars PROVE Listing'
    OBVIOUS
  <2>1. CASE UNCHANGED <<stored, flagged, clock, page, requests>>
    BY <2>1 DEF Listing
  <2>2. ASSUME NEW i \in 1 .. Len(requests), QueryFails(i) PROVE Listing'
    BY <2>2, FailedListing DEF QueryFails
  <2>3. ASSUME NEW i \in 1 .. Len(requests), RefreshFails(i) PROVE Listing'
    BY <2>3, SignedOutListing DEF RefreshFails
  <2>4. ASSUME NEW i \in 1 .. Len(requests), RefusedAgain(i) PROVE Listing'
    <3>1. /\ requests[i].state # "done" /\ requests' = [requests EXCEPT ![i] = Done]
          /\ page' = WithoutToken \/ page' = Failed(i)
          /\ UNCHANGED <<stored, flagged, clock>>
      BY <2>4 DEF RefusedAgain
    <3>2. QED BY <3>1, FailedListing, SignedOutListing
  <2>5. CASE Expire
    BY <2>5 DEF Expire, Listing
  <2>6. CASE UNCHANGED vars
    BY <2>6 DEF vars, Listing
  <2>7. QED BY SignInListing, LoadMoreListing, ChangeFilterListing, ListSpansListing, RefreshListing,
               DeliverListing, StoreListing, <2>2, <2>3, <2>4, <2>5, <2>6
            DEF Next, User, Environment, Answer
<1>3. QED BY <1>1, <1>2, SpecIInv, PTL DEF Spec

\* A list that was paged from one request is in descending order of time_begin
\* and shows no span twice, whatever was stored meanwhile (spans.py:185).
THEOREM SpecRowsInOrder == Spec => []RowsInOrder
<1>1. Listing => RowsInOrder
  BY DEF Listing, ListingInv, ShownInv, RowsInv, InOrder, RowsInOrder, OneList
<1>2. QED BY <1>1, SpecListing, PTL

\* A span that matched when the list was asked for is shown, or is still to come,
\* or is missing for one of the three reasons the code has (page.tsx:75).
THEOREM SpecMissingSpanHasCause == Spec => []MissingSpanHasCause
<1>1. Listing => MissingSpanHasCause
  <2> SUFFICES ASSUME Listing, OneList, NEW s \in page.known
               PROVE  \/ s \in Shown
                      \/ page.cursor # NoCursor /\ Begin[s] < page.cursor
                      \/ \E t \in Shown : Begin[t] = Begin[s]
                      \/ page.cut
                      \/ Begin[s] < page.from
    BY DEF MissingSpanHasCause
  <2>1. page.rows \in Seq(Spans) /\ (Begin[s] < page.from \/ Found(s, page.rows, page.cursor, page.cut))
    BY DEF Listing, ListingInv, ShownInv, OneList
  <2>2. \A i \in 1 .. Len(page.rows) : page.rows[i] \in Shown
    <3>1. DOMAIN page.rows = 1 .. Len(page.rows)
      BY <2>1, LenProperties
    <3>2. QED BY <3>1 DEF Shown, ToSet
  <2>3. QED BY <2>1, <2>2 DEF Found
<1>2. QED BY <1>1, SpecListing, PTL
=============================================================================
