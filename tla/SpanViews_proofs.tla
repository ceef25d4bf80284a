-------------------------- MODULE SpanViews_proofs --------------------------
(***************************************************************************)
(* What the Presenter answers, the panel shows and a client finds that     *)
(* pages through the traces, for any spans, traces and number of requests. *)
(*                                                                         *)
(* IInv has what a request has read and noted.  WalkInv is about the pages *)
(* of traces: as long as no trace moves down, one that was not seen has as *)
(* many traces before it as the client has paged past, or more.            *)
(***************************************************************************)
EXTENDS SpanViews, SequenceTheorems, FiniteSetTheorems, WellFoundedInduction, TLAPS

\* A flag of its own comes after a score, and both after the row; a trace is
\* flagged for a span that has been handled.
StoreInv ==
    /\ rows \subseteq Spans /\ handled \subseteq rows
    /\ scores \subseteq rows /\ flags \subseteq scores
    /\ \A t \in traceFlags : SpansOf(t) \cap rows # {}
    /\ DOMAIN worker = DOMAIN Idle
    /\ worker.step # "idle" => worker.span \in rows

RequestFields == {"kind", "asked", "rowsRead", "rows", "step", "flags", "traceFlagged", "scores", "was"}

\* What an open request has read.
ReadInv(r, F, S, T) ==
    /\ DOMAIN r = RequestFields
    /\ r.kind \in {"trace", "list", "detail"}
    /\ r.asked \subseteq Spans /\ r.rows \subseteq r.asked
    /\ r.flags \subseteq F \cap r.asked
    /\ r.kind = "trace" => \A s \in r.asked : SpansOf(TraceOf[s]) \subseteq r.asked
    /\ r.traceFlagged => \E s \in r.asked : TraceOf[s] \in T
    /\ DOMAIN r.was = r.asked

\* The statuses noted for it: the one of now; "flagged" for a flag it has read;
\* "clean" for one it has missed; and, once the scores are read, the one it
\* will give.
WasInv(r, F, S) ==
    \A s \in r.asked :
        /\ StatusOf(s, F, S) \in r.was[s]
        /\ s \in r.flags => "flagged" \in r.was[s]
        /\ r.step = "flags" /\ s \in F \ r.flags => "clean" \in r.was[s]
        /\ r.step = "scores" => StatusOf(s, r.flags, r.scores) \in r.was[s]

RequestInv(r, F, S, T) == r.kind # "done" => ReadInv(r, F, S, T) /\ WasInv(r, F, S)

IsSeq(q) == Len(q) \in Nat /\ q = [i \in 1 .. Len(q) |-> q[i]]

RequestsInv ==
    /\ IsSeq(requests)
    /\ \A i \in 1 .. Len(requests) : RequestInv(requests[i], flags, scores, traceFlags)

\* The last request is the one for the selection, open or answered; one that
\* was answered is shown, or was answered before an older one was.
LastSent == requests[Len(requests)]
PanelInv ==
    /\ DOMAIN panel = DOMAIN ClosedPanel
    /\ panel.by \in Nat /\ panel.newest \in Nat
    /\ panel.by <= panel.newest /\ panel.newest <= Len(requests)
    /\ panel.selected # None =>
          /\ Len(requests) > 0
          /\ \/ LastSent.kind = "detail" /\ LastSent.asked = {panel.selected} /\ panel.by < Len(requests)
             \/ /\ LastSent.kind = "done" /\ panel.newest = Len(requests)
                /\ panel.by = Len(requests) => panel.shown = panel.selected

IInv == StoreInv /\ RequestsInv /\ PanelInv
-----------------------------------------------------------------------------
LEMMA NextCases ==
    ASSUME [Next]_vars
    PROVE  \/ \E s \in Spans : Store(s) \/ Fetch(s) \/ Select(s)
           \/ WriteScores \/ WriteFlags \/ \E t \in Traces : FlagTrace(t) \/ AskTrace(t)
           \/ AskList \/ ClosePanel \/ StartWalk \/ WalkPage
           \/ \E i \in 1 .. MaxRequests : \/ ReadRows(i) \/ ReadFlags(i) \/ ReadScores(i)
                                          \/ Answer(i) \/ Show(i) \/ ShowError(i)
           \/ UNCHANGED vars
BY DEF Next, Worker, Readers, Presenter

\* A function on 1 .. n is a sequence of length n.
LEMMA SeqFacts ==
    ASSUME NEW n \in Nat, NEW f, f = [i \in 1 .. n |-> f[i]]
    PROVE  Len(f) = n /\ IsSeq(f)
<1> DEFINE S == {f[i] : i \in 1 .. n}
<1>1. f \in [1 .. n -> S]
  OBVIOUS
<1>2. f \in Seq(S)
  BY <1>1
<1>3. Len(f) = n
  BY <1>1, <1>2, LenProperties
<1>4. QED BY <1>3 DEF IsSeq

LEMMA AppendFacts ==
    ASSUME NEW q, IsSeq(q), NEW e
    PROVE  /\ IsSeq(Append(q, e)) /\ Len(Append(q, e)) = Len(q) + 1
           /\ Append(q, e)[Len(q) + 1] = e
           /\ \A i \in 1 .. Len(q) : Append(q, e)[i] = q[i]
<1> DEFINE S == {q[i] : i \in 1 .. Len(q)} \cup {e}
<1>1. q \in Seq(S) /\ e \in S
  <2>1. q \in [1 .. Len(q) -> S] /\ Len(q) \in Nat
    BY DEF IsSeq
  <2>2. QED BY <2>1
<1>2. Append(q, e) \in Seq(S) /\ Len(Append(q, e)) = Len(q) + 1
  BY <1>1, AppendProperties
<1>3. IsSeq(Append(q, e))
  <2>1. Append(q, e) \in [1 .. Len(Append(q, e)) -> S]
    BY <1>2, LenProperties
  <2>2. Len(Append(q, e)) \in Nat
    BY <1>2, LenProperties
  <2>3. QED BY <2>1, <2>2 DEF IsSeq
<1>4. /\ Append(q, e)[Len(q) + 1] = e
      /\ \A i \in 1 .. Len(q) : Append(q, e)[i] = q[i]
  BY <1>1, AppendProperties
<1>5. QED BY <1>2, <1>3, <1>4

LEMMA StoreInvStep == StoreInv /\ [Next]_vars =>
    /\ StoreInv' /\ rows \subseteq rows' /\ flags \subseteq flags' /\ scores \subseteq scores'
    /\ traceFlags \subseteq traceFlags'
<1> SUFFICES ASSUME StoreInv, [Next]_vars
             PROVE  /\ StoreInv' /\ rows \subseteq rows' /\ flags \subseteq flags'
                    /\ scores \subseteq scores' /\ traceFlags \subseteq traceFlags'
  OBVIOUS
<1>1. CASE \E s \in Spans : Store(s)
  BY <1>1 DEF StoreInv, Store
<1>2. CASE \E s \in Spans : Fetch(s)
  BY <1>2 DEF StoreInv, Fetch, Idle, stores
<1>3. CASE WriteScores
  BY <1>3 DEF StoreInv, WriteScores, Idle
<1>4. CASE WriteFlags
  BY <1>4 DEF StoreInv, WriteFlags, Idle
<1>5. CASE \E t \in Traces : FlagTrace(t)
  BY <1>5 DEF StoreInv, FlagTrace
<1>6. CASE UNCHANGED <<stores, worker, handled>>
  BY <1>6 DEF StoreInv, stores
<1>7. \/ UNCHANGED <<stores, worker, handled>>
      \/ \E s \in Spans : Store(s) \/ Fetch(s)
      \/ WriteScores \/ WriteFlags
      \/ \E t \in Traces : FlagTrace(t)
  BY NextCases DEF Select, AskTrace, AskList, ClosePanel, StartWalk, WalkPage, ReadRows, ReadFlags,
                   ReadScores, Answer, Show, ShowError, vars, stores
<1>8. QED BY <1>1, <1>2, <1>3, <1>4, <1>5, <1>6, <1>7

\* A new request has read nothing, and the status of now is noted.
LEMMA NewRequest ==
    ASSUME NEW kind \in {"trace", "list", "detail"}, NEW S \in SUBSET Spans,
           kind = "trace" => \A s \in S : SpansOf(TraceOf[s]) \subseteq S
    PROVE  /\ RequestInv(Request(kind, S), flags, scores, traceFlags)
           /\ Request(kind, S).kind = kind /\ Request(kind, S).asked = S
BY DEF RequestInv, ReadInv, WasInv, Request, RequestFields

\* The note of a span whose flag or score is written.  The status it had before
\* is there already: a span that is flagged was clean.
LEMMA NotedFacts ==
    ASSUME RequestsInv, StoreInv, NEW s, NEW F, NEW S,
           flags \subseteq F, F \subseteq flags \cup ({s} \cap scores),
           scores \subseteq S, S \subseteq scores \cup {s}
    PROVE  /\ IsSeq(Noted(s, F, S)) /\ Len(Noted(s, F, S)) = Len(requests)
           /\ \A i \in 1 .. Len(requests) :
                  /\ RequestInv(Noted(s, F, S)[i], F, S, traceFlags)
                  /\ Noted(s, F, S)[i].kind = requests[i].kind
                  /\ requests[i].kind # "done" => Noted(s, F, S)[i].asked = requests[i].asked
<1> DEFINE N == Noted(s, F, S)
<1>1. IsSeq(requests) /\ Len(requests) \in Nat /\ DOMAIN requests = 1 .. Len(requests)
  BY DEF RequestsInv, IsSeq
<1>2. N = [i \in 1 .. Len(requests) |-> N[i]]
  BY <1>1 DEF Noted
<1>3. IsSeq(N) /\ Len(N) = Len(requests)
  BY <1>1, <1>2, SeqFacts
<1>4. ASSUME NEW i \in 1 .. Len(requests)
      PROVE  /\ RequestInv(N[i], F, S, traceFlags)
             /\ N[i].kind = requests[i].kind
             /\ requests[i].kind # "done" => N[i].asked = requests[i].asked
  <2> DEFINE r == requests[i]
  <2>1. RequestInv(r, flags, scores, traceFlags)
    BY DEF RequestsInv
  <2>2. \A q \in Spans : q # s => StatusOf(q, F, S) = StatusOf(q, flags, scores)
    BY DEF StatusOf
  <2>3. CASE r.kind = "done"
    <3>1. N[i] = r
      BY <1>1, <2>3 DEF Noted
    <3>2. QED BY <2>3, <3>1 DEF RequestInv
  <2>4. CASE r.kind # "done" /\ s \notin r.asked
    <3>1. N[i] = r
      BY <1>1, <2>4 DEF Noted
    <3>2. ReadInv(r, flags, scores, traceFlags) /\ WasInv(r, flags, scores)
      BY <2>1, <2>4 DEF RequestInv
    <3>3. ReadInv(r, F, S, traceFlags)
      BY <3>2 DEF ReadInv
    <3>4. WasInv(r, F, S)
      BY <2>2, <2>4, <3>2 DEF WasInv, ReadInv
    <3>5. QED BY <3>1, <3>3, <3>4 DEF RequestInv
  <2>5. CASE r.kind # "done" /\ s \in r.asked
    <3>1. ReadInv(r, flags, scores, traceFlags) /\ WasInv(r, flags, scores)
      BY <2>1, <2>5 DEF RequestInv
    <3>2. N[i] = [r EXCEPT !.was[s] = @ \cup {StatusOf(s, F, S)}]
      BY <1>1, <2>5 DEF Noted
    <3>3. /\ DOMAIN N[i] = DOMAIN r
          /\ N[i].kind = r.kind /\ N[i].asked = r.asked /\ N[i].rows = r.rows
          /\ N[i].step = r.step /\ N[i].flags = r.flags /\ N[i].scores = r.scores
          /\ N[i].traceFlagged = r.traceFlagged
          /\ N[i].was = [r.was EXCEPT ![s] = @ \cup {StatusOf(s, F, S)}]
      BY <3>1, <3>2 DEF ReadInv, RequestFields
    <3> HIDE DEF N, r
    <3>4. ReadInv(N[i], F, S, traceFlags)
      BY <3>1, <3>3 DEF ReadInv
    <3>5. /\ \A q \in r.asked : r.was[q] \subseteq N[i].was[q]
          /\ StatusOf(s, F, S) \in N[i].was[s]
      BY <2>5, <3>1, <3>3 DEF ReadInv
    <3>6. s \in F \ flags => "clean" \in r.was[s]
      <4>1. s \in F \ flags => s \in scores \ flags
        OBVIOUS
      <4>2. s \in scores \ flags => StatusOf(s, flags, scores) = "clean"
        BY DEF StatusOf
      <4>3. StatusOf(s, flags, scores) \in r.was[s]
        BY <2>5, <3>1 DEF WasInv
      <4>4. QED BY <4>1, <4>2, <4>3
    <3>7. ASSUME NEW q \in r.asked
          PROVE  /\ StatusOf(q, F, S) \in N[i].was[q]
                 /\ q \in r.flags => "flagged" \in N[i].was[q]
                 /\ r.step = "flags" /\ q \in F \ r.flags => "clean" \in N[i].was[q]
                 /\ r.step = "scores" => StatusOf(q, r.flags, r.scores) \in N[i].was[q]
      <4>1. q \in Spans
        BY <3>1 DEF ReadInv
      <4>2. StatusOf(q, F, S) \in N[i].was[q]
        BY <2>2, <3>1, <3>5, <4>1 DEF WasInv
      <4>3. r.step = "flags" /\ q \in F \ r.flags => "clean" \in r.was[q]
        BY <3>1, <3>6 DEF WasInv
      <4>4. QED BY <3>1, <3>5, <4>2, <4>3 DEF WasInv
    <3>8. WasInv(N[i], F, S)
      BY <3>3, <3>7 DEF WasInv
    <3>9. QED BY <3>3, <3>4, <3>8 DEF RequestInv, N, r
  <2>6. QED BY <2>3, <2>4, <2>5
<1>5. QED BY <1>3, <1>4

\* A request that takes a step of its own; the other requests are as they were.
LEMMA UpdateFacts ==
    ASSUME RequestsInv, NEW i \in 1 .. Len(requests), NEW r,
           RequestInv(r, flags, scores, traceFlags),
           requests' = [requests EXCEPT ![i] = r], UNCHANGED <<flags, scores, traceFlags>>
    PROVE  /\ RequestsInv' /\ Len(requests') = Len(requests) /\ requests'[i] = r
           /\ \A j \in 1 .. Len(requests) : j # i => requests'[j] = requests[j]
<1>1. IsSeq(requests) /\ Len(requests) \in Nat /\ DOMAIN requests = 1 .. Len(requests)
  BY DEF RequestsInv, IsSeq
<1>2. requests' = [j \in 1 .. Len(requests) |-> requests'[j]]
  BY <1>1
<1>3. IsSeq(requests') /\ Len(requests') = Len(requests)
  BY <1>1, <1>2, SeqFacts
<1>4. requests'[i] = r /\ \A j \in 1 .. Len(requests) : j # i => requests'[j] = requests[j]
  BY <1>1
<1>5. \A j \in 1 .. Len(requests') : RequestInv(requests'[j], flags', scores', traceFlags')
  BY <1>3, <1>4 DEF RequestsInv
<1>6. RequestsInv'
  <2>1. IsSeq(requests)'
    BY <1>3 DEF IsSeq
  <2>2. (\A j \in 1 .. Len(requests) : RequestInv(requests[j], flags, scores, traceFlags))'
    BY <1>5
  <2>3. QED BY <2>1, <2>2 DEF RequestsInv
<1>7. QED BY <1>3, <1>4, <1>6

\* The queries of request i, as steps of that request alone.
LEMMA ReadFacts ==
    ASSUME IInv, NEW i \in 1 .. MaxRequests, ReadRows(i) \/ ReadFlags(i) \/ ReadScores(i)
    PROVE  /\ i \in 1 .. Len(requests) /\ requests[i].kind # "done"
           /\ requests' = [requests EXCEPT ![i] = requests'[i]]
           /\ RequestInv(requests'[i], flags, scores, traceFlags)
           /\ requests'[i].kind = requests[i].kind /\ requests'[i].asked = requests[i].asked
<1> DEFINE r == requests[i]
<1>1. /\ i \in 1 .. Len(requests) /\ DOMAIN requests = 1 .. Len(requests) /\ r.kind # "done"
  BY DEF IInv, RequestsInv, IsSeq, ReadRows, ReadFlags, ReadScores, Open
<1>2. ReadInv(r, flags, scores, traceFlags) /\ WasInv(r, flags, scores)
  BY <1>1 DEF IInv, RequestsInv, RequestInv
<1>3. CASE ReadRows(i)
  <2>1. requests' = [requests EXCEPT ![i] = [r EXCEPT !.rowsRead = TRUE, !.rows = rows \cap r.asked]]
    BY <1>1, <1>2, <1>3 DEF ReadRows, ReadInv, RequestFields
  <2> DEFINE n == [r EXCEPT !.rowsRead = TRUE, !.rows = rows \cap r.asked]
  <2>2. /\ DOMAIN n = RequestFields /\ n.kind = r.kind /\ n.asked = r.asked /\ n.rows \subseteq r.asked
        /\ n.step = r.step /\ n.flags = r.flags /\ n.traceFlagged = r.traceFlagged
        /\ n.scores = r.scores /\ n.was = r.was
    BY <1>2 DEF ReadInv, RequestFields
  <2> HIDE DEF n
  <2>3. RequestInv(n, flags, scores, traceFlags)
    BY <1>2, <2>2 DEF RequestInv, ReadInv, WasInv
  <2>4. requests'[i] = n
    BY <1>1, <2>1 DEF n
  <2>5. QED BY <1>1, <2>1, <2>2, <2>3, <2>4 DEF n
<1>4. CASE ReadFlags(i)
  <2> DEFINE n == [r EXCEPT !.step = "flags", !.flags = flags \cap r.asked,
                            !.traceFlagged = \E s \in r.asked : TraceOf[s] \in traceFlags]
  <2>1. requests' = [requests EXCEPT ![i] = n]
    BY <1>4 DEF ReadFlags
  <2>2. /\ DOMAIN n = RequestFields /\ n.kind = r.kind /\ n.asked = r.asked /\ n.rows = r.rows
        /\ n.step = "flags" /\ n.flags = flags \cap r.asked
        /\ n.traceFlagged = \E s \in r.asked : TraceOf[s] \in traceFlags
        /\ n.scores = r.scores /\ n.was = r.was
    BY <1>2 DEF ReadInv, RequestFields
  <2> HIDE DEF n
  <2>3. ReadInv(n, flags, scores, traceFlags)
    BY <1>2, <2>2 DEF ReadInv
  <2>4. WasInv(n, flags, scores)
    BY <1>2, <2>2 DEF WasInv, StatusOf
  <2>5. requests'[i] = n
    BY <1>1, <2>1
  <2>6. QED BY <1>1, <2>1, <2>2, <2>3, <2>4, <2>5 DEF RequestInv
<1>5. CASE ReadScores(i)
  <2> DEFINE n == [r EXCEPT !.step = "scores", !.scores = scores \cap r.asked]
  <2>1. requests' = [requests EXCEPT ![i] = n] /\ r.step = "flags"
    BY <1>5 DEF ReadScores
  <2>2. /\ DOMAIN n = RequestFields /\ n.kind = r.kind /\ n.asked = r.asked /\ n.rows = r.rows
        /\ n.step = "scores" /\ n.flags = r.flags /\ n.traceFlagged = r.traceFlagged
        /\ n.scores = scores \cap r.asked /\ n.was = r.was
    BY <1>2 DEF ReadInv, RequestFields
  <2> HIDE DEF n
  <2>3. ReadInv(n, flags, scores, traceFlags)
    BY <1>2, <2>2 DEF ReadInv
  <2>4. flags \subseteq scores
    BY DEF IInv, StoreInv
  <2>5. ASSUME NEW s \in r.asked
        PROVE  StatusOf(s, r.flags, n.scores) \in r.was[s]
    <3>1. CASE s \in r.flags
      BY <1>2, <3>1 DEF WasInv, StatusOf
    <3>2. CASE s \in flags \ r.flags
      BY <1>2, <2>1, <2>2, <2>4, <3>2 DEF WasInv, StatusOf
    <3>3. CASE s \notin flags
      BY <1>2, <2>2, <3>3 DEF WasInv, ReadInv, StatusOf
    <3>4. QED BY <3>1, <3>2, <3>3
  <2>6. WasInv(n, flags, scores)
    BY <1>2, <2>2, <2>5 DEF WasInv
  <2>7. requests'[i] = n
    BY <1>1, <2>1
  <2>8. QED BY <1>1, <2>1, <2>2, <2>3, <2>6, <2>7 DEF RequestInv
<1>6. QED BY <1>3, <1>4, <1>5

\* A request that ends.
LEMMA DoneFacts ==
    ASSUME IInv, NEW i \in 1 .. MaxRequests, Answer(i) \/ Show(i) \/ ShowError(i)
    PROVE  /\ i \in 1 .. Len(requests) /\ requests[i].kind # "done"
           /\ requests' = [requests EXCEPT ![i] = Done]
           /\ RequestInv(Done, flags, scores, traceFlags)
BY DEF IInv, RequestsInv, IsSeq, Answer, Show, ShowError, Complete, Open, Done, RequestInv

LEMMA RequestsInvStep == IInv /\ [Next]_vars => RequestsInv'
<1> SUFFICES ASSUME IInv, [Next]_vars PROVE RequestsInv'
  OBVIOUS
<1>0. StoreInv /\ RequestsInv /\ IsSeq(requests) /\ Len(requests) \in Nat
  BY DEF IInv, RequestsInv, IsSeq
<1>1. CASE UNCHANGED <<requests, flags, scores, traceFlags>>
  BY <1>0, <1>1 DEF RequestsInv, IsSeq
<1>2. CASE \E t \in Traces : FlagTrace(t)
  <2>1. UNCHANGED <<requests, flags, scores>> /\ traceFlags \subseteq traceFlags'
    BY <1>2 DEF FlagTrace
  <2>2. \A i \in 1 .. Len(requests) : RequestInv(requests[i], flags, scores, traceFlags')
    BY <1>0, <2>1 DEF RequestsInv, RequestInv, ReadInv
  <2>3. QED BY <1>0, <2>1, <2>2 DEF RequestsInv, IsSeq
<1>3. CASE WriteScores \/ WriteFlags
  <2> DEFINE s == worker.span
             N == Noted(s, flags', scores')
  <2>1. /\ requests' = N /\ UNCHANGED traceFlags
        /\ flags \subseteq flags' /\ flags' \subseteq flags \cup ({s} \cap scores)
        /\ scores \subseteq scores' /\ scores' \subseteq scores \cup {s}
    BY <1>3 DEF WriteScores, WriteFlags
  <2>2. /\ IsSeq(N) /\ Len(N) = Len(requests)
        /\ \A i \in 1 .. Len(requests) : RequestInv(N[i], flags', scores', traceFlags)
    BY <1>0, <2>1, NotedFacts
  <2> HIDE DEF N
  <2>3. \A i \in 1 .. Len(requests') : RequestInv(requests'[i], flags', scores', traceFlags')
    BY <2>1, <2>2
  <2>4. IsSeq(requests)'
    BY <2>1, <2>2 DEF IsSeq
  <2>5. QED BY <2>3, <2>4 DEF RequestsInv
<1>4. CASE \/ \E s \in Spans : Select(s)
           \/ \E t \in Traces : AskTrace(t)
           \/ AskList
  <2>1. PICK kind \in {"trace", "list", "detail"}, S \in SUBSET Spans :
            /\ requests' = Append(requests, Request(kind, S))
            /\ kind = "trace" => \A s \in S : SpansOf(TraceOf[s]) \subseteq S
            /\ UNCHANGED <<flags, scores, traceFlags>>
    <3> HIDE DEF Request
    <3>1. CASE \E s \in Spans : Select(s)
      BY <3>1 DEF Select, Send, stores
    <3>2. CASE AskList
      BY <3>2 DEF AskList, Send, stores
    <3>3. CASE \E t \in Traces : AskTrace(t)
      <4>1. PICK t \in Traces : AskTrace(t)
        BY <3>3
      <4>2. /\ SpansOf(t) \in SUBSET Spans
            /\ \A s \in SpansOf(t) : SpansOf(TraceOf[s]) \subseteq SpansOf(t)
        BY DEF SpansOf
      <4>3. requests' = Append(requests, Request("trace", SpansOf(t)))
            /\ UNCHANGED <<flags, scores, traceFlags>>
        BY <4>1 DEF AskTrace, Send, stores
      <4>4. QED BY <4>2, <4>3
    <3>4. QED BY <1>4, <3>1, <3>2, <3>3
  <2> DEFINE r == Request(kind, S)
  <2>2. RequestInv(r, flags, scores, traceFlags)
    BY <2>1, NewRequest
  <2> HIDE DEF r
  <2>3. /\ IsSeq(requests') /\ Len(requests') = Len(requests) + 1
        /\ requests'[Len(requests) + 1] = r
        /\ \A i \in 1 .. Len(requests) : requests'[i] = requests[i]
    BY <1>0, <2>1, AppendFacts DEF r
  <2>4. \A i \in 1 .. Len(requests') : RequestInv(requests'[i], flags', scores', traceFlags')
    BY <1>0, <2>1, <2>2, <2>3 DEF RequestsInv
  <2>5. IsSeq(requests)'
    BY <2>3 DEF IsSeq
  <2>6. QED BY <2>4, <2>5 DEF RequestsInv
<1>5. CASE \E i \in 1 .. MaxRequests : ReadRows(i) \/ ReadFlags(i) \/ ReadScores(i)
  <2>1. PICK i \in 1 .. MaxRequests : ReadRows(i) \/ ReadFlags(i) \/ ReadScores(i)
    BY <1>5
  <2>2. UNCHANGED <<flags, scores, traceFlags>>
    BY <2>1 DEF ReadRows, ReadFlags, ReadScores, stores
  <2>3. QED BY <1>0, <2>1, <2>2, ReadFacts, UpdateFacts
<1>6. CASE \E i \in 1 .. MaxRequests : Answer(i) \/ Show(i) \/ ShowError(i)
  <2>1. PICK i \in 1 .. MaxRequests : Answer(i) \/ Show(i) \/ ShowError(i)
    BY <1>6
  <2>2. UNCHANGED <<flags, scores, traceFlags>>
    BY <2>1 DEF Answer, Show, ShowError, stores
  <2>3. QED BY <1>0, <2>1, <2>2, DoneFacts, UpdateFacts
<1>7. \/ UNCHANGED <<requests, flags, scores, traceFlags>>
      \/ \E t \in Traces : FlagTrace(t)
      \/ WriteScores \/ WriteFlags
      \/ \E s \in Spans : Select(s)
      \/ \E t \in Traces : AskTrace(t)
      \/ AskList
      \/ \E i \in 1 .. MaxRequests : ReadRows(i) \/ ReadFlags(i) \/ ReadScores(i)
      \/ \E i \in 1 .. MaxRequests : Answer(i) \/ Show(i) \/ ShowError(i)
  BY NextCases DEF Store, Fetch, ClosePanel, StartWalk, WalkPage, vars, stores
<1>8. QED BY <1>1, <1>2, <1>3, <1>4, <1>5, <1>6, <1>7

LEMMA MaxOfTwo == ASSUME NEW m \in Nat, NEW n \in Nat PROVE Max({m, n}) = IF m <= n THEN n ELSE m
<1>1. \E x \in {m, n} : \A y \in {m, n} : x >= y
  OBVIOUS
<1>2. Max({m, n}) \in {m, n} /\ \A y \in {m, n} : Max({m, n}) >= y
  BY <1>1 DEF Max
<1>3. QED BY <1>2

LEMMA PanelInvStep == IInv /\ [Next]_vars => PanelInv'
<1> SUFFICES ASSUME IInv, [Next]_vars PROVE PanelInv'
  OBVIOUS
<1>0. /\ StoreInv /\ RequestsInv /\ PanelInv
      /\ IsSeq(requests) /\ Len(requests) \in Nat
  BY DEF IInv, RequestsInv, IsSeq
<1>1. CASE UNCHANGED <<requests, panel>>
  BY <1>0, <1>1 DEF PanelInv, LastSent
<1>2. CASE WriteScores \/ WriteFlags
  <2> DEFINE s == worker.span
             N == Noted(s, flags', scores')
  <2>1. /\ requests' = N /\ UNCHANGED <<traceFlags, panel>>
        /\ flags \subseteq flags' /\ flags' \subseteq flags \cup ({s} \cap scores)
        /\ scores \subseteq scores' /\ scores' \subseteq scores \cup {s}
    BY <1>2 DEF WriteScores, WriteFlags
  <2>2. /\ Len(N) = Len(requests)
        /\ \A i \in 1 .. Len(requests) :
               /\ N[i].kind = requests[i].kind
               /\ requests[i].kind # "done" => N[i].asked = requests[i].asked
    BY <1>0, <2>1, NotedFacts
  <2> HIDE DEF N
  <2>3. QED BY <1>0, <2>1, <2>2 DEF PanelInv, LastSent
<1>3. CASE (\E t \in Traces : AskTrace(t)) \/ AskList
  <2>1. UNCHANGED panel /\ requests = <<>> /\ \E r : requests' = Append(requests, r)
    BY <1>3 DEF AskTrace, AskList, Alone, Send
  <2>2. Len(requests) = 0 /\ Len(requests') = 1
    BY <1>0, <2>1, AppendFacts
  <2>3. QED BY <1>0, <2>1, <2>2 DEF PanelInv
<1>4. CASE \E s \in Spans : Select(s)
  <2>1. PICK s \in Spans : Select(s)
    BY <1>4
  <2> DEFINE r == Request("detail", {s})
  <2>2. /\ requests' = Append(requests, r) /\ panel'.selected = s
        /\ DOMAIN panel' = DOMAIN panel /\ panel'.by = panel.by /\ panel'.newest = panel.newest
    BY <1>0, <2>1 DEF Select, Send, PanelInv, ClosedPanel
  <2>3. r.kind = "detail" /\ r.asked = {s}
    BY DEF Request
  <2> HIDE DEF r
  <2>4. Len(requests') = Len(requests) + 1 /\ requests'[Len(requests) + 1] = r
    BY <1>0, <2>2, AppendFacts
  <2>5. QED BY <1>0, <2>2, <2>3, <2>4 DEF PanelInv, LastSent
<1>5. CASE ClosePanel
  BY <1>0, <1>5 DEF ClosePanel, PanelInv, ClosedPanel
<1>6. CASE \E i \in 1 .. MaxRequests : ReadRows(i) \/ ReadFlags(i) \/ ReadScores(i)
  <2>1. PICK i \in 1 .. MaxRequests : ReadRows(i) \/ ReadFlags(i) \/ ReadScores(i)
    BY <1>6
  <2>2. UNCHANGED <<flags, scores, traceFlags, panel>>
    BY <2>1 DEF ReadRows, ReadFlags, ReadScores, stores
  <2>3. /\ Len(requests') = Len(requests)
        /\ \A j \in 1 .. Len(requests) : requests'[j].kind = requests[j].kind
                                         /\ requests'[j].asked = requests[j].asked
    BY <1>0, <2>1, <2>2, ReadFacts, UpdateFacts
  <2>4. QED BY <1>0, <2>2, <2>3 DEF PanelInv, LastSent
<1>7. CASE \E i \in 1 .. MaxRequests : Answer(i) \/ Show(i) \/ ShowError(i)
  <2>1. PICK i \in 1 .. MaxRequests : Answer(i) \/ Show(i) \/ ShowError(i)
    BY <1>7
  <2>2. UNCHANGED <<flags, scores, traceFlags>>
    BY <2>1 DEF Answer, Show, ShowError, stores
  <2>3. /\ i \in 1 .. Len(requests) /\ requests[i].kind # "done"
        /\ Len(requests') = Len(requests) /\ requests'[i] = Done
        /\ \A j \in 1 .. Len(requests) : j # i => requests'[j] = requests[j]
    BY <1>0, <2>1, <2>2, DoneFacts, UpdateFacts
  <2>4. Done.kind = "done"
    BY DEF Done
  <2>5. CASE Answer(i)
    BY <1>0, <2>3, <2>5 DEF Answer, PanelInv, LastSent
  <2>6. CASE Show(i) \/ ShowError(i)
    <3>1. /\ DOMAIN panel' = DOMAIN panel /\ panel'.selected = panel.selected
          /\ panel'.newest = Max({panel.newest, i})
          /\ panel'.by = panel.by \/ (panel'.by = i /\ panel'.shown = CHOOSE s \in requests[i].asked : TRUE)
          /\ panel'.by = panel.by => panel'.shown = panel.shown \/ panel'.by = i
          /\ panel'.by # i => panel'.by = panel.by
      BY <1>0, <2>6 DEF Show, ShowError, PanelInv, ClosedPanel
    <3>2. panel'.newest = IF panel.newest <= i THEN i ELSE panel.newest
      BY <1>0, <2>3, <3>1, MaxOfTwo DEF PanelInv
    <3>3. CASE panel.selected = None
      BY <1>0, <2>3, <3>1, <3>2, <3>3 DEF PanelInv
    <3>4. CASE panel.selected # None /\ i = Len(requests)
      <4>1. LastSent = requests[i] /\ requests[i].asked = {panel.selected} /\ panel.by < i
        BY <1>0, <2>3, <3>4 DEF PanelInv, LastSent
      <4>2. panel'.by = i => panel'.shown = panel.selected
        BY <3>1, <4>1
      <4>3. LastSent'.kind = "done" /\ panel'.newest = Len(requests')
        BY <1>0, <2>3, <2>4, <3>2, <3>4 DEF PanelInv, LastSent
      <4>4. QED BY <1>0, <2>3, <3>1, <3>2, <3>4, <4>1, <4>2, <4>3 DEF PanelInv
    <3>5. CASE panel.selected # None /\ i # Len(requests)
      <4>1. LastSent' = LastSent
        BY <1>0, <2>3, <3>5 DEF LastSent
      <4>2. panel'.by # i => panel'.by = panel.by
        BY <3>1
      <4>3. panel'.by = Len(requests) => panel'.shown = panel.shown
        BY <3>1, <3>5
      <4>4. QED BY <1>0, <2>3, <3>1, <3>2, <3>5, <4>1, <4>2, <4>3 DEF PanelInv
    <3>6. QED BY <3>3, <3>4, <3>5
  <2>7. QED BY <2>1, <2>5, <2>6
<1>8. \/ UNCHANGED <<requests, panel>>
      \/ WriteScores \/ WriteFlags \/ ClosePanel \/ AskList
      \/ \E s \in Spans : Select(s)
      \/ \E t \in Traces : AskTrace(t)
      \/ \E i \in 1 .. MaxRequests : ReadRows(i) \/ ReadFlags(i) \/ ReadScores(i)
      \/ \E i \in 1 .. MaxRequests : Answer(i) \/ Show(i) \/ ShowError(i)
  BY NextCases DEF Store, Fetch, FlagTrace, StartWalk, WalkPage, vars
<1>9. QED BY <1>1, <1>2, <1>3, <1>4, <1>5, <1>6, <1>7, <1>8
-----------------------------------------------------------------------------
LEMMA IInvInductive == Spec => []IInv
<1>1. Init => IInv
  <2> SUFFICES ASSUME Init PROVE IInv
    OBVIOUS
  <2>1. StoreInv
    BY DEF Init, StoreInv, Idle
  <2>2. requests = <<>> /\ Len(requests) = 0
    BY DEF Init
  <2>3. RequestsInv
    BY <2>2 DEF RequestsInv, IsSeq
  <2>4. PanelInv
    BY <2>2 DEF Init, PanelInv, ClosedPanel
  <2>5. QED BY <2>1, <2>3, <2>4 DEF IInv
<1>2. IInv /\ [Next]_vars => IInv'
  BY StoreInvStep, RequestsInvStep, PanelInvStep DEF IInv
<1>3. QED BY <1>1, <1>2, PTL DEF Spec

\* A status that is given was true at some moment of the request, whatever the
\* worker wrote between its queries.
THEOREM SpecStatusWasTrue == Spec => []StatusWasTrue
<1>1. IInv => StatusWasTrue
  <2> SUFFICES ASSUME IInv, NEW r \in Range(requests), Complete(r), r.kind # "trace",
                      NEW s \in r.rows
               PROVE  StatusOf(s, r.flags, r.scores) \in r.was[s]
    BY DEF StatusWasTrue
  <2>1. PICK i \in 1 .. Len(requests) : r = requests[i]
    BY DEF IInv, RequestsInv, IsSeq, Range
  <2>2. ReadInv(r, flags, scores, traceFlags) /\ WasInv(r, flags, scores)
    BY <2>1 DEF IInv, RequestsInv, RequestInv, Complete
  <2>3. s \in r.asked /\ r.step = "scores"
    BY <2>2 DEF ReadInv, Complete
  <2>4. QED BY <2>2, <2>3 DEF WasInv
<1>2. QED BY <1>1, IInvInductive, PTL

\* "No spans yet" is never the truth of the moment.
THEOREM SpecSpanlessTraceIsOutdated == Spec => []SpanlessTraceIsOutdated
<1>1. IInv => SpanlessTraceIsOutdated
  <2> SUFFICES ASSUME IInv, NEW r \in Range(requests), SpanlessTrace(r)
               PROVE  rows \cap r.asked # {}
    BY DEF SpanlessTraceIsOutdated
  <2>1. PICK i \in 1 .. Len(requests) : r = requests[i]
    BY DEF IInv, RequestsInv, IsSeq, Range
  <2>2. r.kind = "trace" /\ (r.flags # {} \/ r.traceFlagged)
    BY DEF SpanlessTrace, Answered
  <2>3. ReadInv(r, flags, scores, traceFlags)
    BY <2>1, <2>2 DEF IInv, RequestsInv, RequestInv
  <2>4. CASE r.flags # {}
    BY <2>3, <2>4 DEF ReadInv, IInv, StoreInv
  <2>5. CASE r.traceFlagged
    <3>1. PICK s \in r.asked : TraceOf[s] \in traceFlags /\ SpansOf(TraceOf[s]) \subseteq r.asked
      BY <2>2, <2>3, <2>5 DEF ReadInv
    <3>2. SpansOf(TraceOf[s]) \cap rows # {}
      BY <3>1 DEF IInv, StoreInv
    <3>3. QED BY <3>1, <3>2
  <2>6. QED BY <2>2, <2>4, <2>5
<1>2. QED BY <1>1, IInvInductive, PTL

\* At rest the panel shows what is selected, or an older answer came last.
THEOREM SpecPanelShowsSelection == Spec => []PanelShowsSelection
<1>1. IInv => PanelShowsSelection
  <2> SUFFICES ASSUME IInv, \A r \in Range(requests) : r.kind # "detail",
                      panel.selected # None, ~(panel.by < panel.newest)
               PROVE  panel.shown = panel.selected
    BY DEF PanelShowsSelection
  <2>1. Len(requests) > 0 => LastSent \in Range(requests)
    BY DEF IInv, RequestsInv, IsSeq, Range, LastSent
  <2>2. QED BY <2>1 DEF IInv, PanelInv
<1>2. QED BY <1>1, IInvInductive, PTL

-----------------------------------------------------------------------------
(* Pages of traces *)

\* What the list of traces looks like over the rows R.
ListedIn(R) == {t \in Traces : SpansOf(t) \cap R # {}}
StartIn(R, t) == Min({Begin[s] : s \in R \cap SpansOf(t)})
BeforeIn(R, t) == {u \in ListedIn(R) : StartIn(R, u) > StartIn(R, t)}
TiedIn(R, t) == \E s \in R : TraceOf[s] # t /\ Begin[s] = StartIn(R, t)

\* Where a trace stands that the client has not seen.
Waiting(w, R, t) == t \in w.seen \/ TiedIn(R, t) \/ Cardinality(BeforeIn(R, t)) >= w.offset

WalkInv(w, R) ==
    /\ DOMAIN w = DOMAIN Resting
    /\ w.offset \in Nat
    /\ w.there \subseteq ListedIn(R)
    /\ w.state = "walking" /\ ~w.moved => \A t \in w.there : Waiting(w, R, t)
    /\ w.state = "ended" /\ ~w.moved => \A t \in w.there : t \in w.seen \/ TiedIn(R, t)

LEMMA MinIsLeast ==
    ASSUME NEW S \in SUBSET Nat, S # {}
    PROVE  Min(S) \in S /\ \A n \in S : Min(S) <= n
<1>1. \E m \in S : \A n \in S : ~(<<n, m>> \in OpToRel(<, Nat))
  BY NatLessThanWellFounded, WFMin
<1>2. PICK m \in S : \A n \in S : ~(<<n, m>> \in OpToRel(<, Nat))
  BY <1>1
<1>3. \A a, b \in Nat : a < b => <<a, b>> \in OpToRel(<, Nat)
  BY Zenon DEF OpToRel
<1>4. \A n \in S : ~(n < m)
  BY <1>2, <1>3, Zenon
<1>5. \A n \in S : m <= n
  BY <1>4
<1>6. QED BY <1>5, Zenon DEF Min

LEMMA StartIsLeast ==
    ASSUME NEW R \in SUBSET Spans, NEW t \in ListedIn(R)
    PROVE  /\ StartIn(R, t) \in Nat
           /\ \E s \in R : TraceOf[s] = t /\ Begin[s] = StartIn(R, t)
           /\ \A s \in R : TraceOf[s] = t => StartIn(R, t) <= Begin[s]
<1> DEFINE S == {Begin[s] : s \in R \cap SpansOf(t)}
<1>1. S \in SUBSET Nat /\ S # {}
  BY BeginAssumption DEF ListedIn, SpansOf
<1>2. StartIn(R, t) \in S /\ \A n \in S : StartIn(R, t) <= n
  BY <1>1, MinIsLeast DEF StartIn
<1>3. QED BY <1>1, <1>2 DEF SpansOf

LEMMA TracesAreFinite == IsFiniteSet(Traces)
<1> DEFINE f == [s \in Spans |-> TraceOf[s]]
<1>1. f \in Surjection(Spans, Traces)
  BY DEF Surjection, Traces
<1>2. QED BY <1>1, FS_Surjection, BeginAssumption

LEMMA BeforeIsFinite ==
    ASSUME NEW R, NEW t
    PROVE  IsFiniteSet(BeforeIn(R, t)) /\ Cardinality(BeforeIn(R, t)) \in Nat
<1>1. BeforeIn(R, t) \in SUBSET Traces
  BY DEF BeforeIn, ListedIn
<1>2. QED BY <1>1, TracesAreFinite, FS_Subset, FS_CardinalityType

LEMMA Counted ==
    ASSUME NEW k \in Nat, NEW S, NEW f, f \in Injection(1 .. k, S), f \in Surjection(1 .. k, S)
    PROVE  Cardinality(S) = k
<1>1. Cardinality(1 .. k) = IF 1 > k THEN 0 ELSE k - 1 + 1
  BY FS_Interval
<1>2. IsFiniteSet(1 .. k) /\ Cardinality(1 .. k) = k
  BY <1>1, FS_Interval
<1>3. QED BY <1>2, FS_Surjection

\* A trace that began alone is in its place: behind those that began later.
LEMMA PlaceInList ==
    ASSUME NEW R \in SUBSET Spans, NEW t \in ListedIn(R), ~TiedIn(R, t),
           NEW q \in SetToSeqs(ListedIn(R)),
           \A i, j \in DOMAIN q : i < j => StartIn(R, q[i]) >= StartIn(R, q[j])
    PROVE  /\ Len(q) \in Nat /\ DOMAIN q = 1 .. Len(q)
           /\ Cardinality(BeforeIn(R, t)) < Len(q)
           /\ q[Cardinality(BeforeIn(R, t)) + 1] = t
<1> DEFINE T == ListedIn(R)
           n == Cardinality(T)
           B == BeforeIn(R, t)
<1>1. IsFiniteSet(T) /\ n \in Nat
  <2>1. T \in SUBSET Traces
    BY DEF ListedIn
  <2>2. QED BY <2>1, TracesAreFinite, FS_Subset, FS_CardinalityType
<1>2. q \in [1 .. n -> T] /\ \A i, j \in 1 .. n : i # j => q[i] # q[j]
  BY DEF SetToSeqs
<1>3. Len(q) = n /\ DOMAIN q = 1 .. n
  <2>1. q \in Seq(T)
    BY <1>1, <1>2
  <2>2. QED BY <1>1, <1>2, <2>1, LenProperties
<1>4. PICK i \in 1 .. n : q[i] = t
  <2>1. q \in Injection(1 .. n, T)
    BY <1>2 DEF Injection, IsInjective
  <2>2. IsFiniteSet(1 .. n) /\ Cardinality(1 .. n) = n
    BY <1>1, FS_Interval
  <2>3. q \in Surjection(1 .. n, T)
    BY <1>1, <2>1, <2>2, FS_Injection
  <2>4. QED BY <2>3 DEF Surjection
<1>5. \A u \in T : StartIn(R, u) \in Nat /\ (u # t => StartIn(R, u) # StartIn(R, t))
  BY StartIsLeast DEF TiedIn
<1>6. \A j \in 1 .. i - 1 : q[j] \in B
  <2> SUFFICES ASSUME NEW j \in 1 .. i - 1 PROVE q[j] \in B
    OBVIOUS
  <2>1. j \in 1 .. n /\ j < i /\ q[j] \in T /\ q[j] # t
    BY <1>1, <1>2, <1>4
  <2>2. StartIn(R, q[j]) >= StartIn(R, t)
    BY <1>3, <1>4, <2>1
  <2>3. StartIn(R, q[j]) > StartIn(R, t)
    BY <1>5, <2>1, <2>2
  <2>4. QED BY <2>1, <2>3 DEF BeforeIn
<1>7. \A u \in B : \E j \in 1 .. i - 1 : q[j] = u
  <2> SUFFICES ASSUME NEW u \in B PROVE \E j \in 1 .. i - 1 : q[j] = u
    OBVIOUS
  <2>1. u \in T /\ StartIn(R, u) > StartIn(R, t)
    BY DEF BeforeIn
  <2>2. PICK j \in 1 .. n : q[j] = u
    <3>1. q \in Injection(1 .. n, T)
      BY <1>2 DEF Injection, IsInjective
    <3>2. IsFiniteSet(1 .. n) /\ Cardinality(1 .. n) = n
      BY <1>1, FS_Interval
    <3>3. q \in Surjection(1 .. n, T)
      BY <1>1, <3>1, <3>2, FS_Injection
    <3>4. QED BY <2>1, <3>3 DEF Surjection
  <2>3. ~(i < j)
    <3>1. i < j => StartIn(R, t) >= StartIn(R, u)
      BY <1>3, <1>4, <2>2
    <3>2. QED BY <1>5, <2>1, <3>1
  <2>4. i # j
    BY <1>4, <1>5, <2>1, <2>2
  <2>5. QED BY <1>1, <1>4, <2>2, <2>3, <2>4
<1>8. Cardinality(B) = i - 1
  <2> DEFINE f == [j \in 1 .. i - 1 |-> q[j]]
  <2>1. f \in [1 .. i - 1 -> B]
    BY <1>6
  <2>2. \A j, k \in 1 .. i - 1 : f[j] = f[k] => j = k
    <3>1. \A j \in 1 .. i - 1 : j \in 1 .. n
      BY <1>1, <1>4
    <3>2. QED BY <1>2, <3>1
  <2>3. f \in Injection(1 .. i - 1, B) /\ f \in Surjection(1 .. i - 1, B)
    BY <1>7, <2>1, <2>2 DEF Injection, IsInjective, Surjection
  <2>4. i - 1 \in Nat
    BY <1>1, <1>4
  <2> HIDE DEF f, B
  <2>5. QED BY <2>3, <2>4, Counted
<1>9. QED BY <1>1, <1>3, <1>4, <1>8

\* A slice of a sequence holds every place from m to e.
LEMMA SliceShows ==
    ASSUME NEW S, NEW q, NEW n \in Nat, \A i \in 1 .. n : q[i] \in S,
           NEW m \in Nat \ {0}, NEW e \in Nat, m <= e, e <= n
    PROVE  /\ SubSeq(q, m, e) # <<>>
           /\ \A i \in m .. e : q[i] \in ToSet(SubSeq(q, m, e))
<1>1. \A i \in m .. e : q[i] \in S
  BY SMT
<1> DEFINE page == SubSeq(q, m, e)
<1>2. page \in Seq(S) /\ Len(page) = (IF m <= e THEN e - m + 1 ELSE 0)
  BY <1>1, SubSeqProperties
<1>3. \A i \in 1 .. e - m + 1 : page[i] = q[m + i - 1]
  BY <1>1, SubSeqProperties
<1>4. DOMAIN page = 1 .. Len(page)
  BY <1>2, LenProperties
<1> HIDE DEF page
<1>5. Len(page) > 0
  BY <1>2
<1>6. page # <<>>
  <2> SUFFICES ASSUME page = <<>> PROVE FALSE
    OBVIOUS
  <2>1. Len(<<>>) = 0
    BY EmptySeq
  <2>2. QED BY <1>5, <2>1
<1>7. ASSUME NEW i \in m .. e PROVE q[i] \in ToSet(page)
  <2>1. i - m + 1 \in 1 .. e - m + 1 /\ m + (i - m + 1) - 1 = i
    BY <1>7
  <2>2. page[i - m + 1] = q[i]
    BY <1>3, <2>1
  <2>3. i - m + 1 \in DOMAIN page
    BY <1>2, <1>4, <2>1
  <2>4. QED BY <2>2, <2>3 DEF ToSet
<1>8. QED BY <1>6, <1>7 DEF page

\* What a page shows of a list: the places past the offset.
LEMMA PageShows ==
    ASSUME NEW S, NEW q \in Seq(S), NEW o \in Nat, NEW p \in 1 .. Len(q), o < p
    PROVE  LET page == SubSeq(q, o + 1, Min({o + Limit, Len(q)}))
           IN  page # <<>> /\ (p <= o + Limit => q[p] \in ToSet(page))
<1> DEFINE n == Len(q)
           m == o + 1
           e == Min({o + Limit, n})
<1>1. n \in Nat /\ \A i \in 1 .. n : q[i] \in S
  BY LenProperties, ElementOfSeq
<1>2. p \in Nat /\ p <= n
  BY <1>1
<1> HIDE DEF n
<1>3. {o + Limit, n} \in SUBSET Nat /\ {o + Limit, n} # {}
  BY <1>1, LimitAssumption
<1>4. e \in {o + Limit, n} /\ \A k \in {o + Limit, n} : e <= k
  BY <1>3, MinIsLeast
<1> HIDE DEF e
<1>5. m \in Nat \ {0} /\ e \in Nat /\ m <= e /\ e <= n
  BY <1>1, <1>2, <1>4, LimitAssumption
<1>6. p <= o + Limit => p \in m .. e
  BY <1>1, <1>2, <1>4, LimitAssumption
<1> HIDE DEF m
<1>7. SubSeq(q, m, e) # <<>> /\ \A i \in m .. e : q[i] \in ToSet(SubSeq(q, m, e))
  BY <1>1, <1>5, SliceShows
<1>8. QED BY <1>6, <1>7 DEF m, e, n

\* A span that does not begin before its trace leaves every trace in place.
LEMMA StoreKeepsPlaces ==
    ASSUME NEW R \in SUBSET Spans, NEW s \in Spans, NEW Q, Q = R \cup {s},
           TraceOf[s] \in ListedIn(R) => Begin[s] >= StartIn(R, TraceOf[s]),
           NEW t \in ListedIn(R)
    PROVE  /\ TiedIn(R, t) => TiedIn(Q, t)
           /\ Cardinality(BeforeIn(R, t)) <= Cardinality(BeforeIn(Q, t))
<1>1. Q \in SUBSET Spans /\ ListedIn(R) \subseteq ListedIn(Q)
  BY DEF ListedIn
<1>2. ASSUME NEW u \in ListedIn(R) PROVE StartIn(Q, u) = StartIn(R, u)
  <2>1. u \in ListedIn(Q)
    BY <1>1, <1>2
  <2>2. /\ StartIn(R, u) \in Nat /\ StartIn(Q, u) \in Nat
        /\ \E v \in Q : TraceOf[v] = u /\ Begin[v] = StartIn(Q, u)
        /\ \A v \in R : TraceOf[v] = u => StartIn(R, u) <= Begin[v]
        /\ \E v \in R : TraceOf[v] = u /\ Begin[v] = StartIn(R, u)
        /\ \A v \in Q : TraceOf[v] = u => StartIn(Q, u) <= Begin[v]
    BY <1>1, <1>2, <2>1, StartIsLeast
  <2>3. StartIn(Q, u) <= StartIn(R, u)
    BY <2>2
  <2>4. PICK v \in Q : TraceOf[v] = u /\ Begin[v] = StartIn(Q, u)
    BY <2>2
  <2>5. StartIn(R, u) <= Begin[v]
    BY <1>2, <2>2, <2>4, BeginAssumption
  <2>6. QED BY <2>2, <2>3, <2>4, <2>5
<1>3. TiedIn(R, t) => TiedIn(Q, t)
  BY <1>1, <1>2 DEF TiedIn
<1>4. BeforeIn(R, t) \in SUBSET BeforeIn(Q, t)
  BY <1>1, <1>2 DEF BeforeIn
<1>5. QED BY <1>3, <1>4, BeforeIsFinite, FS_Subset

\* The model's words for it.
LEMMA NowListed ==
    /\ Listed = ListedIn(rows)
    /\ \A t : StartTime(t) = StartIn(rows, t)
    /\ \A t : BeganWith(t) <=> TiedIn(rows, t)
BY DEF Listed, ListedIn, StartTime, StartIn, BeganWith, TiedIn

LEMMA WalkStore ==
    ASSUME StoreInv, WalkInv(walk, rows), NEW s \in Spans, Store(s)
    PROVE  WalkInv(walk, rows)'
<1>1. rows \in SUBSET Spans /\ rows' = rows \cup {s}
  BY DEF StoreInv, Store
<1>2. ListedIn(rows) \subseteq ListedIn(rows \cup {s})
  BY DEF ListedIn
<1>3. CASE walk = Resting
  <2>1. walk' = walk
    BY <1>3 DEF Store
  <2>2. QED BY <1>1, <1>2, <1>3, <2>1 DEF WalkInv, Resting
<1>4. CASE walk # Resting
  <2>1. /\ walk' = [walk EXCEPT !.moved = walk.moved \/ Moves(s)]
        /\ DOMAIN walk = DOMAIN Resting
    BY <1>4 DEF Store, WalkInv
  <2>2. /\ DOMAIN walk' = DOMAIN Resting /\ walk'.moved = (walk.moved \/ Moves(s))
        /\ walk'.offset = walk.offset /\ walk'.seen = walk.seen /\ walk'.there = walk.there
        /\ walk'.state = walk.state
    BY <2>1 DEF Resting
  <2>3. CASE walk.moved \/ Moves(s)
    BY <1>1, <1>2, <2>2, <2>3 DEF WalkInv
  <2>4. CASE ~walk.moved /\ ~Moves(s)
    <3>1. TraceOf[s] \in ListedIn(rows) => ~(Begin[s] < StartIn(rows, TraceOf[s]))
      BY <2>4, NowListed DEF Moves
    <3>2. TraceOf[s] \in ListedIn(rows) => Begin[s] >= StartIn(rows, TraceOf[s])
      BY <1>1, <3>1, StartIsLeast, BeginAssumption
    <3>3. \A t \in ListedIn(rows) :
              /\ TiedIn(rows, t) => TiedIn(rows', t)
              /\ Cardinality(BeforeIn(rows, t)) <= Cardinality(BeforeIn(rows', t))
      BY <1>1, <3>2, StoreKeepsPlaces
    <3>4. \A t \in walk.there : Waiting(walk, rows, t) => Waiting(walk', rows', t)
      <4> SUFFICES ASSUME NEW t \in walk.there, Waiting(walk, rows, t) PROVE Waiting(walk', rows', t)
        OBVIOUS
      <4>1. t \in ListedIn(rows) /\ walk.offset \in Nat
        BY DEF WalkInv
      <4>2. Cardinality(BeforeIn(rows, t)) \in Nat /\ Cardinality(BeforeIn(rows', t)) \in Nat
        BY BeforeIsFinite
      <4>3. QED BY <2>2, <3>3, <4>1, <4>2 DEF Waiting
    <3>5. QED BY <1>1, <1>2, <2>2, <2>4, <3>3, <3>4 DEF WalkInv
  <2>5. QED BY <2>3, <2>4
<1>5. QED BY <1>3, <1>4

LEMMA WalkTurnsPage ==
    ASSUME StoreInv, WalkInv(walk, rows), WalkPage
    PROVE  WalkInv(walk, rows)'
<1>1. rows \in SUBSET Spans /\ rows' = rows /\ walk.offset \in Nat /\ Limit \in Nat
  BY LimitAssumption DEF StoreInv, WalkPage, WalkInv, stores
<1>2. PICK page \in TracePages(walk.offset) :
          walk' = [walk EXCEPT !.offset = walk.offset + Limit, !.seen = walk.seen \cup ToSet(page),
                               !.state = IF page = <<>> THEN "ended" ELSE walk.state]
  BY DEF WalkPage
<1>3. /\ DOMAIN walk' = DOMAIN Resting /\ walk'.moved = walk.moved /\ walk'.there = walk.there
      /\ walk'.offset = walk.offset + Limit /\ walk'.seen = walk.seen \cup ToSet(page)
      /\ walk'.state = IF page = <<>> THEN "ended" ELSE "walking"
  BY <1>2 DEF WalkInv, Resting, WalkPage
<1>4. PICK q \in SetToSeqs(Listed) :
          /\ \A i, j \in DOMAIN q : i < j => StartTime(q[i]) >= StartTime(q[j])
          /\ page = SubSeq(q, walk.offset + 1, Min({walk.offset + Limit, Len(q)}))
  BY <1>2 DEF TracePages
<1>5. q \in SetToSeqs(ListedIn(rows)) /\ q \in Seq(ListedIn(rows))
  <2>1. q \in SetToSeqs(ListedIn(rows))
    BY <1>4, NowListed
  <2>2. q \in [1 .. Cardinality(ListedIn(rows)) -> ListedIn(rows)]
    BY <2>1 DEF SetToSeqs
  <2>3. Cardinality(ListedIn(rows)) \in Nat
    <3>1. ListedIn(rows) \in SUBSET Traces
      BY DEF ListedIn
    <3>2. QED BY <3>1, TracesAreFinite, FS_Subset, FS_CardinalityType
  <2>4. QED BY <2>1, <2>2, <2>3
<1>6. \A i, j \in DOMAIN q : i < j => StartIn(rows, q[i]) >= StartIn(rows, q[j])
  BY <1>4, NowListed
<1>7. ASSUME NEW t \in walk.there, Waiting(walk, rows, t)
      PROVE  \/ t \in walk'.seen \/ TiedIn(rows, t)
             \/ page # <<>> /\ Cardinality(BeforeIn(rows, t)) >= walk.offset + Limit
  <2> SUFFICES ASSUME t \notin walk.seen, ~TiedIn(rows, t)
               PROVE  \/ t \in ToSet(page)
                      \/ page # <<>> /\ Cardinality(BeforeIn(rows, t)) >= walk.offset + Limit
    BY <1>3
  <2> DEFINE c == Cardinality(BeforeIn(rows, t))
  <2>1. c \in Nat /\ c >= walk.offset
    BY <1>7, BeforeIsFinite DEF Waiting
  <2>2. Len(q) \in Nat /\ c < Len(q) /\ q[c + 1] = t
    <3>1. t \in ListedIn(rows)
      BY <1>7 DEF WalkInv
    <3>2. QED BY <1>1, <1>5, <1>6, <3>1, PlaceInList
  <2> HIDE DEF c
  <2>3. c + 1 \in 1 .. Len(q) /\ walk.offset < c + 1
    BY <1>1, <2>1, <2>2
  <2>4. page # <<>> /\ (c + 1 <= walk.offset + Limit => q[c + 1] \in ToSet(page))
    BY <1>1, <1>4, <1>5, <2>3, PageShows
  <2>5. c + 1 <= walk.offset + Limit \/ c >= walk.offset + Limit
    BY <1>1, <2>1
  <2>6. QED BY <2>2, <2>4, <2>5 DEF c
<1>8. walk.state = "walking"
  BY DEF WalkPage
<1>9. ~walk'.moved => \A t \in walk'.there : Waiting(walk, rows, t)
  BY <1>3, <1>8 DEF WalkInv
<1>10. walk'.state = "walking" /\ ~walk'.moved => \A t \in walk'.there : Waiting(walk', rows', t)
  BY <1>1, <1>3, <1>7, <1>9 DEF Waiting
<1>11. walk'.state = "ended" /\ ~walk'.moved => \A t \in walk'.there : t \in walk'.seen \/ TiedIn(rows', t)
  BY <1>1, <1>3, <1>7, <1>9
<1>12. QED BY <1>1, <1>3, <1>10, <1>11 DEF WalkInv

LEMMA WalkInvStep == StoreInv /\ WalkInv(walk, rows) /\ [Next]_vars => WalkInv(walk, rows)'
<1> SUFFICES ASSUME StoreInv, WalkInv(walk, rows), [Next]_vars PROVE WalkInv(walk, rows)'
  OBVIOUS
<1>1. CASE \E s \in Spans : Store(s)
  BY <1>1, WalkStore
<1>2. CASE WalkPage
  BY <1>2, WalkTurnsPage
<1>3. CASE StartWalk
  <2>1. /\ rows' = rows /\ DOMAIN walk' = DOMAIN Resting /\ walk'.there = ListedIn(rows)
        /\ walk'.offset = 0 /\ walk'.state = "walking"
    BY <1>3, NowListed DEF StartWalk, Resting, stores
  <2>2. \A t : Waiting(walk', rows', t)
    BY <2>1, BeforeIsFinite DEF Waiting
  <2>3. QED BY <2>1, <2>2 DEF WalkInv
<1>4. CASE UNCHANGED <<rows, walk>>
  BY <1>4 DEF WalkInv
<1>5. \/ UNCHANGED <<rows, walk>> \/ StartWalk \/ WalkPage \/ \E s \in Spans : Store(s)
  BY NextCases DEF Fetch, WriteScores, WriteFlags, FlagTrace, AskTrace, AskList, Select, ClosePanel,
                   ReadRows, ReadFlags, ReadScores, Answer, Show, ShowError, vars, stores
<1>6. QED BY <1>1, <1>2, <1>3, <1>4, <1>5

\* Paging to the end by offset misses a trace that was there at the start only
\* where a late span moved one down, or where another began at the same time.
THEOREM SpecMissedTraceMeansLateSpan == Spec => []MissedTraceMeansLateSpan
<1>1. Init => WalkInv(walk, rows)
  BY DEF Init, WalkInv, Resting
<1>2. IInv /\ WalkInv(walk, rows) /\ [Next]_vars => WalkInv(walk, rows)'
  BY WalkInvStep DEF IInv
<1>3. WalkInv(walk, rows) => MissedTraceMeansLateSpan
  BY NowListed DEF WalkInv, MissedTraceMeansLateSpan
<1>4. QED BY <1>1, <1>2, <1>3, IInvInductive, PTL DEF Spec
=============================================================================
