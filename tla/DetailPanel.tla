----------------------------- MODULE DetailPanel -----------------------------
(***************************************************************************)
(* The diagnosis part of the span panel (SpanDetailPanel.tsx:76-177) on    *)
(* top of the Diagnosis service.  The panel loads an existing diagnosis    *)
(* when it opens and asks for a new one on each click of Diagnose; the     *)
(* button stays enabled, so answers may arrive in any order.  Others may   *)
(* ask for a diagnosis of the same span at any time.                       *)
(***************************************************************************)
EXTENDS Diagnosis

VARIABLES
    open,          \* the FlagSection of the span is mounted
    pending,       \* its requests whose answers have not arrived
    diagLoading,
    diagResult,    \* created_at of the diagnosis on display, 0 for none
    diagError,     \* a status, "none" for no error on display
    told           \* newest created_at in the answers this mount received

panelVars == <<open, pending, diagLoading, diagResult, diagError, told>>
allVars == <<vars, panelVars>>

PanelTypeOK ==
    /\ TypeOK
    /\ open \in BOOLEAN
    /\ pending \in SUBSET Requests
    /\ diagLoading \in BOOLEAN
    /\ diagResult \in Nat
    /\ diagError \in {"none", "404", "500", "502", "503", "504"}
    /\ told \in Nat

PanelInit ==
    /\ Init
    /\ open = FALSE
    /\ pending = {}
    /\ diagLoading = FALSE
    /\ diagResult = 0
    /\ diagError = "none"
    /\ told = 0

\* useEffect on mount: loadExisting.
Open(g) ==
    /\ ~open
    /\ Send(g)
    /\ open' = TRUE
    /\ pending' = {g}
    /\ diagLoading' = TRUE
    /\ UNCHANGED <<diagResult, diagError, told>>

\* handleDiagnose
Click(p) ==
    /\ open
    /\ Send(p)
    /\ pending' = pending \union {p}
    /\ diagLoading' = TRUE
    /\ diagResult' = 0
    /\ diagError' = "none"
    /\ UNCHANGED <<open, told>>

\* Another panel, another user.
Elsewhere(p) == Send(p) /\ UNCHANGED panelVars

\* Unmount: the state is gone and `cancelled` mutes what arrives later.
Close ==
    /\ open
    /\ open' = FALSE
    /\ pending' = {}
    /\ diagLoading' = FALSE
    /\ diagResult' = 0
    /\ diagError' = "none"
    /\ told' = 0
    /\ UNCHANGED vars

\* Mutant: the errors of a click are swallowed.
RenderQuietly(r) ==
    /\ r \in pending
    /\ step[r] = "done"
    /\ pending' = pending \ {r}
    /\ told' = Newest({told, shown[r]})
    /\ diagResult' = IF status[r] = "200" THEN shown[r] ELSE diagResult
    /\ UNCHANGED <<open, diagError, vars>>

\* try and catch: only the 404 of the automatic load is no error.
Render(r) ==
    /\ r \in pending
    /\ step[r] = "done"
    /\ pending' = pending \ {r}
    /\ told' = Newest({told, shown[r]})
    /\ IF status[r] = "200"
       THEN diagResult' = shown[r] /\ UNCHANGED diagError
       ELSE /\ UNCHANGED diagResult
            /\ diagError' = IF r \in Gets /\ status[r] = "404" THEN diagError ELSE status[r]
    /\ UNCHANGED <<open, vars>>

\* Mutant: setDiagLoading(false) beside setDiagResult instead of in finally.
DeliverKeepsLoading(r) == Render(r) /\ diagLoading' = (diagLoading /\ status[r] # "200")

\* An answer arrives: Render, and finally ends the skeleton.
Deliver(r) == Render(r) /\ diagLoading' = FALSE

PanelNext ==
    \/ \E g \in Gets : Open(g)
    \/ \E p \in Posts : Click(p) \/ Elsewhere(p)
    \/ \E r \in Requests : Deliver(r)
    \/ Close
    \/ Serve /\ UNCHANGED panelVars

PanelSpec == PanelInit /\ [][PanelNext]_allVars

\* The Presenter as in Diagnosis; answers arrive.
PanelFairness ==
    /\ \A p \in Posts : WF_allVars(Guard(p) /\ UNCHANGED panelVars)
    /\ \A p \in Posts : WF_allVars(TimesOut(p) /\ UNCHANGED panelVars)
    /\ \A r \in Requests : WF_allVars(Read(r) /\ UNCHANGED panelVars)
    /\ \A r \in Requests : WF_allVars(Deliver(r))

FairPanelSpec == PanelSpec /\ PanelFairness

-----------------------------------------------------------------------------
(* Properties *)

\* A panel with nothing pending that was ever told of a diagnosis shows one
\* or says why not: a failed click never leaves it blank.
SettledPanelIsDecided ==
    open /\ pending = {} /\ told > 0 => diagResult > 0 \/ diagError # "none"

\* The skeleton goes away, whatever happens to the requests.
LoadingEnds == diagLoading ~> ~diagLoading

=============================================================================
