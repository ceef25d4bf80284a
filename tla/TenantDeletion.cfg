SPECIFICATION Spec
CONSTANTS
    Clients = {c1, c2}
    EmailOf <- MCEmailOf
    Tenant = c1
    Spans = {1, 2}
    PageSize = 1
    Analysable = {1}
    Diagnosable = {2}
    MaxRuns = 2
INVARIANTS
    AccountsAreWhole
    EmailHasOneOwner
    LeftoverWasInFlight
CHECK_DEADLOCK FALSE
