SPECIFICATION FairPanelSpec
CONSTANTS
    Posts = {p1, p2}
    Gets = {g1}
CHECK_DEADLOCK FALSE
INVARIANTS
    PostShowsOwnOrNewer
    ReadsNeverGoBack
    OneRowPerPost
    SettledPanelIsDecided
PROPERTIES
    RequestIsAnswered
    LoadingEnds
