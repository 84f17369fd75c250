SPECIFICATION Spec
CONSTANTS
    MAX_DEPTHS = 3
    Rows = 2
    NULL = NULL
    a = a
    b = b
    c = c
    d = d
    e = e
    f = f
    Modes <- MCModes
    Code <- MCCode
    Codes <- MCCodes
    Size <- MCSize
    InitTables <- MCInitTables
    MallocFails = {TRUE, FALSE}
CHECK_DEADLOCK FALSE
INVARIANTS
    TypeOK
    ConfirmedMode
    HighlightIsChoice
    OkIffChoice
    LabelMatchesList
    PopupRoundTrip
    AtMostOne
    WholeListShown
PROPERTIES
    RemembersChoice
    ShowsChoice
    PreselectsCurrent
