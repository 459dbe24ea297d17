SPECIFICATION PlanSpec
CONSTANTS
    s1 = s1
    s2 = s2
    column = column
    None = None
    Nil = Nil
    Sheets = {s1, s2}
    Rows = 2
    Columns = 2
    Unreadable = {column}
    MaxChanged = 4
    MaxActions = 2
    MaxContext = 6
    Plans <- MCAnswers
    Requests <- MCRequests
    Contexts <- MCContexts
CHECK_DEADLOCK FALSE
INVARIANTS
    PlanTypeOK
    GuardedCellsAreKept
    ChangeIsBounded
    PreviewIsRecomputed
    UnhandledOnlyForUnreadable
