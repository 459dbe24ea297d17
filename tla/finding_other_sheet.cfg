SPECIFICATION Spec
CONSTANTS
    s1 = s1
    s2 = s2
    column = column
    None = None
    Sheets = {s1, s2}
    Rows = 2
    Columns = 2
    Unreadable = {column}
    MaxChanged = 4
    MaxActions = 2
    Plans <- MCPlans
    Requests <- MCRequests
CHECK_DEADLOCK FALSE
INVARIANTS
    TargetsInContext
