SPECIFICATION FairSpec
CONSTANTS
    Nil = Nil
    Runs = {r1}
    Slots = {s1, s2}
    p1 = p1
    p2 = p2
    Plans = {p1}
    Targetless = {}
    Overlap = TRUE
    PreviewTTL = 0
    ApprovalTTL = 0
    MaxTime = 0
    MaxReports = 3
INVARIANTS
    UndoFollowsApply
    ReportsComplete
PROPERTIES
    OnlyStaleWritesReturn
    AppliedGetsUndo
