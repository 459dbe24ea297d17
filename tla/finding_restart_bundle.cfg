SPECIFICATION Spec
CONSTANTS
    Nil = Nil
    Runs = {r1}
    Slots = {s1}
    p1 = p1
    p2 = p2
    Plans = {p1}
    Targetless = {}
    Overlap = FALSE
    PreviewTTL = 1
    ApprovalTTL = 1
    MaxTime = 1
    MaxReports = 1
INVARIANTS
    BundleIsThePlan
