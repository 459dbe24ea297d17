SPECIFICATION Spec
CONSTANTS
    Nil = Nil
    Runs = {r1}
    Slots = {s1}
    p1 = p1
    p2 = p2
    Plans = {p1, p2}
    Targetless = {p2}
    Overlap = FALSE
    PreviewTTL = 1
    ApprovalTTL = 1
    MaxTime = 3
    MaxReports = 3
INVARIANTS
    TypeOK
    TokensAgreeWithRow
    IssuedOnce
PROPERTIES
    StatusNeverReturns
    FrozenWhenLapsed
    ImplementsLifecycle
