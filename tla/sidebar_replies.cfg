SPECIFICATION FairSpec
CONSTANTS
    None = None
    Runs = {r1, r2}
    Slots = {c1, c2}
INVARIANTS
    TypeOK
    AppliedOnce
    AppliedWasExecuted
    ExecutedWasApproved
PROPERTIES
    KeepsToLifecycle
    SendComesBack
