SPECIFICATION Spec
CONSTANTS
    None = None
    Runs = {r1, r2}
    Slots = {c1, c2}
INVARIANTS
    OnePlanInFlight
