SPECIFICATION Spec
CONSTANTS
    Nil = Nil
    Runs = {r1}
    ClientTokens = {k1}
    hermes = hermes
    fake = fake
    missing = missing
    profile = profile
    Targets <- MCTargets
    Ranked <- MCRanked
    HermesTargets <- MCHermesTargets
    MaxAttempts = 2
    MaxDeltas = 1
INVARIANTS
    HermesOnly
