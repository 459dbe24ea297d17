SPECIFICATION StreamFairSpec
CONSTANTS
    Nil = Nil
    Runs = {r1, r2}
    ClientTokens = {k1}
    hermes = hermes
    fake = fake
    missing = missing
    profile = profile
    Targets <- MCTargets
    Ranked <- MCRanked
    HermesTargets <- MCHermesTargets
    Local <- MCLocal
    MaxAttempts = 2
    MaxDeltas = 2
INVARIANTS
    StreamTypeOK
    RouteIsOfAnAnswer
    PollsSeeOneAnswer
    CallsBounded
PROPERTIES
    AcceptedWasShown
    PlanningComesCloser
    SettlesUnlessKeptAlive
