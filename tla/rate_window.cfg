SPECIFICATION GatewaySpec
CONSTANTS
    ann = ann
    cleo = cleo
    dan = dan
    token = token
    office = office
    old = old
    Nobody = Nobody
    Nil = Nil
    Clients <- MCClients
    Keys <- MCKeys
    Header <- MCHeader
    Host <- MCHost
    Credential <- MCCredential
    TokenHashes <- MCHashes
    HermesEnabled = TRUE
    TTL = 2
    PerMinute = 2
    Window = 2
    MaxTime = 3
INVARIANTS
    GatewayTypeOK
    WindowHolds
    RefusedOnlyWhenFull
    CallsAreCounted
    ListIsCurrent
PROPERTIES
    StrangersDoNotCount
