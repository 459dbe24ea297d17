------------------------------ MODULE Gateway -------------------------------
(***************************************************************************)
(* What a request passes before a handler runs, in the order main.py       *)
(* stacks the middlewares: the bearer token (api/auth.py), then the        *)
(* request limit (RateLimit). Behind them the one handler that asks        *)
(* another service for every client: GET /v1/capabilities (ModelList).     *)
(***************************************************************************)
EXTENDS RateLimit

CONSTANTS
    Credential,    \* Credential[c]: the bearer token c presents, or Nil
    TokenHashes,   \* the tokens whose hashes are configured; none in development
    HermesEnabled, \* hermes_enabled
    TTL,           \* how long a list of models is kept
    Nil            \* no token, no list

ASSUME GatewayAssumption == /\ Nil \notin Nat /\ Nil \notin TokenHashes
                            /\ TTL \in Nat \ {0} /\ HermesEnabled \in BOOLEAN

VARIABLES
    cached, asking, served, \* of ModelList
    counted                 \* history: the request the latest step counted, or Nil

Models == INSTANCE ModelList

gatewayVars == <<vars, cached, asking, served, counted>>

\* /health/*; /logo.png and /static/*; /v1/capabilities; every other path.
Paths == {"health", "asset", "capabilities", "other"}

-----------------------------------------------------------------------------

Authenticated(c) ==
    TokenHashes # {} => Credential[c] # Nil /\ Credential[c] \in TokenHashes

\* ClientAuthMiddleware lets the request through.
Passes(c, path) == path \in {"health", "asset"} \/ Authenticated(c)

\* Faulty variant: the capabilities are taken for a health check.
LimitedNotCapabilities(path) == path \notin {"health", "capabilities"}

\* RateLimitMiddleware counts the request.
Limited(path) == path # "health"

\* The handler. Only the capabilities have state here.
Handle(c, path) ==
    IF path = "capabilities" /\ HermesEnabled
    THEN Models!CacheHit(c) \/ Models!AskHermes(c)
    ELSE Models!Quiet

Drop == UNCHANGED vars /\ counted' = Nil /\ Models!Quiet

TooMany(c) == Refuse(c) /\ counted' = Nil /\ Models!Quiet

Count(c, path) == Grant(c) /\ counted' = [client |-> c, path |-> path]

\* Faulty variant: the limiter comes first.
RequestCountedFirst(c, path) ==
    \/ ~Limited(path) /\ Drop
    \/ Limited(path) /\ TooMany(c)
    \/ Limited(path) /\ Count(c, path) /\ IF Passes(c, path) THEN Handle(c, path)
                                                            ELSE Models!Quiet

\* A request: 401, a health check, 429, or it is counted and handled.
Request(c, path) ==
    \/ ~Passes(c, path) /\ Drop
    \/ Passes(c, path) /\ ~Limited(path) /\ UNCHANGED vars /\ counted' = Nil /\ Handle(c, path)
    \/ Passes(c, path) /\ Limited(path) /\ TooMany(c)
    \/ Passes(c, path) /\ Limited(path) /\ Count(c, path) /\ Handle(c, path)

\* The gateway answers, or does not.
HermesReplies(c) ==
    /\ Models!Fetched(c) \/ Models!NotFetched(c)
    /\ counted' = Nil
    /\ UNCHANGED vars

Wait == Tick /\ counted' = Nil /\ Models!Quiet

\* The windows and the list are in the memory of the process.
RestartGateway == Restart /\ counted' = Nil /\ Models!Forget

GatewayInit == Init /\ Models!Init /\ counted = Nil

GatewayNext ==
    \/ \E c \in Clients, path \in Paths : Request(c, path)
    \/ \E c \in Clients : HermesReplies(c)
    \/ Wait
    \/ RestartGateway

GatewaySpec == GatewayInit /\ [][GatewayNext]_gatewayVars

-----------------------------------------------------------------------------
(* Properties *)

\* The types of the state.
GatewayTypeOK ==
    /\ TypeOK
    /\ Models!TypeOK
    /\ counted \in [client : Clients, path : Paths] \cup {Nil}

\* The step counts a request of a client with a valid token, or for public assets.
CountsTheKnown ==
    \A k \in Keys :
        Len(granted'[k]) > Len(granted[k]) =>
            counted'.path = "asset" \/ Authenticated(counted'.client)

\* A request without a valid token does not take the place of one with: clients
\* without a header of their own share the window of their host with strangers, and
\* what a stranger sends there is counted for the public assets only.
StrangersDoNotCount == [][CountsTheKnown]_gatewayVars

\* Each request the gateway waits for was made for an authenticated client and is
\* paid for: it was counted, at the instant it started, under the client's key.
CallsAreCounted ==
    \A c \in Clients : asking[c] # Nil =>
        /\ Authenticated(c)
        /\ \E i \in 1..Len(granted[Key(c)]) : granted[Key(c)][i] = asking[c]

\* A list of models that is served was made less than a minute before it was asked
\* for, however refreshes, restarts and refusals interleave.
ListIsCurrent == Models!ServedIsCurrent
=============================================================================
