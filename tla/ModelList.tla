----------------------------- MODULE ModelList ------------------------------
(***************************************************************************)
(* The list of models that GET /v1/capabilities shows: what the Hermes     *)
(* gateway answered, kept for a minute (providers/implementations/         *)
(* hermes.py, list_models; api/capabilities.py). The request to the        *)
(* gateway is awaited, and any number of clients may be waiting. A list is *)
(* the instant at which the gateway made it.                               *)
(***************************************************************************)
EXTENDS Naturals

CONSTANTS
    Clients, \* who asks for the capabilities
    TTL,     \* _MODEL_LIST_CACHE_TTL_SECONDS, in clock ticks
    Nil      \* no list, not asking

VARIABLES
    now,    \* the monotonic clock, driven from outside
    cached, \* _models_cache and _models_cache_at, or Nil
    asking, \* asking[c]: when the request to the gateway for c started, or Nil
    served  \* history: the list the latest step served, when it was asked for; or Nil

-----------------------------------------------------------------------------

Fresh == cached # Nil /\ now < cached.at + TTL

CacheHit(c) ==
    /\ Fresh
    /\ served' = [list |-> cached.list, asked |-> now]
    /\ UNCHANGED <<cached, asking>>

\* `now` is taken before the request to the gateway is awaited.
AskHermes(c) ==
    /\ asking[c] = Nil /\ ~Fresh
    /\ asking' = [asking EXCEPT ![c] = now]
    /\ served' = Nil
    /\ UNCHANGED cached

Done(c) == asking[c] # Nil /\ asking' = [asking EXCEPT ![c] = Nil]

\* Faulty variant: the list is stamped when it arrives.
FetchedStampedLate(c) ==
    /\ Done(c)
    /\ \E t \in asking[c]..now :
          /\ cached' = [list |-> t, at |-> now]
          /\ served' = [list |-> t, asked |-> asking[c]]

\* The gateway made its list at some instant since it was asked; whatever is in
\* the cache by now is replaced.
Fetched(c) ==
    /\ Done(c)
    /\ \E t \in asking[c]..now :
          /\ cached' = [list |-> t, at |-> asking[c]]
          /\ served' = [list |-> t, asked |-> asking[c]]

\* No connection, a status other than 200, no models: the configured model is
\* served instead and not kept. An answer of another shape ("data": null) raises
\* an error nobody handles. The cache, fresh by now or not, is not looked at again.
NotFetched(c) == Done(c) /\ served' = Nil /\ UNCHANGED cached

\* Nothing happens to the list.
Quiet == served' = Nil /\ UNCHANGED <<cached, asking>>

Forget ==
    /\ cached' = Nil
    /\ asking' = [c \in Clients |-> Nil]
    /\ served' = Nil

Init == cached = Nil /\ asking = [c \in Clients |-> Nil] /\ served = Nil

-----------------------------------------------------------------------------
(* Properties *)

TypeOK ==
    /\ cached \in [list : Nat, at : Nat] \cup {Nil}
    /\ asking \in [Clients -> Nat \cup {Nil}]
    /\ served \in [list : Nat, asked : Nat] \cup {Nil}

\* Whoever refreshes the list at the same time, in whatever order their replies
\* come and an older list replaces a newer one: a list that is served was made less
\* than a minute before it was asked for.
ServedIsCurrent == served # Nil => served.asked < served.list + TTL

\* A cached list is no older than its stamp, and no stamp is ahead of the clock.
CacheInv ==
    /\ cached # Nil => cached.at <= cached.list
    /\ \A c \in Clients : asking[c] # Nil => asking[c] <= now
=============================================================================
